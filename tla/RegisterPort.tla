---------------------------- MODULE RegisterPort ----------------------------
(***************************************************************************)
(* What dmi.c promises to target.c: a call asks for accesses to registers  *)
(* of the debug module.  They are made in order and once each; a call that *)
(* returns DONE has made all of them, after everything asked before, and   *)
(* returns what they read.  A call that fails has made the first few, and  *)
(* may leave one behind that is made later or never.  From a power failure *)
(* of the target until the next connection the accesses are still no other *)
(* than those asked for, but nothing is promised of the answers.           *)
(***************************************************************************)
EXTENDS Naturals, Sequences

CONSTANTS Addrs, Values, Blank

VARIABLES
  dm,           \* the registers
  busy,         \* a call is under way
  todo,         \* its accesses that have not been made
  got,          \* what those that have been made have read
  known,        \* the target has kept its power since the last connection
  loose,        \* the access that a failed call has left behind, if any
  answer        \* of the last call, until the next one begins

vars == <<dm, busy, todo, got, known, loose, answer>>

Access == [write : BOOLEAN, addr : Addrs, data : Values]
Blanks == [a \in Addrs |-> Blank]

NoAnswer == [done |-> FALSE, data |-> <<>>]

Init ==
  /\ dm = Blanks
  /\ busy = FALSE /\ todo = <<>> /\ got = <<>> /\ known = FALSE
  /\ loose = <<>>
  /\ answer = NoAnswer

Begin(accesses) ==
  /\ ~busy
  /\ busy' = TRUE /\ todo' = accesses /\ got' = <<>>
  /\ known' = known \/ (known' = TRUE /\ accesses = <<>>)   \* a connection
  /\ answer' = NoAnswer
  /\ UNCHANGED <<dm, loose>>

Made(a) == dm' = IF a.write THEN [dm EXCEPT ![a.addr] = a.data] ELSE dm

Make ==
  /\ busy /\ todo # <<>> /\ loose = <<>>
  /\ Made(Head(todo))
  /\ todo' = Tail(todo)
  /\ got' = IF Head(todo).write THEN got ELSE Append(got, dm[Head(todo).addr])
  /\ UNCHANGED <<busy, known, loose, answer>>

MakeLoose ==
  /\ loose # <<>>
  /\ Made(Head(loose)) \/ UNCHANGED dm
  /\ loose' = <<>>
  /\ UNCHANGED <<busy, todo, got, known, answer>>

ReturnDone ==
  /\ busy /\ known /\ todo = <<>> /\ loose = <<>>
  /\ busy' = FALSE /\ got' = <<>>
  /\ answer' = [done |-> TRUE, data |-> got]
  /\ UNCHANGED <<dm, todo, known, loose>>

\* A call that gives up, or ends without knowing the target any more.
ReturnOther ==
  /\ busy
  /\ busy' = FALSE /\ todo' = <<>> /\ got' = <<>>
  /\ \/ UNCHANGED loose
     \/ loose = <<>> /\ todo # <<>> /\ loose' = <<Head(todo)>>
  /\ known => answer' = NoAnswer
  /\ UNCHANGED <<dm, known>>

LosePower ==
  /\ dm' = Blanks
  /\ loose' = <<>>
  /\ known' = FALSE
  /\ UNCHANGED <<busy, todo, got, answer>>

Next ==
  \/ \E n \in 0 .. 2 : \E accesses \in [1 .. n -> Access] : Begin(accesses)
  \/ Make \/ MakeLoose \/ ReturnDone \/ ReturnOther \/ LosePower

Spec == Init /\ [][Next]_vars
=============================================================================
