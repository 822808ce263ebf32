---------------------------- MODULE FlashProofs ----------------------------
(***************************************************************************)
(* Proofs about Flash, for a flash of any size, any set of protected pages *)
(* and a clock of any range: the types, what an OK means, which words a    *)
(* command may change, and when an erasure is given up.                    *)
(***************************************************************************)
EXTENDS Flash, Integers, TLAPS

-----------------------------------------------------------------------------
(***************************************************************************)
(* The inductive invariant.                                                *)
(***************************************************************************)
ErasePcs == {"unlock", "page", "start", "wait", "timer", "check"}
WritePcs == {"program", "words", "clear"}

TypeInv ==
  /\ pc \in {"idle", "done"} \cup ErasePcs \cup WritePcs
  /\ cmd \in [kind : {"none", "erase", "write", "done"},
              first : Words, end : 0 .. Pages * PageWords]
  /\ at \in 0 .. Pages * PageWords
  /\ seen \in [busy : BOOLEAN, flags : SUBSET {"WPERR", "PGERR"}]
  /\ start \in 0 .. ClockMod - 1
  /\ locked \in BOOLEAN /\ ctl \in {"none", "PER", "PG"} /\ addr \in Page
  /\ flags \in SUBSET {"WPERR", "PGERR"}
  /\ busy \in {Free} \cup [op : {"erase", "program"}, page : Page]
  /\ mem \in [Words -> {"old", "torn", "erased", "data"}]
  /\ now \in 0 .. ClockMod - 1 /\ waited \in 0 .. EraseTime /\ lag \in 0 .. MaxLag
  /\ reply \in {"none", "OK", "E01", "E02", "E03"}
  /\ erased \in SUBSET Page /\ written \in SUBSET Words /\ clash \in BOOLEAN
  /\ errMsg \in BOOLEAN /\ dropped \in 0 .. MaxDrops

\* The command that a label belongs to, and how far it has come.
CommandInv ==
  /\ pc = "idle" => cmd.kind = "none"
  /\ pc = "done" => cmd.kind = "done"
  /\ pc \in ErasePcs => /\ cmd.kind = "erase"
                        /\ cmd.first \in Page /\ cmd.end \in 1 .. Pages
                        /\ cmd.first <= at /\ at <= cmd.end
  /\ pc \in {"start", "wait", "timer", "check"} => at < cmd.end
  /\ pc = "start" /\ dropped = 0 => addr = at
  /\ pc \in WritePcs => /\ cmd.kind = "write"
                        /\ cmd.end \in 1 .. Pages * PageWords
                        /\ cmd.first <= at /\ at <= cmd.end
  /\ pc = "program" => at = cmd.first
  /\ pc = "clear" => at = cmd.end

\* The clock has moved by the ticks counted, until they are all there were to be.
TimeInv ==
  /\ Waiting => waited = EraseTime \/ now = (start + waited) % ClockMod
  /\ pc = "check" /\ seen.busy => waited = EraseTime

\* A page is torn for as long as the controller erases it.
TornInv == busy.op = "erase" => \A w \in Words : PageOf(w) = busy.page => mem[w] = "torn"

\* What GDB asks is new, and in order.
AskedInv ==
  /\ cmd.kind = "erase" => written = {} /\ Asked \cap erased = {}
  /\ cmd.kind = "write" => \A w \in Asked : PageOf(w) \in erased /\ w \notin written

\* A word holds the data, or is blank with the error noted.
Sound(w) ==
  \/ mem[w] = "data"
  \/ errMsg /\ (mem[w] = "erased" \/ clash)
  \/ clash /\ PageOf(w) \in Protected

\* The words answered OK are sound.
WrittenInv == dropped = 0 => \A w \in written : Sound(w)

\* The pages answered OK are blank, except for what is written into them.
ErasedInv ==
  ~ clash /\ dropped = 0 =>
    /\ erased \cap Protected = {}
    /\ \A w \in Words \ written : PageOf(w) \in erased =>
         \/ mem[w] = "erased"
         \/ cmd.kind = "write" /\ cmd.first <= w /\ w < at /\ mem[w] = "data"

\* The words that a write has passed are sound, or PGERR tells.
WriteInv ==
  cmd.kind = "write" /\ dropped = 0 =>
    \A w \in Words : cmd.first <= w /\ w < at =>
      Sound(w) \/ (pc # "clear" /\ "PGERR" \in flags)

Blank(p) == \A w \in Words : PageOf(w) = p => mem[w] = "erased"

\* The pages that an erasure has passed are blank, and so is the page it is at
\* when the controller is ready and does not refuse it.
EraseInv ==
  cmd.kind = "erase" /\ ~ clash /\ dropped = 0 =>
    /\ \A p \in Page : cmd.first <= p /\ p < at => p \notin Protected /\ Blank(p)
    /\ pc \in {"wait", "timer"} =>
         IF at \in Protected THEN "WPERR" \in flags
         ELSE busy = [op |-> "erase", page |-> at] \/ Blank(at)
    /\ pc \in {"timer", "check"} =>
         IF at \in Protected THEN "WPERR" \in seen.flags ELSE seen.busy \/ Blank(at)

IInv ==
  /\ TypeInv /\ CommandInv /\ TimeInv /\ TornInv
  /\ AskedInv /\ WrittenInv /\ ErasedInv /\ WriteInv /\ EraseInv

-----------------------------------------------------------------------------
(***************************************************************************)
(* Arithmetic of pages and of the clock.                                   *)
(***************************************************************************)
LEMMA PageType ==
  ASSUME NEW w \in Words
  PROVE  PageOf(w) \in Page
<1>1. Pages \in Nat /\ PageWords \in Nat /\ Pages > 0 /\ PageWords > 0
  BY FlashAssumption
<1>2. w \in Nat /\ w < Pages * PageWords
  BY <1>1 DEF Words
<1> DEFINE q == w \div PageWords
           r == w % PageWords
<1>3. q \in Int /\ r \in 0 .. PageWords - 1 /\ w = PageWords * q + r
  BY <1>1, <1>2
<1> HIDE DEF q, r
<1>4. q >= 0
  BY <1>1, <1>2, <1>3
<1>5. q < Pages
  BY <1>1, <1>2, <1>3
<1> QED
  BY <1>1, <1>3, <1>4, <1>5 DEF Page, PageOf, q

LEMMA PagesFit ==
  /\ Page \subseteq Words
  /\ \A p \in 0 .. Pages : p \in 0 .. Pages * PageWords
<1>1. Pages \in Nat /\ PageWords \in Nat /\ Pages > 0 /\ PageWords > 0
  BY FlashAssumption
<1>2. Pages * PageWords \in Nat /\ Pages * PageWords >= Pages
  BY <1>1
<1> QED
  BY <1>1, <1>2 DEF Page, Words

-----------------------------------------------------------------------------
(***************************************************************************)
(* Every step keeps the invariant.                                         *)
(***************************************************************************)
LEMMA Numbers ==
  ASSUME TypeInv
  PROVE  /\ at \in Nat /\ cmd.first \in Nat /\ cmd.end \in Nat
         /\ Words \subseteq Nat /\ Page \subseteq Nat /\ Pages \in Nat
<1>1. Words \subseteq Nat /\ Page \subseteq Nat
  BY DEF Words, Page
<1> DEFINE N == Pages * PageWords
<1>2. N \in Nat /\ Pages \in Nat
  BY FlashAssumption
<1>3. at \in 0 .. N /\ cmd.first \in Words /\ cmd.end \in 0 .. N
  BY DEF TypeInv
<1> HIDE DEF N
<1>4. at \in Nat /\ cmd.end \in Nat
  BY <1>2, <1>3
<1> QED
  BY <1>1, <1>2, <1>3, <1>4, Zenon

\* A timer that has expired has run for its interval.
LEMMA ExpiredInTime ==
  ASSUME NEW s \in 0 .. ClockMod - 1, NEW w \in 0 .. EraseTime,
         Expired(s, EraseTime, (s + w) % ClockMod)
  PROVE  w = EraseTime
<1> DEFINE n == (s + w) % ClockMod
<1>1. ClockMod \in Nat \ {0} /\ EraseTime \in Nat /\ EraseTime + 1 < ClockMod
  BY FlashAssumption
<1>2. n = IF s + w < ClockMod THEN s + w ELSE s + w - ClockMod
  <2>1. s + w \in 0 .. 2 * ClockMod - 1
    BY <1>1
  <2> QED
    BY <1>1, <2>1
<1>3. (n + ClockMod - s) + 1 = IF s + w < ClockMod THEN w + 1 + ClockMod ELSE w + 1
  BY <1>1, <1>2
<1>4. (w + 1) % ClockMod = w + 1 /\ (w + 1 + ClockMod) % ClockMod = w + 1
  <2>1. w + 1 \in 0 .. 2 * ClockMod - 1 /\ w + 1 + ClockMod \in 0 .. 2 * ClockMod - 1
    BY <1>1
  <2>2. /\ (w + 1) % ClockMod
           = IF w + 1 < ClockMod THEN w + 1 ELSE w + 1 - ClockMod
        /\ (w + 1 + ClockMod) % ClockMod
           = IF w + 1 + ClockMod < ClockMod THEN w + 1 + ClockMod ELSE w + 1 + ClockMod - ClockMod
    BY <1>1, <2>1
  <2> QED
    BY <1>1, <2>2
<1>5. EraseTime < ((n + ClockMod - s) + 1) % ClockMod
  BY DEF Expired
<1> QED
  BY <1>1, <1>3, <1>4, <1>5

LEMMA ZeroType ==
  /\ NoCommand \in [kind : {"none", "erase", "write", "done"},
                    first : Words, end : 0 .. Pages * PageWords]
  /\ NoStatus \in [busy : BOOLEAN, flags : SUBSET {"WPERR", "PGERR"}]
  /\ 0 \in Page /\ 0 \in Words /\ 0 \in 0 .. Pages * PageWords /\ 0 \in 0 .. ClockMod - 1
<1>1. 0 \in Page /\ 0 \in Words /\ 0 \in 0 .. Pages * PageWords /\ 0 \in 0 .. ClockMod - 1
  BY FlashAssumption, PagesFit DEF Page
<1>2. {} \in SUBSET {"WPERR", "PGERR"}
  OBVIOUS
<1> QED
  BY <1>1, <1>2 DEF NoCommand, NoStatus

\* An access that comes to nothing is dropped, or refused and noted; an erasure
\* has no word under way that could refuse one.
LEMMA Fate ==
  ASSUME TypeInv, Reaches \/ Fails
  PROVE  /\ errMsg' \in BOOLEAN /\ dropped' \in 0 .. MaxDrops
         /\ dropped' = 0 => dropped = 0
         /\ errMsg => errMsg'
<1>1. CASE Reaches
  BY <1>1 DEF Reaches, missVars, TypeInv
<1>2. CASE RefusedAndNoted
  BY <1>2 DEF RefusedAndNoted, TypeInv
<1>3. CASE Dropped
  <2>1. dropped' = dropped + 1 /\ dropped < MaxDrops /\ dropped \in 0 .. MaxDrops
    BY <1>3 DEF Dropped, TypeInv
  <2>2. dropped' \in 0 .. MaxDrops /\ dropped' # 0
    BY <2>1, FlashAssumption
  <2>3. errMsg \in BOOLEAN /\ errMsg' = errMsg
    BY <1>3 DEF Dropped, TypeInv
  <2> QED
    BY <2>2, <2>3
<1> QED
  BY <1>1, <1>2, <1>3 DEF Fails

LEMMA FateOfFailure ==
  ASSUME TypeInv, Fails
  PROVE  /\ dropped' # 0 \/ errMsg'
         /\ cmd.kind = "erase" => dropped' # 0
<1>1. Dropped => dropped' # 0
  BY DEF Dropped, TypeInv
<1>2. RefusedAndNoted => errMsg' /\ cmd.kind = "write"
  BY DEF RefusedAndNoted, CommandRuns
<1> QED
  BY <1>1, <1>2 DEF Fails

\* An error ends the load: GDB relies on nothing any more.
LEMMA ErrorKeeps ==
  ASSUME IInv, NEW r \in {"E01", "E02", "E03"}, Return(r), lag' = 0,
         seen' \in [busy : BOOLEAN, flags : SUBSET {"WPERR", "PGERR"}],
         start' \in 0 .. ClockMod - 1, waited' \in 0 .. EraseTime,
         locked' \in BOOLEAN, ctl' \in {"none", "PER", "PG"},
         flags' \in SUBSET {"WPERR", "PGERR"},
         UNCHANGED <<addr, busy, mem, now>>
  PROVE  IInv'
<1>0. /\ pc' = "idle" /\ cmd' = NoCommand /\ at' = 0 /\ reply' = r
      /\ erased' = {} /\ written' = {} /\ clash' = FALSE
      /\ errMsg' = FALSE /\ dropped' = 0
  BY DEF Return, NewLoad
<1>1. TypeInv'
  <2>1. /\ cmd' \in [kind : {"none", "erase", "write", "done"}, first : Words, end : 0 .. Pages * PageWords]
        /\ at' \in 0 .. Pages * PageWords
    BY <1>0, ZeroType
  <2>2. /\ erased' \in SUBSET Page /\ written' \in SUBSET Words /\ clash' \in BOOLEAN
        /\ reply' \in {"none", "OK", "E01", "E02", "E03"}
        /\ pc' \in {"idle", "done"} \cup ErasePcs \cup WritePcs
    BY <1>0
  <2>6. errMsg' \in BOOLEAN /\ dropped' \in 0 .. MaxDrops
    <3>1. 0 \in 0 .. MaxDrops
      BY FlashAssumption
    <3> QED
      BY <1>0, <3>1
  <2>3. addr' \in Page /\ mem' \in [Words -> {"old", "torn", "erased", "data"}] /\ now' \in 0 .. ClockMod - 1
    BY <1>0 DEF IInv, TypeInv
  <2>4. busy' \in {Free} \cup [op : {"erase", "program"}, page : Page] /\ lag' \in 0 .. MaxLag
    BY <1>0, FlashAssumption DEF IInv, TypeInv
  <2>5. /\ seen' \in [busy : BOOLEAN, flags : SUBSET {"WPERR", "PGERR"}]
        /\ start' \in 0 .. ClockMod - 1 /\ waited' \in 0 .. EraseTime
        /\ locked' \in BOOLEAN /\ ctl' \in {"none", "PER", "PG"}
        /\ flags' \in SUBSET {"WPERR", "PGERR"}
    BY <1>0 DEF IInv
  <2> QED
    BY <2>1, <2>2, <2>3, <2>4, <2>5, <2>6 DEF TypeInv
<1>2. CommandInv'
  BY <1>0 DEF CommandInv, NoCommand, ErasePcs, WritePcs
<1>3. TimeInv'
  BY <1>0 DEF IInv, TimeInv, Waiting
<1>4. TornInv'
  BY <1>0 DEF IInv, TornInv
<1>5. AskedInv'
  BY <1>0 DEF IInv, NoCommand, AskedInv, Asked
<1>6. WrittenInv'
  BY <1>0 DEF IInv, Sound, WrittenInv
<1>7. ErasedInv'
  BY <1>0 DEF IInv, ErasedInv
<1>8. WriteInv'
  BY <1>0 DEF IInv, NoCommand, Sound, WriteInv
<1>9. EraseInv'
  BY <1>0 DEF IInv, NoCommand, EraseInv, Blank
<1> QED
  BY <1>1, <1>2, <1>3, <1>4, <1>5, <1>6, <1>7, <1>8, <1>9 DEF IInv

LEMMA UnlockKeeps ==
  ASSUME IInv, Unlock
  PROVE  IInv'
<1>1. CASE Return("E01")
  <2>1. /\ locked' \in BOOLEAN /\ lag' = 0
        /\ UNCHANGED <<seen, start, ctl, addr, flags, busy, mem, waited, now>>
    BY DEF Unlock, At, IInv, TypeInv
  <2> QED
    BY <1>1, <2>1, ErrorKeeps DEF IInv, TypeInv
<1>2. CASE Goto("page") /\ UNCHANGED at /\ (Fails \/ Reaches)
  <2>0. /\ pc = "unlock" /\ pc' = "page" /\ lag' = 0 /\ locked' \in BOOLEAN
        /\ UNCHANGED <<cmd, hostVars, at, seen, start, ctl, addr, flags, busy, mem, waited, now>>
    BY <1>2 DEF Unlock, At, Goto, IInv, TypeInv
  <2>f. /\ errMsg' \in BOOLEAN /\ dropped' \in 0 .. MaxDrops
        /\ dropped' = 0 => dropped = 0
        /\ errMsg => errMsg'
    BY <1>2, Fate DEF IInv
  <2>1. TypeInv'
    BY FlashAssumption, <2>0, <2>f DEF hostVars, IInv, TypeInv, ErasePcs
  <2>2. CommandInv'
    BY <2>0 DEF IInv, TypeInv, CommandInv, ErasePcs, WritePcs
  <2>3. TimeInv'
    BY <2>0 DEF IInv, TimeInv, Waiting
  <2>4. TornInv'
    BY <2>0 DEF IInv, TornInv
  <2>5. AskedInv'
    BY <2>0 DEF hostVars, IInv, AskedInv, Asked
  <2>6. WrittenInv'
    BY <2>0, <2>f DEF hostVars, IInv, Sound, WrittenInv
  <2>7. ErasedInv'
    BY <2>0, <2>f DEF hostVars, IInv, ErasedInv
  <2>8. WriteInv'
    BY <2>0, <2>f DEF hostVars, IInv, Sound, WriteInv
  <2>9. EraseInv'
    BY <2>0, <2>f DEF hostVars, IInv, EraseInv, Blank
  <2> QED
    BY <2>1, <2>2, <2>3, <2>4, <2>5, <2>6, <2>7, <2>8, <2>9 DEF IInv
<1> QED
  BY <1>1, <1>2 DEF Unlock

LEMMA SelectPageKeeps ==
  ASSUME IInv, SelectPage
  PROVE  IInv'
<1>0. /\ pc = "page" /\ pc' = "start" /\ lag' = 0 /\ at < cmd.end
      /\ cmd.kind = "erase" /\ at \in Page
      /\ UNCHANGED <<cmd, hostVars, at, seen, start, locked, flags, busy, mem, waited, now>>
  <2>1. /\ pc = "page" /\ pc' = "start" /\ lag' = 0 /\ at < cmd.end
        /\ UNCHANGED <<cmd, hostVars, at, seen, start, locked, flags, busy, mem, waited, now>>
    BY DEF SelectPage, At, Goto, MorePages
  <2> QED
    BY <2>1, FlashAssumption DEF IInv, TypeInv, CommandInv, ErasePcs, Page
<1>1. /\ errMsg' \in BOOLEAN /\ dropped' \in 0 .. MaxDrops
      /\ dropped' = 0 => dropped = 0
      /\ errMsg => errMsg'
      /\ addr' \in {addr, at} /\ ctl' \in {ctl, "PER"}
      /\ dropped' = 0 => addr' = at
  <2>1. CASE Reaches /\ ctl' = Ctl("PER") /\ addr' = at
    BY <2>1, Fate DEF Ctl, IInv
  <2>2. CASE Fails /\ ctl' \in {ctl, Ctl("PER")} /\ addr' \in {addr, at}
    BY <1>0, <2>2, Fate, FateOfFailure DEF Ctl, IInv
  <2> QED
    BY <2>1, <2>2 DEF SelectPage
<1>2. TypeInv'
  <2>1. addr' \in Page /\ ctl' \in {"none", "PER", "PG"} /\ lag' \in 0 .. MaxLag
    BY <1>0, <1>1, FlashAssumption DEF IInv, TypeInv
  <2> QED
    BY <1>0, <1>1, <2>1 DEF hostVars, IInv, TypeInv, ErasePcs
<1>3. CommandInv'
  BY <1>0, <1>1 DEF IInv, TypeInv, CommandInv, ErasePcs, WritePcs
<1>4. TimeInv'
  BY <1>0 DEF IInv, TimeInv, Waiting
<1>5. TornInv'
  BY <1>0 DEF IInv, TornInv
<1>6. AskedInv'
  BY <1>0 DEF hostVars, IInv, AskedInv, Asked
<1>7. WrittenInv' /\ WriteInv'
  BY <1>0, <1>1 DEF hostVars, IInv, Sound, WrittenInv, WriteInv
<1>8. ErasedInv'
  BY <1>0, <1>1 DEF hostVars, IInv, ErasedInv
<1>9. EraseInv'
  BY <1>0, <1>1 DEF hostVars, IInv, EraseInv, Blank
<1> QED
  BY <1>2, <1>3, <1>4, <1>5, <1>6, <1>7, <1>8, <1>9 DEF IInv

LEMMA StartPageKeeps ==
  ASSUME IInv, StartPage
  PROVE  IInv'
<1>0. /\ pc = "start" /\ pc' = "wait" /\ lag' = 0 /\ start' = now /\ waited' = 0
      /\ UNCHANGED <<cmd, at, seen, locked, addr, reply, erased, written, now>>
      /\ cmd.kind = "erase" /\ at \in Asked /\ at \in Page /\ at \notin erased
      /\ addr \in Page /\ dropped = 0 => addr = at
      /\ written = {}
  <2>1. pc = "start" /\ pc' = "wait" /\ lag' = 0 /\ start' = now /\ waited' = 0
    BY DEF StartPage, At
  <2>2. UNCHANGED <<cmd, at, seen, locked, addr, reply, erased, written, now>>
    BY DEF StartPage, At
  <2>3. cmd.kind = "erase" /\ at \in Asked /\ at \in Page
    <3>1. cmd.kind = "erase" /\ cmd.first <= at /\ at < cmd.end /\ cmd.end \in 1 .. Pages
      BY <2>1 DEF IInv, CommandInv, ErasePcs
    <3> QED
      BY <3>1, Numbers DEF IInv, Asked, Page
  <2>4. addr \in Page /\ dropped = 0 => addr = at
    BY <2>1 DEF IInv, TypeInv, CommandInv
  <2> QED
    BY <2>1, <2>2, <2>3, <2>4 DEF IInv, AskedInv
<1>a. addr \in Page
  BY DEF IInv, TypeInv
<1>f. /\ errMsg' \in BOOLEAN /\ dropped' \in 0 .. MaxDrops
      /\ dropped' = 0 => dropped = 0
      /\ errMsg => errMsg'
      /\ ctl' \in {"none", "PER", "PG"}
  <2>1. Reaches \/ Fails
    BY DEF StartPage
  <2>2. ctl' \in {"none", "PER", "PG"}
    BY DEF StartPage, Ctl, IInv, TypeInv
  <2> QED
    BY <2>1, <2>2, Fate DEF IInv
<1>1. CASE Fails /\ UNCHANGED <<clash, ctl, flags, busy, mem>>
  <2>0. dropped' # 0 /\ UNCHANGED <<clash, flags, busy, mem>>
    BY <1>0, <1>1, FateOfFailure DEF IInv
  <2>1. TypeInv'
    BY FlashAssumption, <1>0, <1>a, <1>f, <2>0 DEF IInv, TypeInv, ErasePcs
  <2>2. CommandInv'
    BY <1>0, <2>0 DEF IInv, TypeInv, CommandInv, ErasePcs, WritePcs
  <2>3. TimeInv'
    BY FlashAssumption, <1>0, <2>0 DEF IInv, TypeInv, TimeInv, Waiting
  <2>4. TornInv'
    BY <1>0, <2>0 DEF IInv, TornInv
  <2>5. AskedInv'
    BY <1>0, <2>0 DEF IInv, AskedInv, Asked
  <2>6. WrittenInv'
    BY <1>0, <1>f, <2>0 DEF IInv, Sound, WrittenInv
  <2>7. ErasedInv'
    BY <1>0, <1>f, <2>0 DEF IInv, ErasedInv
  <2>8. WriteInv'
    BY <1>0, <1>f, <2>0 DEF IInv, Sound, WriteInv
  <2>9. EraseInv'
    BY <1>0, <1>f, <2>0 DEF IInv, TypeInv, EraseInv, Blank
  <2> QED
    BY <2>1, <2>2, <2>3, <2>4, <2>5, <2>6, <2>7, <2>8, <2>9 DEF IInv
<1>2. CASE Start /\ (locked \/ busy # Free)
  <2>0. clash' = TRUE /\ UNCHANGED <<flags, busy, mem>>
    BY <1>2 DEF Start
  <2>1. TypeInv'
    BY FlashAssumption, <1>0, <1>a, <1>f, <2>0 DEF IInv, TypeInv, ErasePcs
  <2>2. CommandInv'
    BY <1>0, <2>0 DEF IInv, TypeInv, CommandInv, ErasePcs, WritePcs
  <2>3. TimeInv'
    BY FlashAssumption, <1>0, <2>0 DEF IInv, TypeInv, TimeInv, Waiting
  <2>4. TornInv'
    BY <1>0, <2>0 DEF IInv, TornInv
  <2>5. AskedInv'
    BY <1>0, <2>0 DEF IInv, AskedInv, Asked
  <2>6. WrittenInv'
    BY <1>0, <1>f, <2>0 DEF IInv, Sound, WrittenInv
  <2>7. ErasedInv'
    BY <1>0, <1>f, <2>0 DEF IInv, ErasedInv
  <2>8. WriteInv'
    BY <1>0, <1>f, <2>0 DEF IInv, Sound, WriteInv
  <2>9. EraseInv'
    BY <1>0, <1>f, <2>0 DEF IInv, TypeInv, EraseInv, Blank
  <2> QED
    BY <2>1, <2>2, <2>3, <2>4, <2>5, <2>6, <2>7, <2>8, <2>9 DEF IInv
<1>3. CASE Start /\ ~ locked /\ busy = Free /\ addr \in Protected
  <2>0. flags' = flags \cup {"WPERR"} /\ UNCHANGED <<clash, busy, mem>> /\ addr \in Protected
    BY <1>3 DEF Start
  <2>1. TypeInv'
    BY FlashAssumption, <1>0, <1>a, <1>f, <2>0 DEF IInv, TypeInv, ErasePcs
  <2>2. CommandInv'
    BY <1>0, <2>0 DEF IInv, TypeInv, CommandInv, ErasePcs, WritePcs
  <2>3. TimeInv'
    BY FlashAssumption, <1>0, <2>0 DEF IInv, TypeInv, TimeInv, Waiting
  <2>4. TornInv'
    BY <1>0, <2>0 DEF IInv, TornInv
  <2>5. AskedInv'
    BY <1>0, <2>0 DEF IInv, AskedInv, Asked
  <2>6. WrittenInv'
    BY <1>0, <1>f, <2>0 DEF IInv, Sound, WrittenInv
  <2>7. ErasedInv'
    BY <1>0, <1>f, <2>0 DEF IInv, ErasedInv
  <2>8. WriteInv'
    BY <1>0, <1>f, <2>0 DEF IInv, Sound, WriteInv
  <2>9. EraseInv'
    BY <1>0, <1>f, <2>0 DEF IInv, TypeInv, EraseInv, Blank
  <2> QED
    BY <2>1, <2>2, <2>3, <2>4, <2>5, <2>6, <2>7, <2>8, <2>9 DEF IInv
<1>4. CASE Start /\ ~ locked /\ busy = Free /\ addr \notin Protected
  <2>0. /\ busy' = [op |-> "erase", page |-> addr] /\ addr \notin Protected
        /\ mem' = [w \in Words |-> IF PageOf(w) = addr THEN "torn" ELSE mem[w]]
        /\ UNCHANGED <<clash, flags>>
    BY <1>4 DEF Start
  <2>1. TypeInv'
    BY FlashAssumption, <1>0, <1>a, <1>f, <2>0 DEF IInv, TypeInv, ErasePcs
  <2>2. CommandInv'
    BY <1>0, <2>0 DEF IInv, TypeInv, CommandInv, ErasePcs, WritePcs
  <2>3. TimeInv'
    BY FlashAssumption, <1>0, <2>0 DEF IInv, TypeInv, TimeInv, Waiting
  <2>4. TornInv'
    BY <1>0, <2>0 DEF IInv, TornInv
  <2>5. AskedInv'
    BY <1>0, <2>0 DEF IInv, AskedInv, Asked
  <2>6. WrittenInv'
    BY <1>0, <1>f, <2>0 DEF IInv, Sound, WrittenInv
  <2>7. ErasedInv'
    <3> SUFFICES ASSUME ~ clash, dropped = 0
                 PROVE  ErasedInv'
      BY <1>f, <2>0 DEF ErasedInv
    <3>1. addr = at /\ at \notin erased
      BY <1>0, <1>a
    <3>2. \A w \in Words : PageOf(w) \in erased => mem'[w] = mem[w]
      BY <2>0, <3>1
    <3> QED
      BY <1>0, <2>0, <3>2 DEF IInv, ErasedInv
  <2>8. WriteInv'
    BY <1>0, <1>f, <2>0 DEF IInv, Sound, WriteInv
  <2>9. EraseInv'
    BY <1>0, <1>f, <2>0 DEF IInv, TypeInv, EraseInv, Blank
  <2> QED
    BY <2>1, <2>2, <2>3, <2>4, <2>5, <2>6, <2>7, <2>8, <2>9 DEF IInv
<1> QED
  BY <1>1, <1>2, <1>3, <1>4 DEF StartPage

LEMMA ReadStatusKeeps ==
  ASSUME IInv, ReadStatus
  PROVE  IInv'
<1>0. /\ pc = "wait" /\ pc' = "timer" /\ lag' = 0 /\ cmd.kind = "erase"
      /\ UNCHANGED <<cmd, hostVars, at, start, locked, ctl, addr, flags, busy, mem, waited, now>>
  <2>1. /\ pc = "wait" /\ pc' = "timer" /\ lag' = 0
        /\ UNCHANGED <<cmd, hostVars, at, start, locked, ctl, addr, flags, busy, mem, waited, now>>
    BY DEF ReadStatus, At, Goto, fmcVars
  <2> QED
    BY <2>1 DEF IInv, CommandInv, ErasePcs
<1>f. /\ errMsg' \in BOOLEAN /\ dropped' \in 0 .. MaxDrops
      /\ dropped' = 0 => dropped = 0
      /\ errMsg => errMsg'
      /\ seen' \in [busy : BOOLEAN, flags : SUBSET {"WPERR", "PGERR"}]
      /\ dropped' = 0 => seen' = Status
  <2>1. CASE Reaches /\ seen' = Status
    <3>1. Status \in [busy : BOOLEAN, flags : SUBSET {"WPERR", "PGERR"}]
      BY DEF Status, IInv, TypeInv
    <3> QED
      BY <2>1, <3>1, Fate DEF IInv
  <2>2. CASE Fails /\ seen' \in [busy : BOOLEAN, flags : SUBSET {"WPERR"}]
    <3>1. dropped' # 0
      BY <1>0, <2>2, FateOfFailure DEF IInv
    <3>2. seen' \in [busy : BOOLEAN, flags : SUBSET {"WPERR", "PGERR"}]
      <4>1. SUBSET {"WPERR"} \subseteq SUBSET {"WPERR", "PGERR"}
        OBVIOUS
      <4> QED
        BY <2>2, <4>1
    <3> QED
      BY <2>2, <3>1, <3>2, Fate DEF IInv
  <2> QED
    BY <2>1, <2>2 DEF ReadStatus
<1>1. TypeInv'
  BY FlashAssumption, <1>0, <1>f DEF hostVars, IInv, TypeInv, ErasePcs
<1>2. CommandInv'
  BY <1>0, <1>f DEF IInv, TypeInv, CommandInv, ErasePcs, WritePcs
<1>3. TimeInv'
  BY <1>0 DEF IInv, TimeInv, Waiting
<1>4. TornInv'
  BY <1>0 DEF IInv, TornInv
<1>5. AskedInv'
  BY <1>0 DEF hostVars, IInv, AskedInv, Asked
<1>6. WrittenInv'
  BY <1>0, <1>f DEF hostVars, IInv, Sound, WrittenInv
<1>7. ErasedInv'
  BY <1>0, <1>f DEF hostVars, IInv, ErasedInv
<1>8. WriteInv'
  BY <1>0, <1>f DEF hostVars, IInv, Sound, WriteInv
<1>9. EraseInv'
  <2> SUFFICES ASSUME dropped' = 0
               PROVE  EraseInv'
    BY DEF EraseInv
  <2>1. dropped = 0 /\ seen'.busy = (busy # Free) /\ seen'.flags = flags
    BY <1>f DEF Status
  <2>2. [op |-> "erase", page |-> at] # Free
    BY DEF Free
  <2> QED
    BY <1>0, <2>1, <2>2 DEF hostVars, IInv, EraseInv, Blank
<1> QED
  BY <1>1, <1>2, <1>3, <1>4, <1>5, <1>6, <1>7, <1>8, <1>9 DEF IInv

LEMMA CheckTimerKeeps ==
  ASSUME IInv, CheckTimer
  PROVE  IInv'
<1>1. TypeInv'
  <2>1. pc' \in {"wait", "check"} /\ UNCHANGED <<cmd, hostVars, now, lag, missVars, at, seen, start, fmcVars, waited>>
    BY DEF CheckTimer, Goto
  <2> QED
    BY <2>1 DEF missVars, hostVars, fmcVars, ErasePcs, IInv, TypeInv
<1>2. CommandInv'
  BY DEF CheckTimer, Goto, GiveUp, missVars, IInv, TypeInv, CommandInv, WritePcs
<1>3. TimeInv'
  <2>1. /\ pc = "timer" /\ now' = now /\ seen' = seen /\ start' = start /\ waited' = waited
        /\ pc' = "wait" \/ (pc' = "check" /\ (GiveUp \/ ~ seen.busy))
    BY DEF CheckTimer, Goto
  <2>2. waited = EraseTime \/ now = (start + waited) % ClockMod
    <3>1. TimeInv
      BY DEF IInv
    <3>2. pc \in {"wait", "timer", "check"}
      BY <2>1
    <3> QED
      BY <3>1, <3>2, Zenon DEF TimeInv, Waiting
  <2>3. start \in 0 .. ClockMod - 1 /\ waited \in 0 .. EraseTime
    BY DEF IInv, TypeInv
  <2>4. GiveUp => waited = EraseTime
    BY <2>2, <2>3, ExpiredInTime, Zenon DEF GiveUp
  <2>5. pc' = "check" /\ seen.busy => waited = EraseTime
    BY <2>1, <2>4, Zenon
  <2> QED
    <3>1. waited' = EraseTime \/ now' = (start' + waited') % ClockMod
      BY <2>1, <2>2, Zenon
    <3>2. pc' = "check" /\ seen'.busy => waited' = EraseTime
      BY <2>1, <2>5, Zenon
    <3> QED
      BY <3>1, <3>2, Zenon DEF TimeInv
<1>4. TornInv'
  BY DEF CheckTimer, Goto, GiveUp, missVars, fmcVars, IInv, TornInv
<1>5. AskedInv'
  BY DEF CheckTimer, Goto, GiveUp, missVars, hostVars, IInv, AskedInv, Asked
<1>6. WrittenInv'
  BY DEF CheckTimer, Goto, GiveUp, missVars, fmcVars, hostVars, IInv, Sound, WrittenInv
<1>7. ErasedInv'
  BY DEF CheckTimer, Goto, GiveUp, missVars, fmcVars, hostVars, IInv, ErasedInv
<1>8. WriteInv'
  BY DEF CheckTimer, Goto, GiveUp, missVars, fmcVars, hostVars, IInv, Sound, WriteInv
<1>9. EraseInv'
  BY DEF CheckTimer, Goto, GiveUp, missVars, fmcVars, hostVars, IInv, EraseInv, Blank
<1> QED
  BY <1>1, <1>2, <1>3, <1>4, <1>5, <1>6, <1>7, <1>8, <1>9 DEF IInv

LEMMA CheckPageKeeps ==
  ASSUME IInv, CheckPage
  PROVE  IInv'
<1>0. /\ pc = "check" /\ lag' = 0 /\ start' = 0
      /\ seen' = NoStatus /\ waited' = 0
      /\ UNCHANGED <<locked, ctl, addr, busy, mem, now>>
  BY DEF CheckPage, At, Forget
<1>e. /\ seen' \in [busy : BOOLEAN, flags : SUBSET {"WPERR", "PGERR"}]
      /\ start' \in 0 .. ClockMod - 1 /\ waited' \in 0 .. EraseTime
      /\ locked' \in BOOLEAN /\ ctl' \in {"none", "PER", "PG"}
      /\ flags \ {"WPERR"} \in SUBSET {"WPERR", "PGERR"} /\ flags \in SUBSET {"WPERR", "PGERR"}
  BY <1>0, FlashAssumption DEF NoStatus, IInv, TypeInv
<1>1. CASE seen.busy
  <2>1. Return("E02") /\ flags' = flags
    BY <1>1 DEF CheckPage
  <2> QED
    BY <1>0, <1>e, <2>1, ErrorKeeps
<1>2. CASE ~ seen.busy /\ Refused
  <2>1. Return("E03") /\ flags' \in {flags, flags \ {"WPERR"}}
    BY <1>2 DEF CheckPage, ClearFlag
  <2> QED
    BY <1>0, <1>e, <2>1, ErrorKeeps
<1>3. CASE ~ seen.busy /\ ~ Refused
  <2>0. /\ pc' = "page" /\ at' = at + 1
        /\ UNCHANGED <<cmd, hostVars, flags, errMsg, dropped>>
    BY <1>3 DEF CheckPage, Goto, missVars
  <2>1. TypeInv'
    BY FlashAssumption, <1>0, <1>3, <2>0 DEF Refused, NoStatus, hostVars, IInv, TypeInv,
       CommandInv, ErasePcs
  <2>2. CommandInv'
    <3>1. cmd.kind = "erase" /\ cmd.first \in Page /\ cmd.end \in 1 .. Pages /\ cmd.first <= at /\ at < cmd.end
      BY <1>0 DEF IInv, CommandInv, ErasePcs
    <3>2. cmd.first <= at + 1 /\ at + 1 <= cmd.end
      BY <3>1, Numbers DEF IInv
    <3> QED
      BY <1>0, <2>0, <3>1, <3>2 DEF CommandInv, WritePcs
  <2>3. TimeInv'
    BY <1>0, <1>3, <2>0 DEF Refused, NoStatus, IInv, TimeInv, Waiting
  <2>4. TornInv'
    BY <1>0, <1>3, <2>0 DEF Refused, NoStatus, IInv, TornInv
  <2>5. AskedInv'
    BY <1>0, <1>3, <2>0 DEF Refused, NoStatus, hostVars, IInv, AskedInv, Asked
  <2>6. WrittenInv'
    BY <1>0, <1>3, <2>0 DEF Refused, NoStatus, hostVars, IInv, Sound, WrittenInv
  <2>7. ErasedInv'
    BY <1>0, <1>3, <2>0 DEF Refused, NoStatus, hostVars, IInv, CommandInv, ErasePcs, ErasedInv
  <2>8. WriteInv'
    BY <1>0, <1>3, <2>0 DEF Refused, NoStatus, IInv, CommandInv, ErasePcs, Sound, WriteInv
  <2>9. EraseInv'
    <3> SUFFICES ASSUME ~ clash, dropped = 0, NEW p \in Page, cmd.first <= p, p < at + 1
                PROVE  p \notin Protected /\ Blank(p)
      BY <1>0, <2>0 DEF EraseInv, Blank, hostVars
    <3>1. p < at \/ p = at
      BY Numbers DEF IInv
    <3> QED
      BY <1>0, <1>3, <3>1 DEF Refused, IInv, CommandInv, ErasePcs, EraseInv
  <2> QED
    BY <2>1, <2>2, <2>3, <2>4, <2>5, <2>6, <2>7, <2>8, <2>9 DEF IInv
<1> QED
  BY <1>1, <1>2, <1>3

LEMMA ClearKeeps ==
  ASSUME IInv, Clear
  PROVE  IInv'
<1>0. /\ lag' = 0
      /\ pc' = "idle" /\ cmd' = NoCommand /\ at' = 0 /\ reply' = "OK" /\ clash' = clash
      /\ UNCHANGED <<seen, start, locked, addr, flags, busy, mem, waited, now>>
  <2>1. cmd.kind # "done"
    BY DEF Clear, At, IInv, CommandInv, ErasePcs
  <2> QED
    BY <2>1 DEF Clear, At, Return
<1>f. /\ errMsg' \in BOOLEAN /\ dropped' \in 0 .. MaxDrops
      /\ dropped' = 0 => dropped = 0
      /\ errMsg => errMsg'
      /\ ctl' \in {"none", "PER", "PG"}
  <2>1. ctl' \in {"none", "PER", "PG"}
    BY DEF Clear, SetCtl, Ctl, IInv, TypeInv
  <2> QED
    BY <2>1, Fate DEF Clear, SetCtl, IInv
<1>c. \/ /\ pc = "page" /\ cmd.kind = "erase" /\ at = cmd.end
         /\ cmd.first \in Page /\ cmd.end \in 1 .. Pages
         /\ erased' = erased \cup Asked /\ written' = written
      \/ /\ pc = "clear" /\ cmd.kind = "write" /\ at = cmd.end
         /\ written' = written \cup Asked /\ erased' = erased
  <2>1. CASE cmd.kind = "write"
    BY <2>1 DEF Clear, At, Return, IInv, CommandInv
  <2>2. CASE cmd.kind # "write"
    <3>1. pc = "page" /\ cmd.kind = "erase" /\ ~ at < cmd.end
      BY <2>2 DEF Clear, At, MorePages, IInv, CommandInv, ErasePcs
    <3>2. at = cmd.end
      BY <3>1 DEF IInv, TypeInv, CommandInv
    <3> QED
      BY <3>1, <3>2 DEF Clear, Return, IInv, CommandInv, ErasePcs
  <2> QED
    BY <2>1, <2>2
<1>1. TypeInv'
  <2>1. erased' \in SUBSET Page /\ written' \in SUBSET Words
    <3>1. CASE cmd.kind = "erase"
      <4>1. Asked \subseteq Page
        BY <1>c, <3>1, FlashAssumption DEF Asked, Page
      <4> QED
        BY <1>c, <3>1, <4>1 DEF IInv, TypeInv
    <3>2. CASE cmd.kind = "write"
      <4>1. Asked \subseteq Words
        BY <1>c, <3>2, FlashAssumption DEF Asked, Words, IInv, TypeInv
      <4> QED
        BY <1>c, <3>2, <4>1 DEF IInv, TypeInv
    <3> QED
      BY <1>c, <3>1, <3>2
  <2> QED
    BY <1>0, <1>f, <2>1, ZeroType, FlashAssumption DEF IInv, TypeInv
<1>2. CommandInv'
  BY <1>0, <1>c DEF IInv, CommandInv, NoCommand, ErasePcs, WritePcs
<1>3. TimeInv'
  BY <1>0, <1>c DEF IInv, TimeInv, Waiting
<1>4. TornInv'
  BY <1>0, <1>c DEF IInv, TornInv
<1>5. AskedInv'
  BY <1>0, <1>c DEF IInv, NoCommand, AskedInv, Asked
<1>6. WrittenInv'
  <2>1. CASE cmd.kind = "erase"
    BY <1>0, <1>f, <1>c, <2>1 DEF IInv, Sound, WrittenInv
  <2>2. CASE cmd.kind = "write"
    <3>1. \A w \in Asked : w \in Words /\ cmd.first <= w /\ w < at
      BY <1>c, <2>2, FlashAssumption DEF Asked, Words, IInv, TypeInv
    <3>2. pc = "clear" /\ cmd.kind = "write" /\ written' = written \cup Asked
      BY <1>c, <2>2
    <3>3. dropped = 0 => \A w \in Asked : Sound(w)
      BY <3>1, <3>2 DEF IInv, WriteInv
    <3> QED
      BY <1>0, <1>f, <3>2, <3>3 DEF IInv, Sound, WrittenInv
  <2> QED
    BY <1>c, <2>1, <2>2
<1>7. ErasedInv'
  <2> SUFFICES ASSUME ~ clash, dropped = 0
               PROVE  /\ erased' \cap Protected = {}
                      /\ \A w \in Words \ written' : PageOf(w) \in erased' => mem[w] = "erased"
    BY <1>0, <1>f DEF ErasedInv
  <2>1. CASE cmd.kind = "erase"
    BY <1>c, <2>1, FlashAssumption DEF Asked, Page, IInv, ErasedInv, EraseInv, Blank
  <2>2. CASE cmd.kind = "write"
    <3>1. \A w \in Words : cmd.first <= w /\ w < at => w \in Asked
      BY <1>c, <2>2, Numbers DEF Asked, IInv
    <3> QED
      BY <1>c, <2>2, <3>1 DEF IInv, ErasedInv
  <2> QED
    BY <1>c, <2>1, <2>2
<1>8. WriteInv'
  BY <1>0, <1>c DEF IInv, NoCommand, Sound, WriteInv
<1>9. EraseInv'
  BY <1>0, <1>c DEF IInv, NoCommand, EraseInv, Blank
<1> QED
  BY <1>1, <1>2, <1>3, <1>4, <1>5, <1>6, <1>7, <1>8, <1>9 DEF IInv

LEMMA SetProgramKeeps ==
  ASSUME IInv, SetProgram
  PROVE  IInv'
<1>0. /\ pc = "program" /\ pc' = "words" /\ lag' = 0
      /\ UNCHANGED <<cmd, hostVars, at, seen, start, locked, addr, flags, busy, mem, waited, now>>
  BY DEF SetProgram, At, Goto
<1>f. /\ errMsg' \in BOOLEAN /\ dropped' \in 0 .. MaxDrops
      /\ dropped' = 0 => dropped = 0
      /\ errMsg => errMsg'
      /\ ctl' \in {"none", "PER", "PG"}
  <2>1. ctl' \in {"none", "PER", "PG"}
    BY DEF SetProgram, SetCtl, Ctl, IInv, TypeInv
  <2> QED
    BY <2>1, Fate DEF SetProgram, SetCtl, IInv
<1>1. TypeInv'
  BY FlashAssumption, <1>0, <1>f DEF hostVars, IInv, TypeInv, WritePcs
<1>2. CommandInv'
  BY <1>0 DEF IInv, TypeInv, CommandInv, ErasePcs, WritePcs
<1>3. TimeInv'
  BY <1>0 DEF IInv, TimeInv, Waiting
<1>4. TornInv'
  BY <1>0 DEF IInv, TornInv
<1>5. AskedInv'
  BY <1>0 DEF hostVars, IInv, AskedInv, Asked
<1>6. WrittenInv'
  BY <1>0, <1>f DEF hostVars, IInv, Sound, WrittenInv
<1>7. ErasedInv'
  BY <1>0, <1>f DEF hostVars, IInv, ErasedInv
<1>8. WriteInv'
  BY <1>0, <1>f DEF hostVars, IInv, Sound, WriteInv
<1>9. EraseInv'
  BY <1>0 DEF IInv, CommandInv, WritePcs, EraseInv
<1> QED
  BY <1>1, <1>2, <1>3, <1>4, <1>5, <1>6, <1>7, <1>8, <1>9 DEF IInv

LEMMA WriteWordKeeps ==
  ASSUME IInv, WriteWord
  PROVE  IInv'
<1>0. /\ pc = "words" /\ pc' = "words" /\ lag' = 0 /\ at < cmd.end
      /\ UNCHANGED <<cmd, hostVars, seen, start, locked, ctl, addr, waited, now>>
      /\ cmd.kind = "write" /\ at \in Asked /\ at \in Words
      /\ at + 1 \in 0 .. Pages * PageWords /\ PageOf(at) \in erased /\ at \notin written
  <2>1. pc = "words" /\ pc' = "words" /\ lag' = 0 /\ at < cmd.end
    BY DEF WriteWord, At, Goto
  <2>2. UNCHANGED <<cmd, hostVars, seen, start, locked, ctl, addr, waited, now>>
    BY DEF WriteWord, At, Goto
  <2>3. /\ cmd.kind = "write" /\ at \in Asked /\ at \in Words
        /\ at + 1 \in 0 .. Pages * PageWords
    BY <2>1, FlashAssumption DEF IInv, TypeInv, CommandInv, WritePcs, Asked, Words
  <2> QED
    BY <2>1, <2>2, <2>3 DEF IInv, AskedInv
<1>f. /\ errMsg' \in BOOLEAN /\ dropped' \in 0 .. MaxDrops
      /\ dropped' = 0 => dropped = 0
      /\ errMsg => errMsg'
  BY Fate DEF WriteWord, IInv
<1> DEFINE Done == busy = Free /\ Reaches /\ Program(at) /\ at' = at + 1
<1>g. Done => (errMsg' <=> errMsg) /\ dropped' = dropped
  BY DEF Reaches, missVars
<1>1. CASE Done /\ PageOf(at) \in Protected
  <2>0. at' = at + 1 /\ flags' = flags \cup {"WPERR"} /\ UNCHANGED <<busy, mem>>
    BY <1>1 DEF Program
  <2>1. TypeInv'
    BY FlashAssumption, <1>0, <1>f, <1>1, <2>0 DEF hostVars, IInv, TypeInv
  <2>2. CommandInv'
    <3>1. cmd.end \in 1 .. Pages * PageWords /\ cmd.first <= at /\ at < cmd.end
      BY <1>0 DEF IInv, CommandInv, WritePcs, Asked
    <3>2. cmd.first <= at + 1 /\ at + 1 <= cmd.end
      BY <3>1, Numbers DEF IInv
    <3> QED
      BY <1>0, <1>f, <2>0, <3>1, <3>2 DEF CommandInv, ErasePcs
  <2>3. TimeInv'
    BY <1>0, <1>f, <1>1, <2>0 DEF IInv, TimeInv, Waiting
  <2>4. TornInv'
    BY <1>0, <1>f, <1>1, <2>0 DEF IInv, TornInv
  <2>5. AskedInv'
    BY <1>0, <1>f, <1>1, <2>0 DEF hostVars, IInv, AskedInv, Asked
  <2>6. WrittenInv'
    BY <1>0, <1>f, <1>1, <2>0 DEF hostVars, IInv, Sound, WrittenInv
  <2>7. ErasedInv'
    BY <1>0, <1>f, <1>1, <2>0 DEF hostVars, IInv, ErasedInv
  <2>8. WriteInv'
    <3> SUFFICES ASSUME dropped = 0, NEW w \in Words, cmd.first <= w, w < at + 1
                 PROVE  Sound(w) \/ "PGERR" \in flags
      BY <1>0, <1>f, <1>g, <2>0 DEF WriteInv, Sound, hostVars
    <3>1. CASE w = at
      BY <1>0, <1>1, <3>1 DEF IInv, Sound, ErasedInv
    <3>2. CASE w < at
      BY <1>0, <1>f, <2>0, <3>2 DEF IInv, Sound, WriteInv
    <3> QED
      BY <3>1, <3>2, Numbers DEF IInv
  <2>9. EraseInv'
    BY <1>0, <1>f, <1>1, <2>0 DEF IInv, EraseInv, Blank
  <2> QED
    BY <2>1, <2>2, <2>3, <2>4, <2>5, <2>6, <2>7, <2>8, <2>9 DEF IInv
<1>2. CASE Done /\ PageOf(at) \notin Protected /\ (mem[at] # "erased" \/ ctl # "PG")
  <2>0. at' = at + 1 /\ flags' = flags \cup {"PGERR"} /\ UNCHANGED <<busy, mem>>
    BY <1>2 DEF Program
  <2>1. TypeInv'
    BY FlashAssumption, <1>0, <1>f, <1>2, <2>0 DEF hostVars, IInv, TypeInv
  <2>2. CommandInv'
    <3>1. cmd.end \in 1 .. Pages * PageWords /\ cmd.first <= at /\ at < cmd.end
      BY <1>0 DEF IInv, CommandInv, WritePcs, Asked
    <3>2. cmd.first <= at + 1 /\ at + 1 <= cmd.end
      BY <3>1, Numbers DEF IInv
    <3> QED
      BY <1>0, <1>f, <2>0, <3>1, <3>2 DEF CommandInv, ErasePcs
  <2>3. TimeInv'
    BY <1>0, <1>f, <1>2, <2>0 DEF IInv, TimeInv, Waiting
  <2>4. TornInv'
    BY <1>0, <1>f, <1>2, <2>0 DEF IInv, TornInv
  <2>5. AskedInv'
    BY <1>0, <1>f, <1>2, <2>0 DEF hostVars, IInv, AskedInv, Asked
  <2>6. WrittenInv'
    BY <1>0, <1>f, <1>2, <2>0 DEF hostVars, IInv, Sound, WrittenInv
  <2>7. ErasedInv'
    BY <1>0, <1>f, <1>2, <2>0 DEF hostVars, IInv, TypeInv, ErasedInv
  <2>8. WriteInv'
    BY <1>0, <1>f, <1>2, <2>0 DEF IInv, Sound, WriteInv
  <2>9. EraseInv'
    BY <1>0, <1>f, <1>2, <2>0 DEF IInv, EraseInv, Blank
  <2> QED
    BY <2>1, <2>2, <2>3, <2>4, <2>5, <2>6, <2>7, <2>8, <2>9 DEF IInv
<1>3. CASE Done /\ PageOf(at) \notin Protected /\ mem[at] = "erased" /\ ctl = "PG"
  <2>0. /\ at' = at + 1
        /\ mem' = [mem EXCEPT ![at] = "data"]
        /\ busy' = [op |-> "program", page |-> PageOf(at)]
        /\ UNCHANGED flags
    BY <1>3 DEF Program
  <2>1. TypeInv'
    BY FlashAssumption, PageType, <1>0, <1>f, <1>3, <2>0 DEF hostVars, IInv, TypeInv
  <2>2. CommandInv'
    <3>1. cmd.end \in 1 .. Pages * PageWords /\ cmd.first <= at /\ at < cmd.end
      BY <1>0 DEF IInv, CommandInv, WritePcs, Asked
    <3>2. cmd.first <= at + 1 /\ at + 1 <= cmd.end
      BY <3>1, Numbers DEF IInv
    <3> QED
      BY <1>0, <1>f, <2>0, <3>1, <3>2 DEF CommandInv, ErasePcs
  <2>3. TimeInv'
    BY PageType, <1>0, <1>f, <1>3, <2>0 DEF IInv, TimeInv, Waiting
  <2>4. TornInv'
    BY PageType, <1>0, <1>f, <1>3, <2>0 DEF IInv, TornInv
  <2>5. AskedInv'
    BY PageType, <1>0, <1>f, <1>3, <2>0 DEF hostVars, IInv, AskedInv, Asked
  <2>6. WrittenInv'
    BY PageType, <1>0, <1>f, <1>3, <2>0 DEF hostVars, IInv, Sound, WrittenInv
  <2>7. ErasedInv'
    BY PageType, <1>0, <1>f, <1>3, <2>0 DEF hostVars, IInv, TypeInv, CommandInv, ErasedInv
  <2>8. WriteInv'
    BY PageType, <1>0, <1>f, <1>3, <2>0 DEF hostVars, IInv, TypeInv, Sound, WriteInv
  <2>9. EraseInv'
    BY PageType, <1>0, <1>f, <1>3, <2>0 DEF IInv, EraseInv, Blank
  <2> QED
    BY <2>1, <2>2, <2>3, <2>4, <2>5, <2>6, <2>7, <2>8, <2>9 DEF IInv
<1>4. CASE Fails /\ at' = cmd.end /\ UNCHANGED <<flags, busy, mem>>
  <2>0. at' = cmd.end /\ UNCHANGED <<flags, busy, mem>>
    BY <1>4
  <2>1. TypeInv'
    BY FlashAssumption, <1>0, <1>f, <2>0 DEF hostVars, IInv, TypeInv
  <2>2. CommandInv'
    BY <1>0, <2>0, Numbers DEF IInv, CommandInv, WritePcs, ErasePcs
  <2>3. TimeInv'
    BY <1>0, <2>0 DEF IInv, TimeInv, Waiting
  <2>4. TornInv'
    BY <1>0, <2>0 DEF IInv, TornInv
  <2>5. AskedInv'
    BY <1>0, <2>0 DEF hostVars, IInv, AskedInv, Asked
  <2>6. WrittenInv'
    BY <1>0, <1>f, <2>0 DEF hostVars, IInv, Sound, WrittenInv
  <2>7. ErasedInv'
    <3>1. \A w \in Words : w < at => w < at'
      BY <1>0, <2>0, Numbers DEF IInv
    <3> QED
      BY <1>0, <1>f, <2>0, <3>1 DEF hostVars, IInv, ErasedInv
  <2>8. WriteInv'
    <3> SUFFICES ASSUME dropped' = 0, NEW w \in Words, cmd.first <= w, w < cmd.end
                 PROVE  Sound(w)' \/ "PGERR" \in flags
      BY <1>0, <2>0 DEF WriteInv
    <3>1. dropped = 0 /\ errMsg'
      BY <1>4, <1>f, FateOfFailure DEF IInv
    <3>2. w \in Asked
      BY Numbers DEF Asked, IInv
    <3>3. PageOf(w) \in erased /\ w \notin written
      BY <1>0, <3>2 DEF IInv, AskedInv
    <3>4. clash \/ mem[w] \in {"erased", "data"}
      BY <3>1, <3>3 DEF IInv, ErasedInv
    <3> QED
      BY <1>0, <2>0, <3>1, <3>4 DEF Sound, hostVars
  <2>9. EraseInv'
    BY <1>0 DEF EraseInv
  <2> QED
    BY <2>1, <2>2, <2>3, <2>4, <2>5, <2>6, <2>7, <2>8, <2>9 DEF IInv
<1> QED
  BY <1>1, <1>2, <1>3, <1>4 DEF WriteWord, Program

LEMMA CheckWriteKeeps ==
  ASSUME IInv, CheckWrite
  PROVE  IInv'
<1>0. /\ pc = "words" /\ at = cmd.end /\ lag' = 0
      /\ UNCHANGED <<seen, start, locked, ctl, addr, busy, mem, waited, now>>
  BY DEF CheckWrite, At
<1>e. /\ seen \in [busy : BOOLEAN, flags : SUBSET {"WPERR", "PGERR"}]
      /\ start \in 0 .. ClockMod - 1 /\ waited \in 0 .. EraseTime
      /\ locked \in BOOLEAN /\ ctl \in {"none", "PER", "PG"}
      /\ flags \ {"PGERR"} \in SUBSET {"WPERR", "PGERR"} /\ flags \in SUBSET {"WPERR", "PGERR"}
  BY DEF IInv, TypeInv
<1>1. CASE Return("E02") /\ UNCHANGED flags
  BY <1>0, <1>1, <1>e, ErrorKeeps
<1>2. CASE Return("E03") /\ ClearFlag("PGERR")
  <2>1. flags' \in {flags, flags \ {"PGERR"}}
    BY <1>2 DEF ClearFlag
  <2> QED
    BY <1>0, <1>2, <1>e, <2>1, ErrorKeeps
<1>3. CASE /\ Goto("clear") /\ UNCHANGED <<at, flags>>
           /\ Fails \/ (Reaches /\ "PGERR" \notin flags)
  <2>0. pc' = "clear" /\ UNCHANGED <<cmd, hostVars, at, flags>>
    BY <1>3 DEF Goto
  <2>f. /\ errMsg' \in BOOLEAN /\ dropped' \in 0 .. MaxDrops
        /\ dropped' = 0 => dropped = 0
        /\ errMsg => errMsg'
    BY <1>3, Fate DEF IInv
  <2>1. TypeInv'
    BY FlashAssumption, <1>0, <2>0, <2>f DEF hostVars, IInv, TypeInv, WritePcs
  <2>2. CommandInv'
    BY <1>0, <2>0 DEF IInv, TypeInv, CommandInv, ErasePcs, WritePcs
  <2>3. TimeInv'
    BY <1>0, <2>0 DEF IInv, TimeInv, Waiting
  <2>4. TornInv'
    BY <1>0, <2>0 DEF IInv, TornInv
  <2>5. AskedInv'
    BY <1>0, <2>0 DEF hostVars, IInv, AskedInv, Asked
  <2>6. WrittenInv'
    BY <1>0, <2>0, <2>f DEF hostVars, IInv, Sound, WrittenInv
  <2>7. ErasedInv'
    BY <1>0, <2>0, <2>f DEF hostVars, IInv, ErasedInv
  <2>8. WriteInv'
    <3> SUFFICES ASSUME dropped' = 0, NEW w \in Words, cmd.first <= w, w < at
                 PROVE  Sound(w)'
      BY <1>0, <2>0 DEF WriteInv
    <3>1. cmd.kind = "write"
      BY <1>0 DEF IInv, CommandInv, WritePcs
    <3>2. CASE Reaches /\ "PGERR" \notin flags
      <4>1. Sound(w)
        BY <2>f, <3>1, <3>2 DEF IInv, WriteInv
      <4> QED
        BY <1>0, <2>0, <2>f, <4>1 DEF Sound, hostVars
    <3>3. CASE Fails
      <4>1. dropped = 0 /\ errMsg'
        BY <2>f, <3>3, FateOfFailure DEF IInv
      <4>2. w \in Asked
        BY <1>0, Numbers DEF Asked, IInv
      <4>3. PageOf(w) \in erased /\ w \notin written
        BY <3>1, <4>2 DEF IInv, AskedInv
      <4>4. clash \/ mem[w] \in {"erased", "data"}
        BY <4>1, <4>3 DEF IInv, ErasedInv
      <4> QED
        BY <1>0, <2>0, <4>1, <4>4 DEF Sound, hostVars
    <3> QED
      BY <1>3, <3>2, <3>3
  <2>9. EraseInv'
    BY <1>0, <2>0 DEF IInv, CommandInv, WritePcs, EraseInv
  <2> QED
    BY <2>1, <2>2, <2>3, <2>4, <2>5, <2>6, <2>7, <2>8, <2>9 DEF IInv
<1> QED
  BY <1>1, <1>2, <1>3 DEF CheckWrite

LEMMA LockKeeps ==
  ASSUME IInv, Lock
  PROVE  IInv'
<1>0. /\ pc = "done" /\ lag' = 0
      /\ pc' = "idle" /\ cmd' = NoCommand /\ at' = 0 /\ reply' = "OK"
      /\ erased' = {} /\ written' = {} /\ clash' = FALSE
      /\ errMsg' = FALSE /\ dropped' = 0
      /\ UNCHANGED <<seen, start, addr, flags, busy, mem, waited, now>>
  BY DEF Lock, At, Return, NewLoad, IInv, CommandInv
<1>1. TypeInv'
  <2>1. /\ cmd' \in [kind : {"none", "erase", "write", "done"}, first : Words, end : 0 .. Pages * PageWords]
        /\ at' \in 0 .. Pages * PageWords
    BY <1>0, ZeroType
  <2>2. /\ erased' \in SUBSET Page /\ written' \in SUBSET Words /\ clash' \in BOOLEAN
        /\ reply' \in {"none", "OK", "E01", "E02", "E03"}
        /\ pc' \in {"idle", "done"} \cup ErasePcs \cup WritePcs
    BY <1>0
  <2>3. addr' \in Page /\ mem' \in [Words -> {"old", "torn", "erased", "data"}] /\ now' \in 0 .. ClockMod - 1
    BY <1>0 DEF IInv, TypeInv
  <2>4. busy' \in {Free} \cup [op : {"erase", "program"}, page : Page] /\ lag' \in 0 .. MaxLag
    BY <1>0, FlashAssumption DEF IInv, TypeInv
  <2>5. /\ seen' \in [busy : BOOLEAN, flags : SUBSET {"WPERR", "PGERR"}]
        /\ start' \in 0 .. ClockMod - 1 /\ waited' \in 0 .. EraseTime
        /\ locked' \in BOOLEAN /\ ctl' \in {"none", "PER", "PG"}
        /\ flags' \in SUBSET {"WPERR", "PGERR"}
    <3>1. locked' \in BOOLEAN /\ ctl' \in {"none", "PER", "PG"}
      BY DEF Lock, IInv, TypeInv
    <3> QED
      BY <1>0, <3>1 DEF IInv, TypeInv
  <2>6. errMsg' \in BOOLEAN /\ dropped' \in 0 .. MaxDrops
    <3>1. 0 \in 0 .. MaxDrops
      BY FlashAssumption
    <3> QED
      BY <1>0, <3>1
  <2> QED
    BY <2>1, <2>2, <2>3, <2>4, <2>5, <2>6 DEF TypeInv
<1>2. CommandInv'
  BY <1>0 DEF IInv, CommandInv, NoCommand, ErasePcs, WritePcs
<1>3. TimeInv'
  BY <1>0 DEF IInv, TimeInv, Waiting
<1>4. TornInv'
  BY <1>0 DEF IInv, TornInv
<1>5. AskedInv'
  BY <1>0 DEF IInv, NoCommand, AskedInv, Asked
<1>6. WrittenInv'
  BY <1>0 DEF IInv, Sound, WrittenInv
<1>7. ErasedInv'
  BY <1>0 DEF IInv, ErasedInv
<1>8. WriteInv'
  BY <1>0 DEF IInv, NoCommand, Sound, WriteInv
<1>9. EraseInv'
  BY <1>0 DEF IInv, NoCommand, EraseInv, Blank
<1> QED
  BY <1>1, <1>2, <1>3, <1>4, <1>5, <1>6, <1>7, <1>8, <1>9 DEF IInv

LEMMA AskEraseKeeps ==
  ASSUME IInv, AskErase
  PROVE  IInv'
<1>1. TypeInv'
  <2>0. PICK first \in Page, end \in 1 .. Pages :
             /\ pc' = "unlock" /\ cmd' = [kind |-> "erase", first |-> first, end |-> end]
             /\ at' = first /\ reply' = "none" /\ lag' = 0
             /\ UNCHANGED <<seen, start, fmcVars, missVars, erased, written, clash, now, waited>>
    BY DEF AskErase, Ask
  <2>1. first \in Words /\ first \in 0 .. Pages * PageWords /\ end \in 0 .. Pages * PageWords
    <3>1. first \in 0 .. Pages /\ end \in 0 .. Pages
      BY FlashAssumption DEF Page
    <3> QED
      BY <3>1, PagesFit
  <2>2. /\ cmd' \in [kind : {"none", "erase", "write", "done"}, first : Words, end : 0 .. Pages * PageWords]
        /\ at' \in 0 .. Pages * PageWords
    BY <2>0, <2>1
  <2> QED
    BY <2>0, <2>2, FlashAssumption DEF IInv, TypeInv, fmcVars, missVars, ErasePcs
<1>2. CommandInv'
  <2>0. PICK first \in Page, end \in 1 .. Pages :
             /\ first < end /\ pc' = "unlock"
             /\ cmd' = [kind |-> "erase", first |-> first, end |-> end] /\ at' = first
    BY DEF AskErase, Ask
  <2>1. first <= end /\ first \in Nat
    BY <2>0, Numbers DEF IInv
  <2>2. /\ cmd'.kind = "erase" /\ cmd'.first = first /\ cmd'.end = end
    BY <2>0
  <2> QED
    BY <2>0, <2>1, <2>2 DEF CommandInv, WritePcs
<1>3. TimeInv'
  BY DEF AskErase, Ask, missVars, IInv, TimeInv, Waiting
<1>4. TornInv'
  BY DEF AskErase, Ask, missVars, fmcVars, IInv, TornInv
<1>5. AskedInv'
  BY DEF AskErase, Ask, missVars, IInv, AskedInv, Asked
<1>6. WrittenInv'
  BY DEF AskErase, Ask, missVars, IInv, Sound, WrittenInv
<1>7. ErasedInv'
  BY DEF AskErase, Ask, missVars, Idle, fmcVars, IInv, CommandInv, ErasedInv
<1>8. WriteInv'
  BY DEF AskErase, Ask, missVars, IInv, Sound, WriteInv
<1>9. EraseInv'
  <2> PICK first \in Page, end \in 1 .. Pages : Ask("erase", "unlock", first, end)
    BY DEF AskErase
  <2>1. /\ pc' = "unlock" /\ cmd'.first = first /\ at' = first
    BY DEF Ask
  <2>2. \A p \in Page : ~ (first <= p /\ p < first)
    BY Numbers DEF IInv
  <2> QED
    BY <2>1, <2>2 DEF EraseInv
<1> QED
  BY <1>1, <1>2, <1>3, <1>4, <1>5, <1>6, <1>7, <1>8, <1>9 DEF IInv

LEMMA AskWriteKeeps ==
  ASSUME IInv, AskWrite
  PROVE  IInv'
<1>1. TypeInv'
  BY FlashAssumption DEF AskWrite, Ask, missVars, fmcVars, IInv, TypeInv, WritePcs, Words
<1>2. CommandInv'
  <2>0. PICK first \in Words, end \in 1 .. Pages * PageWords :
             /\ first < end /\ pc' = "program"
             /\ cmd' = [kind |-> "write", first |-> first, end |-> end] /\ at' = first
    BY DEF AskWrite, Ask
  <2>1. first <= end /\ first \in Nat
    BY <2>0, Numbers DEF IInv
  <2>2. /\ cmd'.kind = "write" /\ cmd'.first = first /\ cmd'.end = end
    BY <2>0
  <2> QED
    BY <2>0, <2>1, <2>2 DEF CommandInv, ErasePcs
<1>3. TimeInv'
  BY DEF AskWrite, Ask, missVars, IInv, TimeInv, Waiting
<1>4. TornInv'
  BY DEF AskWrite, Ask, missVars, fmcVars, IInv, TornInv
<1>5. AskedInv'
  BY DEF AskWrite, Ask, missVars, IInv, AskedInv, Asked
<1>6. WrittenInv'
  BY DEF AskWrite, Ask, missVars, fmcVars, IInv, Sound, WrittenInv
<1>7. ErasedInv'
  BY DEF AskWrite, Ask, missVars, Idle, fmcVars, IInv, CommandInv, ErasedInv
<1>8. WriteInv'
  <2> PICK first \in Words, end \in 1 .. Pages * PageWords : Ask("write", "program", first, end)
    BY DEF AskWrite
  <2>1. /\ cmd'.first = first /\ at' = first
    BY DEF Ask
  <2>2. \A w \in Words : ~ (first <= w /\ w < first)
    BY Numbers DEF IInv
  <2> QED
    BY <2>1, <2>2 DEF Sound, WriteInv
<1>9. EraseInv'
  BY DEF AskWrite, Ask, missVars, IInv, EraseInv, Blank
<1> QED
  BY <1>1, <1>2, <1>3, <1>4, <1>5, <1>6, <1>7, <1>8, <1>9 DEF IInv

LEMMA AskDoneKeeps ==
  ASSUME IInv, AskDone
  PROVE  IInv'
<1>1. TypeInv'
  BY FlashAssumption DEF AskDone, Ask, missVars, fmcVars, IInv, TypeInv, Words
<1>2. CommandInv'
  BY DEF AskDone, Ask, missVars, IInv, CommandInv, ErasePcs, WritePcs
<1>3. TimeInv'
  BY DEF AskDone, Ask, missVars, IInv, TimeInv, Waiting
<1>4. TornInv'
  BY DEF AskDone, Ask, missVars, fmcVars, IInv, TornInv
<1>5. AskedInv'
  BY DEF AskDone, Ask, missVars, IInv, AskedInv, Asked
<1>6. WrittenInv'
  BY DEF AskDone, Ask, missVars, fmcVars, IInv, Sound, WrittenInv
<1>7. ErasedInv'
  BY DEF AskDone, Ask, missVars, Idle, fmcVars, IInv, CommandInv, ErasedInv
<1>8. WriteInv'
  BY DEF AskDone, Ask, missVars, IInv, Sound, WriteInv
<1>9. EraseInv'
  BY DEF AskDone, Ask, missVars, IInv, EraseInv, Blank
<1> QED
  BY <1>1, <1>2, <1>3, <1>4, <1>5, <1>6, <1>7, <1>8, <1>9 DEF IInv

LEMMA NewSessionKeeps ==
  ASSUME IInv, NewSession
  PROVE  IInv'
<1>1. TypeInv'
  <2>1. errMsg' \in BOOLEAN /\ dropped' \in 0 .. MaxDrops
    <3>1. 0 \in 0 .. MaxDrops
      BY FlashAssumption
    <3> QED
      BY <3>1 DEF NewSession, NewLoad
  <2> QED
    BY <2>1 DEF NewSession, NewLoad, fmcVars, clockVars, probeVars, IInv, TypeInv
<1>2. CommandInv'
  BY DEF NewSession, NewLoad, Idle, probeVars, IInv, CommandInv
<1>3. TimeInv'
  BY DEF NewSession, NewLoad, Idle, probeVars, IInv, TimeInv, Waiting
<1>4. TornInv'
  BY DEF NewSession, NewLoad, fmcVars, IInv, TornInv
<1>5. AskedInv'
  BY DEF NewSession, NewLoad, Idle, probeVars, IInv, CommandInv, AskedInv, Asked
<1>6. WrittenInv'
  BY DEF NewSession, NewLoad, IInv, Sound, WrittenInv
<1>7. ErasedInv'
  BY DEF NewSession, NewLoad, IInv, ErasedInv
<1>8. WriteInv'
  BY DEF NewSession, NewLoad, Idle, probeVars, IInv, CommandInv, Sound, WriteInv
<1>9. EraseInv'
  BY DEF NewSession, NewLoad, Idle, probeVars, IInv, CommandInv, EraseInv, Blank
<1> QED
  BY <1>1, <1>2, <1>3, <1>4, <1>5, <1>6, <1>7, <1>8, <1>9 DEF IInv

LEMMA OperationEndsKeeps ==
  ASSUME IInv, OperationEnds
  PROVE  IInv'
<1>1. TypeInv'
  BY DEF OperationEnds, missVars, hostVars, clockVars, probeVars, IInv, TypeInv
<1>2. CommandInv'
  BY DEF OperationEnds, missVars, probeVars, IInv, CommandInv
<1>3. TimeInv'
  BY DEF OperationEnds, missVars, clockVars, probeVars, IInv, TimeInv, Waiting
<1>4. TornInv'
  BY DEF OperationEnds, missVars, IInv, Free, TornInv
<1>5. AskedInv'
  BY DEF OperationEnds, missVars, hostVars, probeVars, IInv, AskedInv, Asked
<1>6. WrittenInv'
  <2>1. \A w \in Words : mem[w] \in {"data", "erased"} => mem'[w] = mem[w]
    <3>1. CASE busy.op = "program"
      BY <3>1 DEF OperationEnds
    <3>2. CASE busy.op # "program"
      <4>1. busy.op = "erase" /\ mem' = [w \in Words |-> IF PageOf(w) = busy.page THEN "erased" ELSE mem[w]]
        BY <3>2 DEF OperationEnds, missVars, IInv, TypeInv
      <4> QED
        BY <4>1 DEF IInv, TornInv
    <3> QED
      BY <3>1, <3>2
  <2>2. UNCHANGED <<written, pc, flags, clash, errMsg, dropped, cmd, at>> /\ written \subseteq Words
    BY DEF OperationEnds, missVars, probeVars, hostVars, IInv, TypeInv
  <2> QED
    BY <2>1, <2>2 DEF IInv, Sound, WrittenInv
<1>7. ErasedInv'
  BY DEF OperationEnds, missVars, hostVars, probeVars, IInv, ErasedInv
<1>8. WriteInv'
  <2>1. \A w \in Words : mem[w] \in {"data", "erased"} => mem'[w] = mem[w]
    <3>1. CASE busy.op = "program"
      BY <3>1 DEF OperationEnds
    <3>2. CASE busy.op # "program"
      <4>1. busy.op = "erase" /\ mem' = [w \in Words |-> IF PageOf(w) = busy.page THEN "erased" ELSE mem[w]]
        BY <3>2 DEF OperationEnds, missVars, IInv, TypeInv
      <4> QED
        BY <4>1 DEF IInv, TornInv
    <3> QED
      BY <3>1, <3>2
  <2>2. UNCHANGED <<written, pc, flags, clash, errMsg, dropped, cmd, at>> /\ written \subseteq Words
    BY DEF OperationEnds, missVars, probeVars, hostVars, IInv, TypeInv
  <2> QED
    BY <2>1, <2>2 DEF IInv, Sound, WriteInv
<1>9. EraseInv'
  BY DEF OperationEnds, missVars, hostVars, probeVars, IInv, EraseInv, Blank
<1> QED
  BY <1>1, <1>2, <1>3, <1>4, <1>5, <1>6, <1>7, <1>8, <1>9 DEF IInv

LEMMA TargetResetKeeps ==
  ASSUME IInv, TargetReset
  PROVE  IInv'
<1>1. TypeInv'
  BY DEF TargetReset, missVars, hostVars, clockVars, probeVars, IInv, TypeInv
<1>2. CommandInv'
  BY DEF TargetReset, missVars, probeVars, IInv, CommandInv
<1>3. TimeInv'
  BY DEF TargetReset, missVars, Idle, probeVars, IInv, TimeInv, Waiting
<1>4. TornInv'
  BY DEF TargetReset, missVars, IInv, Free, TornInv
<1>5. AskedInv'
  BY DEF TargetReset, missVars, hostVars, probeVars, IInv, AskedInv, Asked
<1>6. WrittenInv'
  BY DEF TargetReset, missVars, hostVars, IInv, Sound, WrittenInv
<1>7. ErasedInv'
  BY DEF TargetReset, missVars, hostVars, IInv, ErasedInv
<1>8. WriteInv'
  BY DEF TargetReset, missVars, Idle, probeVars, IInv, CommandInv, Sound, WriteInv
<1>9. EraseInv'
  BY DEF TargetReset, missVars, Idle, hostVars, probeVars, IInv, EraseInv, Blank
<1> QED
  BY <1>1, <1>2, <1>3, <1>4, <1>5, <1>6, <1>7, <1>8, <1>9 DEF IInv

LEMMA TickKeeps ==
  ASSUME IInv, Tick
  PROVE  IInv'
<1>1. TypeInv'
  BY FlashAssumption DEF Tick, missVars, fmcVars, hostVars, probeVars, IInv, TypeInv
<1>2. CommandInv'
  BY DEF Tick, missVars, fmcVars, probeVars, IInv, CommandInv
<1>3. TimeInv'
  BY FlashAssumption DEF Tick, missVars, probeVars, IInv, TypeInv, TimeInv, Waiting
<1>4. TornInv'
  BY DEF Tick, missVars, fmcVars, IInv, TornInv
<1>5. AskedInv'
  BY DEF Tick, missVars, hostVars, probeVars, IInv, AskedInv, Asked
<1>6. WrittenInv'
  BY DEF Tick, missVars, fmcVars, hostVars, IInv, Sound, WrittenInv
<1>7. ErasedInv'
  BY DEF Tick, missVars, fmcVars, hostVars, probeVars, IInv, ErasedInv
<1>8. WriteInv'
  BY DEF Tick, missVars, fmcVars, hostVars, probeVars, IInv, Sound, WriteInv
<1>9. EraseInv'
  BY DEF Tick, missVars, fmcVars, hostVars, probeVars, IInv, EraseInv, Blank
<1> QED
  BY <1>1, <1>2, <1>3, <1>4, <1>5, <1>6, <1>7, <1>8, <1>9 DEF IInv

-----------------------------------------------------------------------------
(***************************************************************************)
(* The theorems.                                                           *)
(***************************************************************************)
LEMMA InitHolds == Init => IInv
<1> SUFFICES ASSUME Init
             PROVE  IInv
  OBVIOUS
<1>1. TypeInv
  <2>1. /\ now \in 0 .. ClockMod - 1 /\ waited \in 0 .. EraseTime /\ lag \in 0 .. MaxLag
        /\ dropped \in 0 .. MaxDrops
    BY FlashAssumption DEF Init
  <2> QED
    BY <2>1, ZeroType DEF Init, TypeInv
<1>2. cmd.kind = "none" /\ busy.op = "none"
  BY DEF Init, NoCommand, Free
<1> QED
  BY <1>1, <1>2 DEF Init, IInv, CommandInv, TimeInv, TornInv, AskedInv, Sound, WrittenInv,
                    ErasedInv, WriteInv, EraseInv, Waiting, ErasePcs, WritePcs

LEMMA StepKeeps == IInv /\ [Next]_vars => IInv'
<1> SUFFICES ASSUME IInv, [Next]_vars
             PROVE  IInv'
  OBVIOUS
<1>1. CASE Unlock
  BY <1>1, UnlockKeeps
<1>2. CASE SelectPage
  BY <1>2, SelectPageKeeps
<1>3. CASE StartPage
  BY <1>3, StartPageKeeps
<1>4. CASE ReadStatus
  BY <1>4, ReadStatusKeeps
<1>5. CASE CheckTimer
  BY <1>5, CheckTimerKeeps
<1>6. CASE CheckPage
  BY <1>6, CheckPageKeeps
<1>7. CASE Clear
  BY <1>7, ClearKeeps
<1>8. CASE SetProgram
  BY <1>8, SetProgramKeeps
<1>9. CASE WriteWord
  BY <1>9, WriteWordKeeps
<1>10. CASE CheckWrite
  BY <1>10, CheckWriteKeeps
<1>11. CASE Lock
  BY <1>11, LockKeeps
<1>12. CASE AskErase
  BY <1>12, AskEraseKeeps
<1>13. CASE AskWrite
  BY <1>13, AskWriteKeeps
<1>14. CASE AskDone
  BY <1>14, AskDoneKeeps
<1>15. CASE NewSession
  BY <1>15, NewSessionKeeps
<1>16. CASE OperationEnds
  BY <1>16, OperationEndsKeeps
<1>17. CASE TargetReset
  BY <1>17, TargetResetKeeps
<1>18. CASE Tick
  BY <1>18, TickKeeps
<1>19. CASE UNCHANGED vars
  BY <1>19 DEF vars, probeVars, fmcVars, missVars, hostVars, clockVars, IInv, TypeInv, CommandInv, TimeInv,
               TornInv, AskedInv, Asked, Sound, WrittenInv, ErasedInv, WriteInv, EraseInv, Blank, Waiting
<1> QED
  BY <1>1, <1>2, <1>3, <1>4, <1>5, <1>6, <1>7, <1>8, <1>9, <1>10, <1>11, <1>12, <1>13, <1>14,
     <1>15, <1>16, <1>17, <1>18, <1>19 DEF Next, Probe, Host

\* The invariant above holds for every size of the flash and of the clock: what
\* an erasure or a write has done so far, word by word and page by page.
THEOREM FlashInvariant == Spec => []IInv
BY InitHolds, StepKeeps, PTL DEF Spec

\* Every variable of the probe, the controller and GDB keeps its type.
THEOREM FlashTypeCorrect == Spec => []TypeOK
<1>1. IInv => TypeOK
  <2> SUFFICES ASSUME IInv
               PROVE  TypeOK
    OBVIOUS
  <2>1. /\ cmd.kind \in {"none", "erase", "write", "done"}
        /\ cmd.first \in Words /\ cmd.end \in 0 .. Pages * PageWords
        /\ seen.flags \subseteq {"WPERR", "PGERR"} /\ seen.busy \in BOOLEAN
    BY DEF IInv, TypeInv
  <2>2. busy.op \in {"none", "erase", "program"} /\ busy.page \in Page
    BY ZeroType DEF IInv, TypeInv, Free
  <2> QED
    BY <2>1, <2>2 DEF IInv, TypeInv, TypeOK, ErasePcs, WritePcs
<1> QED
  BY <1>1, FlashInvariant, PTL

\* While the DMI drops no scan of the load: pages answered OK to vFlashErase are
\* blank, unless a START fell into an erasure given up before, and words answered
\* OK to vFlashWrite hold the data, or are still blank and err_msg notes why, or
\* lie in a load with such a START.
THEOREM OkMeansDone == Spec => []OkIsTrue
<1>1. IInv => OkIsTrue
  BY DEF IInv, CommandInv, Sound, WrittenInv, ErasedInv, OkIsTrue, Idle
<1> QED
  BY <1>1, FlashInvariant, PTL

\* No step changes an intact word that the command under way does not name,
\* neither the loop over the pages nor an erasure that ends late, unless the DMI
\* has dropped an access of the load.
THEOREM WordsAreKept == Spec => OnlyWhereAsked
<1>1. IInv /\ [Next]_vars =>
        [\A w \in Words : mem'[w] # mem[w] /\ mem[w] # "torn" =>
           \/ cmd.kind = "erase" /\ (PageOf(w) \in Asked \/ dropped > 0)
           \/ cmd.kind = "write" /\ w \in Asked]_vars
  <2> SUFFICES ASSUME IInv, Next, NEW w \in Words, mem'[w] # mem[w], mem[w] # "torn"
               PROVE  \/ cmd.kind = "erase" /\ (PageOf(w) \in Asked \/ dropped > 0)
                      \/ cmd.kind = "write" /\ w \in Asked
    BY Zenon
  <2>1. CASE StartPage
    <3>1. /\ pc = "start" /\ mem' = [v \in Words |-> IF PageOf(v) = addr THEN "torn" ELSE mem[v]]
      BY <2>1 DEF StartPage, Start, At
    <3>2. cmd.kind = "erase" /\ cmd.first <= at /\ at < cmd.end
      BY <3>1 DEF IInv, CommandInv, ErasePcs
    <3>3. dropped > 0 \/ addr = at
      <4>1. dropped = 0 => addr = at
        BY <3>1 DEF IInv, CommandInv
      <4>2. dropped \in 0 .. MaxDrops
        BY DEF IInv, TypeInv
      <4> QED
        BY <4>1, <4>2, FlashAssumption
    <3>4. at \in Asked
      BY <3>2, Numbers DEF Asked, IInv
    <3> QED
      BY <3>1, <3>2, <3>3, <3>4
  <2>2. CASE WriteWord
    <3>1. pc = "words" /\ at < cmd.end /\ mem' = [mem EXCEPT ![at] = "data"]
      BY <2>2 DEF WriteWord, Program, At
    <3>2. w = at
      BY <3>1 DEF IInv
    <3>3. cmd.kind = "write" /\ cmd.first <= at
      BY <3>1 DEF IInv, CommandInv, WritePcs
    <3> QED
      BY <3>1, <3>3, <3>2, Numbers DEF Asked, IInv
  <2>3. CASE OperationEnds
    <3>1. busy.op = "erase" /\ mem' = [v \in Words |-> IF PageOf(v) = busy.page THEN "erased" ELSE mem[v]]
      BY <2>3 DEF OperationEnds, IInv, TypeInv
    <3> QED
      BY <3>1 DEF IInv, TornInv
  <2>4. CASE ~ StartPage /\ ~ WriteWord /\ ~ OperationEnds
    <3>1. mem' = mem
      BY <2>4 DEF Next, Probe, Host, fmcVars, Unlock, SelectPage, ReadStatus, CheckTimer,
         CheckPage, Clear,
                  SetProgram, CheckWrite, Lock, AskErase, AskWrite, AskDone, Ask, NewSession,
                  TargetReset, Tick
    <3> QED
      BY <3>1
  <2> QED
    BY <2>1, <2>2, <2>3, <2>4
<1> QED
  BY <1>1, FlashInvariant, PTL DEF Spec, OnlyWhereAsked

\* The loop of rvl_target_flash_erase gives a page up only when the clock has
\* moved by the whole timeout, whether or not it wrapped on the way.
THEOREM NoHurry == Spec => NotGivenUpEarly
<1>1. IInv /\ [Next]_vars =>
        [reply' = "E02" /\ reply # "E02" /\ cmd.kind = "erase" => waited = EraseTime]_vars
  <2> SUFFICES ASSUME IInv, Next, reply' = "E02", reply # "E02", cmd.kind = "erase"
               PROVE  waited = EraseTime
    BY Zenon
  <2>1. CASE CheckPage
    <3>1. pc = "check" /\ seen.busy
      BY <2>1 DEF CheckPage, At, Return, Goto, hostVars
    <3> QED
      BY <3>1 DEF IInv, TimeInv
  <2>2. CASE CheckWrite
    BY <2>2 DEF CheckWrite, At, IInv, CommandInv, WritePcs
  <2>3. CASE ~ CheckPage /\ ~ CheckWrite
    <3>1. reply' = reply \/ reply' \in {"none", "OK", "E01"}
      BY <2>3 DEF Next, Probe, Host, hostVars, Unlock, SelectPage, StartPage, ReadStatus,
         CheckTimer, Clear,
                  SetProgram, WriteWord, Lock, AskErase, AskWrite, AskDone, Ask, NewSession,
                  OperationEnds, TargetReset, Tick, Return, Goto
    <3> QED
      BY <3>1
  <2> QED
    BY <2>1, <2>2, <2>3
<1> QED
  BY <1>1, FlashInvariant, PTL DEF Spec, NotGivenUpEarly
=============================================================================
