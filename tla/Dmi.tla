-------------------------------- MODULE Dmi --------------------------------
(***************************************************************************)
(* dmi.c: accesses to the debug module.  The status of an access comes out *)
(* with the scan after it; a read is asked again with NOP scans while it   *)
(* is busy, and dmireset follows a failure.  Calls come one after another, *)
(* as a protothread of the server makes them; the access itself, a failure *)
(* of it, and a power failure of the target come at any moment.            *)
(***************************************************************************)
EXTENDS Dtm

CONSTANTS
  Retries,      \* RVL_TARGET_CONFIG_DMI_RETRIES
  RetryTicks,   \* the ticks between two of them
  MaxCycles,    \* how often the target may lose its power
  BusFails      \* whether an access may fail

ASSUME DmiAssumption ==
  /\ Retries \in Nat \ {0} /\ RetryTicks \in Nat
  /\ MaxCycles \in Nat /\ BusFails \in BOOLEAN

VARIABLES
  pc,           \* idle, or the scan that is under way: op, nop, pause, reset,
                \* init, idcode, dtmcs
  kind,         \* the function that was called last
  reqs,         \* the accesses it makes
  n,            \* i
  buffer,       \* what it has read
  answer,       \* what the last call returned, until the next one begins
  made, mine, got, \* history: accesses of this call that were made, the one
                \* under way is this call's, what was read
  trusted,      \* history: the target has kept its power since the last connection
  cycles        \* how often it has lost it

callVars == <<pc, kind, reqs, n, buffer, answer>>
historyVars == <<made, mine, got>>
vars == <<targetVars, tapVars, dtmVars, callVars, historyVars, trusted, cycles>>

Failed == [done |-> FALSE, data |-> <<>>]

Init ==
  /\ TargetInit /\ TapInit /\ DtmInit
  /\ pc = "idle" /\ kind = "nop" /\ reqs = <<>> /\ n = 0 /\ buffer = <<>>
  /\ answer = Failed
  /\ made = 0 /\ mine = FALSE /\ got = <<>>
  /\ trusted = FALSE /\ cycles = 0

Read(a) == [op |-> OpRead, addr |-> a, data |-> Zeros(DataBits)]
Write(a, d) == [op |-> OpWrite, addr |-> a, data |-> d]

Idle == pc = "idle" /\ dtmPc = "rest" /\ line = "rest"
Returned(step) == pc = step /\ dtmPc = "rest"

Scan(access) == BeginScan("dmi", access.op \o access.data \o access.addr)
Nop == BeginScan("dmi", Zeros(DmiBits))

(***************************************************************************)
(* The calls.                                                              *)
(***************************************************************************)
Call(k, accesses) ==
  /\ Idle
  /\ k # "connect" => reg # NoReg /\ UNCHANGED trusted
  /\ kind' = k /\ reqs' = accesses /\ n' = 0 /\ buffer' = <<>>
  /\ made' = 0 /\ mine' = FALSE /\ got' = <<>>
  /\ answer' = Failed
  /\ UNCHANGED cycles

CallNop == Call("nop", <<>>) /\ Nop /\ pc' = "nop"

CallAccess(k, accesses) ==
  Call(k, accesses) /\ Scan(accesses[1]) /\ pc' = "op"

CallRead == \E a \in Word(AddrBits) : CallAccess("read", <<Read(a)>>)

CallWrite ==
  \E a \in Word(AddrBits), d \in Word(DataBits) : CallAccess("write", <<Write(a, d)>>)

\* Two registers from the first address on; the second has the highest bit set.
Second == [j \in 1 .. AddrBits |-> IF j = AddrBits THEN 1 ELSE 0]

CallReadVector ==
  CallAccess("read_vector", <<Read(Zeros(AddrBits)), Read(Second)>>)

CallWriteVector ==
  \E d1, d2 \in Word(DataBits) :
    CallAccess("write_vector", <<Write(Zeros(AddrBits), d1), Write(Second, d2)>>)

\* rvl_dmi_init, by riscv_target_init: a connection.
Connect ==
  /\ Call("connect", <<>>)
  /\ BeginInit
  /\ pc' = "init"
  /\ trusted' = TRUE

(***************************************************************************)
(* Their steps.                                                            *)
(***************************************************************************)
Keep == UNCHANGED <<kind, reqs, answer, historyVars, trusted, cycles>>

\* riscv_target_init_post begins with rvl_dtm_idcode and rvl_dtm_dtmcs.
InitIdcode ==
  /\ Returned("init")
  /\ pc' = "idcode" /\ BeginScan("idcode", Zeros(WordBits))
  /\ Keep /\ UNCHANGED <<n, buffer>>

InitDtmcs ==
  /\ Returned("idcode")
  /\ pc' = "dtmcs" /\ BeginScan("dtmcs", Zeros(WordBits))
  /\ Keep /\ UNCHANGED <<n, buffer>>

\* The scan of access n + 1 has ended: the next one, or the NOP for the status
\* of the last.
OpNext ==
  /\ Returned("op") /\ n + 1 < Len(reqs)
  /\ n' = n + 1
  /\ buffer' = IF kind = "read_vector" /\ n > 0 THEN Append(buffer, DataOut) ELSE buffer
  /\ Scan(reqs[n + 2])
  /\ Keep /\ UNCHANGED pc

OpLast ==
  /\ Returned("op") /\ n + 1 = Len(reqs)
  /\ n' = IF kind = "read" THEN 0 ELSE n + 1
  /\ buffer' = IF kind = "read_vector" /\ n > 0 THEN Append(buffer, DataOut) ELSE buffer
  /\ Nop
  /\ pc' = "nop"
  /\ Keep

\* Mutation: only a failure is taken for one.
OkUnlessFailed == OpOut # ResultFail

Ok == OpOut = ResultDone

\* rvl_dmi_read: busy, so the NOP is repeated after a pause.
ReadBusy ==
  /\ Returned("nop") /\ kind = "read" /\ OpOut = ResultBusy
  /\ pc' = "pause"
  /\ BeginIdle(RetryTicks)
  /\ Keep /\ UNCHANGED <<n, buffer>>

\* Mutation: the retries are not counted.
ReadAgainForever ==
  /\ Returned("pause")
  /\ pc' = "nop"
  /\ Nop
  /\ Keep /\ UNCHANGED <<n, buffer>>

ReadAgain ==
  /\ Returned("pause") /\ n + 1 < Retries
  /\ n' = n + 1
  /\ pc' = "nop"
  /\ Nop
  /\ Keep /\ UNCHANGED buffer

Reset ==
  /\ pc' = "reset"
  /\ BeginScan("dmireset", DmiReset)
  /\ Keep /\ UNCHANGED buffer

ReadGivesUp == Returned("pause") /\ n + 1 = Retries /\ n' = n + 1 /\ Reset

NotOk ==
  /\ Returned("nop") /\ kind # "nop" /\ ~Ok
  /\ ~ (kind = "read" /\ OpOut = ResultBusy)
  /\ UNCHANGED n /\ Reset

Return(result) ==
  /\ pc' = "idle"
  /\ answer' = result
  /\ made' = 0 /\ mine' = FALSE /\ got' = <<>>
  /\ reqs' = <<>> /\ n' = 0 /\ buffer' = <<>>
  /\ UNCHANGED <<kind, trusted, cycles, targetVars, tapVars, dtmVars>>

ReturnDone ==
  /\ Returned("nop") /\ kind # "nop" /\ Ok
  /\ Return([done |-> TRUE,
             data |-> IF kind \in {"read", "read_vector"}
                        THEN Append(buffer, DataOut) ELSE <<>>])

ReturnFailed == Returned("reset") /\ Return(Failed)

\* rvl_dmi_nop has no result, and that of a connection is of another kind.
ReturnNone ==
  /\ Returned("dtmcs") \/ (Returned("nop") /\ kind = "nop")
  /\ Return(Failed)

Host ==
  \/ DtmStep /\ UNCHANGED <<callVars, trusted, cycles>> /\
       IF request' # request   \* Update-DR has begun an access of this call
         THEN mine' = TRUE /\ UNCHANGED <<made, got>>
         ELSE UNCHANGED historyVars
  \/ InitIdcode \/ InitDtmcs
  \/ OpNext \/ OpLast
  \/ ReadBusy \/ ReadAgain \/ ReadGivesUp \/ NotOk
  \/ ReturnDone \/ ReturnFailed \/ ReturnNone

(***************************************************************************)
(* What happens to the target meanwhile.                                   *)
(***************************************************************************)
AccessDone ==
  /\ RequestDone
  /\ IF mine THEN /\ made' = made + 1
                  /\ got' = IF request.op = OpRead THEN Append(got, response') ELSE got
             ELSE UNCHANGED <<made, got>>
  /\ mine' = FALSE
  /\ UNCHANGED <<tapVars, dtmVars, callVars, trusted, cycles>>

AccessFails ==
  /\ BusFails /\ RequestFails
  /\ mine' = FALSE
  /\ UNCHANGED <<tapVars, dtmVars, callVars, made, got, trusted, cycles>>

\* Between two scans.
LosePower ==
  /\ line = "rest" /\ cycles < MaxCycles
  /\ PowerCycle
  /\ cycles' = cycles + 1 /\ trusted' = FALSE
  /\ mine' = FALSE
  /\ UNCHANGED <<tapVars, dtmVars, callVars, made, got>>

Next ==
  \/ CallNop \/ CallRead \/ CallWrite \/ CallReadVector \/ CallWriteVector \/ Connect
  \/ Host
  \/ AccessDone \/ AccessFails \/ LosePower

Spec == Init /\ [][Next]_vars

\* A call is polled to its end by the main loop; nothing makes the bus answer.
FairSpec == Spec /\ WF_vars(Host)

-----------------------------------------------------------------------------
\* Every variable has its type.
TypeOK ==
  /\ DtmTypeOK
  /\ pc \in {"idle", "op", "nop", "pause", "reset", "init", "idcode", "dtmcs"}
  /\ kind \in {"nop", "read", "write", "read_vector", "write_vector", "connect"}
  /\ reqs \in Seq(Requests)
  /\ n \in Nat /\ buffer \in Seq(Word(DataBits))
  /\ answer \in [done : BOOLEAN, data : Seq(Word(DataBits))]
  /\ made \in Nat /\ mine \in BOOLEAN /\ got \in Seq(Word(DataBits))
  /\ trusted \in BOOLEAN /\ cycles \in 0 .. MaxCycles

Accesses(rs) ==
  [j \in 1 .. Len(rs) |->
     [write |-> rs[j].op = OpWrite, addr |-> rs[j].addr, data |-> rs[j].data]]

Port == INSTANCE RegisterPort WITH
  Addrs <- Word(AddrBits), Values <- Word(DataBits), Blank <- Zeros(DataBits),
  busy <- pc # "idle", known <- trusted,
  todo <- Accesses(SubSeq(reqs, made + 1, Len(reqs))),
  loose <- IF Busy /\ ~mine THEN Accesses(<<request>>) ELSE <<>>

\* A call that returns DONE has made its accesses once each, in order, after
\* whatever an earlier call left behind, and returns what they read; the late
\* answers of the bus, the sticky error and the cached instruction never make it
\* report what did not happen, as long as the target keeps the power it had when
\* it was connected.  After a power failure still no other access is made than
\* those asked for, in order and once each.
PortSpec == Port!Spec

\* The states of the TAP in which the code issues its next tick, by the
\* comments of tap.c.
TapAt ==
  CASE line \in {"rest", "run", "select_dr"} -> {"RunTestIdle"}
    [] line = "select_ir" -> {"SelectDR"}
    [] line = "capture"   -> IF which = "ir" THEN {"SelectIR"} ELSE {"SelectDR"}
    [] line = "enter"     -> IF which = "ir" THEN {"CaptureIR"} ELSE {"CaptureDR"}
    [] line = "shift"     -> IF which = "ir" THEN {"ShiftIR"} ELSE {"ShiftDR"}
    [] line = "update"    -> IF which = "ir" THEN {"Exit1IR"} ELSE {"Exit1DR"}
    [] line = "idle"      -> IF which = "ir" THEN {"UpdateIR"} ELSE {"UpdateDR"}
    [] OTHER              -> TapStates

\* tap.c never loses track of the TAP, whatever devices share the chain: its
\* (disabled) assertions about the state of the TAP hold.
InStep == trusted => tap \in TapAt

\* The instruction that dtm.c has cached is the one that the TAP executes
\* whenever a data register is scanned.
CachedInstruction == trusted /\ reg # NoReg /\ dtmPc # "ir" => ir = reg

\* Every call returns, whether the bus ever answers or not.
CallsReturn == (pc # "idle") ~> (pc = "idle")
=============================================================================
