--------------------------- MODULE DmiPortProofs ---------------------------
(***************************************************************************)
(* Proofs that dmi.c, down to the last tick of TCK, implements             *)
(* RegisterPort, for any chain of devices, any width of the registers, any *)
(* number of retries and of power failures.                                *)
(***************************************************************************)
EXTENDS DmiProofs

-----------------------------------------------------------------------------
(***************************************************************************)
(* The first layer: what the code is doing, whatever the target does.      *)
(***************************************************************************)
Total == Pre + Len(new) + Post
FnBits == IF fn = "dmi" THEN DmiBits ELSE WordBits
WordOf(r) == r.op \o r.data \o r.addr
ReadKinds == {"read", "read_vector"}

CodeType ==
  /\ pc \in {"idle", "op", "nop", "pause", "reset", "init", "idcode", "dtmcs"}
  /\ kind \in {"nop", "read", "write", "read_vector", "write_vector", "connect"}
  /\ reqs \in Seq(Requests) /\ n \in Nat
  /\ fn \in {"dmi", "dmireset", "dtmcs", "idcode", "run"}
  /\ in \in Seq(Bit) /\ new \in Seq(Bit)
  /\ i \in Nat

\* What is being scanned.
ScanWords ==
  /\ dtmPc \in {"ir", "dr"} => fn # "run" /\ Len(in) = FnBits /\ reg = Instruction(fn)
  /\ dtmPc = "dr" /\ line # "rest" => new = in
  /\ line \in {"select_dr", "select_ir", "capture", "enter"} => i = 0
  /\ line = "shift" => i \in 0 .. Total - 1

\* Which function of dtm.c belongs to which step of dmi.c.
CallOrder ==
  /\ pc = "idle" => dtmPc = "rest"
  /\ pc = "init" => fn = "run" /\ dtmPc \in {"run", "rest"} /\ reg = NoReg
  /\ pc = "pause" => fn = "run" /\ dtmPc \in {"run", "rest"} /\ reg = DMI
  /\ pc = "idcode" => fn = "idcode" /\ dtmPc # "run" /\ reg = IDCODE
  /\ pc = "dtmcs" => fn = "dtmcs" /\ dtmPc # "run" /\ reg = DTMCS
  /\ pc = "reset" => fn = "dmireset" /\ reg = DTMCS
  /\ pc \in {"op", "nop"} => fn = "dmi" /\ reg = DMI
  /\ line = "go_idle" => pc = "init"

\* The accesses of a call, and the word that is shifted in for each.
CallShape ==
  /\ pc = "idle" => reqs = <<>>
  /\ pc \in {"init", "idcode", "dtmcs"} => kind = "connect"
  /\ kind \in {"nop", "connect"} =>
       reqs = <<>> /\ pc \in {"idle", "init", "idcode", "dtmcs", "nop"}
  /\ pc = "nop" => kind # "connect"
  /\ kind \in {"read", "write"} /\ pc # "idle" => Len(reqs) = 1
  /\ kind \in {"read_vector", "write_vector"} /\ pc # "idle" => Len(reqs) = 2
  /\ \A k \in 1 .. Len(reqs) : reqs[k].op = IF kind \in ReadKinds THEN OpRead ELSE OpWrite
  /\ pc = "op" => n < Len(reqs) /\ in = WordOf(reqs[n + 1])
  /\ pc = "nop" => in = Zeros(DmiBits)
  /\ pc = "pause" => kind = "read"

CodeInv == CodeType /\ ScanWords /\ CallOrder /\ CallShape

-----------------------------------------------------------------------------
(***************************************************************************)
(* Words.                                                                  *)
(***************************************************************************)
LEMMA Widths ==
  /\ IrPre \in Nat /\ IrPost \in Nat /\ DrPre \in Nat /\ DrPost \in Nat
  /\ IrBits = 5 /\ WordBits = 5
  /\ DataBits \in Nat \ {0} /\ AddrBits \in Nat \ {0}
  /\ DmiBits \in Nat /\ DmiBits = 2 + DataBits + AddrBits /\ DmiBits >= 4
  /\ IrTotal \in Nat /\ IrTotal = IrPre + 5 + IrPost
BY ChainAssumption DEF IrBits, WordBits, DmiBits, IrTotal

LEMMA WordIsSeq ==
  ASSUME NEW k \in Nat, NEW w \in Word(k)
  PROVE  w \in Seq(Bit) /\ Len(w) = k
BY DEF Word

LEMMA ZerosType ==
  ASSUME NEW k \in Nat
  PROVE  Zeros(k) \in Word(k) /\ Zeros(k) \in Seq(Bit) /\ Len(Zeros(k)) = k
<1>1. Zeros(k) \in Word(k)
  BY DEF Zeros, Word, Bit
<1> QED
  BY <1>1, WordIsSeq

LEMMA ConcatTwo ==
  ASSUME NEW a \in Seq(Bit), NEW b \in Seq(Bit)
  PROVE  /\ a \o b \in Seq(Bit) /\ Len(a \o b) = Len(a) + Len(b)
         /\ \A k \in 1 .. Len(a) : (a \o b)[k] = a[k]
         /\ \A k \in 1 .. Len(b) : (a \o b)[Len(a) + k] = b[k]
OBVIOUS

LEMMA ConcatThree ==
  ASSUME NEW a \in Seq(Bit), NEW b \in Seq(Bit), NEW c \in Seq(Bit)
  PROVE  /\ a \o b \o c \in Seq(Bit)
         /\ Len(a \o b \o c) = Len(a) + Len(b) + Len(c)
         /\ \A k \in 1 .. Len(a) : (a \o b \o c)[k] = a[k]
         /\ \A k \in 1 .. Len(b) : (a \o b \o c)[Len(a) + k] = b[k]
         /\ \A k \in 1 .. Len(c) : (a \o b \o c)[Len(a) + Len(b) + k] = c[k]
<1> DEFINE ab == a \o b
           abc == ab \o c
<1>1. /\ ab \in Seq(Bit) /\ Len(ab) = Len(a) + Len(b)
      /\ \A k \in 1 .. Len(a) : ab[k] = a[k]
      /\ \A k \in 1 .. Len(b) : ab[Len(a) + k] = b[k]
  BY ConcatTwo
<1>2. a \o b \o c = abc
  OBVIOUS
<1> HIDE DEF ab
<1>3. /\ abc \in Seq(Bit) /\ Len(abc) = Len(ab) + Len(c)
      /\ \A k \in 1 .. Len(ab) : abc[k] = ab[k]
      /\ \A k \in 1 .. Len(c) : abc[Len(ab) + k] = c[k]
  BY <1>1, ConcatTwo
<1>4. Len(a) \in Nat /\ Len(b) \in Nat /\ Len(c) \in Nat
  OBVIOUS
<1> HIDE DEF abc
<1>5. /\ \A k \in 1 .. Len(a) : abc[k] = a[k]
      /\ \A k \in 1 .. Len(b) : abc[Len(a) + k] = b[k]
  BY <1>1, <1>3, <1>4
<1> QED
  BY <1>1, <1>2, <1>3, <1>5

LEMMA OpType ==
  /\ OpRead \in Seq(Bit) /\ Len(OpRead) = 2 /\ OpRead = <<1, 0>>
  /\ OpWrite \in Seq(Bit) /\ Len(OpWrite) = 2 /\ OpWrite = <<0, 1>>
  /\ OpNop = <<0, 0>>
  /\ OpRead # OpWrite /\ OpNop # OpRead /\ OpNop # OpWrite
BY DEF OpRead, OpWrite, OpNop, Bit

\* The word that is shifted in for an access, and its three fields.
LEMMA WordOfRequest ==
  ASSUME NEW r \in Requests
  PROVE  /\ WordOf(r) \in Seq(Bit) /\ Len(WordOf(r)) = DmiBits
         /\ \A k \in 1 .. 2 : WordOf(r)[k] = r.op[k]
         /\ \A k \in 1 .. DataBits : WordOf(r)[2 + k] = r.data[k]
         /\ \A k \in 1 .. AddrBits : WordOf(r)[2 + DataBits + k] = r.addr[k]
<1>1. r.op \in {OpRead, OpWrite} /\ r.data \in Word(DataBits) /\ r.addr \in Word(AddrBits)
  BY DEF Requests
<1>2. r.op \in Seq(Bit) /\ Len(r.op) = 2
  BY <1>1, OpType
<1>3. /\ r.data \in Seq(Bit) /\ Len(r.data) = DataBits
      /\ r.addr \in Seq(Bit) /\ Len(r.addr) = AddrBits
  BY <1>1, Widths, WordIsSeq
<1>4. WordOf(r) = r.op \o r.data \o r.addr
  BY DEF WordOf
<1> DEFINE a == r.op
           b == r.data
           c == r.addr
           w == WordOf(r)
           abc == a \o b \o c
<1>5. Len(a) = 2 /\ Len(b) = DataBits /\ Len(c) = AddrBits
  BY <1>2, <1>3
<1>6. a \in Seq(Bit) /\ b \in Seq(Bit) /\ c \in Seq(Bit)
  BY <1>2, <1>3
<1>7. w = abc
  BY <1>4
<1> HIDE DEF a, b, c, w
<1>8. /\ abc \in Seq(Bit) /\ Len(abc) = Len(a) + Len(b) + Len(c)
      /\ \A k \in 1 .. Len(a) : abc[k] = a[k]
      /\ \A k \in 1 .. Len(b) : abc[Len(a) + k] = b[k]
      /\ \A k \in 1 .. Len(c) : abc[Len(a) + Len(b) + k] = c[k]
  BY <1>6, ConcatThree, ZenonT(60)
<1> HIDE DEF abc
<1>9. /\ w \in Seq(Bit) /\ Len(w) = DmiBits
      /\ \A k \in 1 .. 2 : w[k] = a[k]
      /\ \A k \in 1 .. DataBits : w[2 + k] = b[k]
      /\ \A k \in 1 .. AddrBits : w[2 + DataBits + k] = c[k]
  BY <1>5, <1>7, <1>8, Widths
<1> QED
  BY <1>9 DEF a, b, c, w

LEMMA RequestsMade ==
  /\ \A a \in Word(AddrBits) : Read(a) \in Requests /\ Read(a).op = OpRead
  /\ \A a \in Word(AddrBits), d \in Word(DataBits) :
       Write(a, d) \in Requests /\ Write(a, d).op = OpWrite
  /\ Zeros(AddrBits) \in Word(AddrBits) /\ Second \in Word(AddrBits)
<1>1. Zeros(DataBits) \in Word(DataBits) /\ Zeros(AddrBits) \in Word(AddrBits)
  BY ZerosType, Widths
<1>2. Second \in Word(AddrBits)
  BY DEF Second, Word, Bit
<1> QED
  BY <1>1, <1>2 DEF Read, Write, Requests

-----------------------------------------------------------------------------
(***************************************************************************)
(* The first layer is preserved.                                           *)
(***************************************************************************)
LEMMA ScanLengths ==
  ASSUME IInv, CodeInv, line \notin {"rest", "run", "go_idle"}
  PROVE  /\ dtmPc \in {"ir", "dr"}
         /\ Pre \in Nat /\ Post \in Nat /\ Len(new) \in Nat /\ Len(new) > 0
         /\ Total \in Nat /\ Total > 0 /\ Total = Pre + Len(new) + Post
         /\ dtmPc = "ir" => which = "ir" /\ new = reg /\ Len(new) = 5 /\ Pre = IrPre /\ Total = IrTotal
         /\ dtmPc = "dr" => which = "dr" /\ new = in /\ Len(new) = FnBits /\ Pre = DrPre /\ Post = DrPost
<1>1. dtmPc \in {"ir", "dr"}
  BY DEF IInv, ScanInv, Lines
<1>2. CASE dtmPc = "ir"
  <2>1. which = "ir" /\ new = reg /\ reg \in Instructions
    BY <1>2 DEF IInv, ScanInv
  <2>2. Len(reg) = 5
    BY <2>1, InstructionType, Widths
  <2>3. Pre = IrPre /\ Post = IrPost /\ Total = IrPre + 5 + IrPost
    BY <2>1, <2>2 DEF Pre, Post, Total
  <2> QED
    BY <1>2, <2>1, <2>2, <2>3, Widths
<1>3. CASE dtmPc = "dr"
  <2>1. which = "dr" /\ new = in /\ Len(in) = FnBits
    BY <1>3 DEF IInv, ScanInv, CodeInv, ScanWords
  <2> QED
    BY <1>3, <2>1, Widths DEF Pre, Post, Total, FnBits
<1> QED
  BY <1>1, <1>2, <1>3

LEMMA TickCode ==
  ASSUME IInv, CodeInv, TapTick, UNCHANGED <<dtmVars, callVars>>
  PROVE  CodeInv'
<1>0. /\ UNCHANGED <<pc, kind, reqs, n, buffer, answer, dtmPc, fn, in, reg, idle, new, which, limit>>
      /\ i' \in {i, i + 1} /\ line # "rest"
      /\ line' # line => line' # "go_idle"
  BY DEF dtmVars, callVars, TapTick, TickSelectDr, TickSelectIr, TickCapture, TickEnter, TickBypass,
         TickBit, TickUpdate, TickIdle, TickGoIdle, TickRun, Tick, ShiftLoop
<1>1. CodeType'
  BY <1>0 DEF CodeInv, CodeType
<1>2. CallShape'
  BY <1>0 DEF CodeInv, CallShape, ReadKinds, WordOf
<1>3. CallOrder'
  BY <1>0 DEF CodeInv, CallOrder
<1>4. Total' = Total
  BY <1>0 DEF Total, Pre, Post
<1>5. CASE line = "shift"
  <2>1. /\ i' = i + 1 /\ line' = IF LastTick THEN "update" ELSE "shift"
    BY <1>5 DEF TapTick, TickSelectDr, TickSelectIr, TickCapture, TickEnter, TickBypass,
         TickBit, TickUpdate, TickIdle, TickGoIdle, TickRun, Tick, ShiftLoop
  <2>2. i \in 0 .. Total - 1 /\ (LastTick <=> i = Total - 1) /\ Total \in Nat
    BY <1>5, ScanLengths DEF CodeInv, ScanWords, LastTick, Total
  <2>3. line' = "shift" => i' \in 0 .. Total' - 1
    BY <1>4, <2>1, <2>2
  <2> QED
    BY <1>0, <1>1, <1>2, <1>3, <2>1, <2>3, <1>5 DEF CodeInv, ScanWords, FnBits
<1>6. CASE line # "shift"
  <2>1. /\ line' \in {"select_dr", "select_ir", "capture", "enter", "shift"} =>
             i' = i /\ line \in {"select_dr", "select_ir", "capture", "enter"}
    BY <1>6 DEF TapTick, TickSelectDr, TickSelectIr, TickCapture, TickEnter, TickBypass,
         TickBit, TickUpdate, TickIdle, TickGoIdle, TickRun, Tick, ShiftLoop
  <2>2. line' = "shift" => Total \in Nat /\ Total > 0
    BY <2>1, ScanLengths
  <2>3. ScanWords'
    BY <1>0, <1>4, <2>1, <2>2 DEF CodeInv, ScanWords, FnBits
  <2> QED
    BY <1>1, <1>2, <1>3, <2>3 DEF CodeInv
<1> QED
  BY <1>5, <1>6

\* The variables of the first layer that belong to dmi.c.
codeCallVars == <<pc, kind, reqs, n>>

LEMMA DtmStepCode ==
  ASSUME IInv, CodeInv, Selected \/ ScannedWait \/ Scanned \/ Waited, UNCHANGED codeCallVars
  PROVE  CodeInv'
<1>0. pc' = pc /\ kind' = kind /\ reqs' = reqs /\ n' = n /\ fn' = fn /\ in' = in /\ reg' = reg
  BY DEF codeCallVars, Selected, ScannedWait, Scanned, Waited
<1>1. CASE Selected
  <2>1. /\ dtmPc = "ir" /\ dtmPc' = "dr" /\ line' = "select_dr" /\ which' = "dr" /\ new' = in /\ i' = 0
    BY <1>1 DEF Selected, BeginShift
  <2>2. CodeType' /\ ScanWords'
    BY <1>0, <2>1 DEF CodeInv, CodeType, ScanWords, FnBits
  <2>3. CallOrder' /\ CallShape'
    BY <1>0, <2>1 DEF CodeInv, CallOrder, CallShape, WordOf
  <2> QED
    BY <2>2, <2>3 DEF CodeInv
<1>2. CASE ScannedWait
  <2>1. /\ dtmPc = "dr" /\ dtmPc' = "run" /\ line' = "run" /\ new' = new /\ i' = 0
        /\ fn \in {"dmi", "dmireset"} /\ idle > 0
    BY <1>2 DEF ScannedWait, BeginRun
  <2> QED
    BY <1>0, <2>1 DEF CodeInv, CodeType, ScanWords, CallOrder, CallShape, WordOf
<1>3. CASE Scanned \/ Waited
  <2>1. /\ dtmPc \in {"dr", "run"} /\ dtmPc' = "rest" /\ line = "rest" /\ line' = line
        /\ new' = new /\ i' = i
    BY <1>3 DEF Scanned, Waited, tapVars
  <2> QED
    BY <1>0, <2>1 DEF CodeInv, CodeType, ScanWords, CallOrder, CallShape, WordOf
<1> QED
  BY <1>1, <1>2, <1>3

\* What a scan that begins leaves to be shown.
LEMMA BeginScanCode ==
  ASSUME CodeInv, NEW f \in {"dmi", "dmireset", "dtmcs", "idcode"}, NEW bits \in Seq(Bit),
         Len(bits) = IF f = "dmi" THEN DmiBits ELSE WordBits, BeginScan(f, bits)
  PROVE  /\ ScanWords' /\ in' = bits /\ in' \in Seq(Bit) /\ new' \in Seq(Bit) /\ i' \in Nat
         /\ fn' = f /\ reg' = Instruction(f) /\ dtmPc' \in {"ir", "dr"} /\ line' = "select_dr"
<1>1. /\ in' = bits /\ fn' = f /\ reg' = Instruction(f)
      /\ dtmPc' \in {"ir", "dr"} /\ line' = "select_dr" /\ i' = 0
      /\ \/ dtmPc' = "ir" /\ new' = Instruction(f)
         \/ dtmPc' = "dr" /\ new' = bits
  BY DEF BeginScan, BeginShift
<1>2. Instruction(f) \in Seq(Bit)
  BY InstructionOf, InstructionType
<1>3. fn' # "run" /\ reg' = Instruction(fn') /\ Len(in') = FnBits'
  BY <1>1 DEF FnBits
<1>4. ScanWords'
  BY <1>1, <1>3 DEF ScanWords
<1> QED
  BY <1>1, <1>2, <1>4

LEMMA DmiScan ==
  /\ Instruction("dmi") = DMI /\ Instruction("idcode") = IDCODE
  /\ Instruction("dtmcs") = DTMCS /\ Instruction("dmireset") = DTMCS
  /\ DmiReset \in Seq(Bit) /\ Len(DmiReset) = WordBits
  /\ Zeros(WordBits) \in Seq(Bit) /\ Len(Zeros(WordBits)) = WordBits
  /\ Zeros(DmiBits) \in Seq(Bit) /\ Len(Zeros(DmiBits)) = DmiBits
<1>1. /\ Instruction("dmi") = DMI /\ Instruction("idcode") = IDCODE
      /\ Instruction("dtmcs") = DTMCS /\ Instruction("dmireset") = DTMCS
  BY DEF Instruction
<1>2. DmiReset \in Seq(Bit) /\ Len(DmiReset) = WordBits
  BY DEF DmiReset, Bit, WordBits
<1> QED
  BY <1>1, <1>2, ZerosType, Widths

LEMMA CallAccessCode ==
  ASSUME IInv, CodeInv, NEW k \in {"read", "write", "read_vector", "write_vector"},
         NEW accesses \in Seq(Requests),
         Len(accesses) = IF k \in {"read", "write"} THEN 1 ELSE 2,
         \A j \in 1 .. Len(accesses) :
            accesses[j].op = IF k \in ReadKinds THEN OpRead ELSE OpWrite,
         CallAccess(k, accesses)
  PROVE  CodeInv'
<1>1. /\ kind' = k /\ reqs' = accesses /\ n' = 0 /\ pc' = "op" /\ Scan(accesses[1])
  BY DEF CallAccess, Call
<1>2. accesses[1] \in Requests
  OBVIOUS
<1>3. BeginScan("dmi", WordOf(accesses[1]))
  BY <1>1 DEF Scan, WordOf
<1>4. WordOf(accesses[1]) \in Seq(Bit) /\ Len(WordOf(accesses[1])) = DmiBits
  BY <1>2, WordOfRequest
<1>5. /\ ScanWords' /\ in' = WordOf(accesses[1]) /\ in' \in Seq(Bit) /\ new' \in Seq(Bit) /\ i' \in Nat
      /\ fn' = "dmi" /\ reg' = Instruction("dmi") /\ dtmPc' \in {"ir", "dr"} /\ line' = "select_dr"
  BY <1>3, <1>4, BeginScanCode
<1>6. CodeType'
  BY <1>1, <1>5 DEF CodeType
<1>7. CallOrder'
  BY <1>1, <1>5, DmiScan DEF CallOrder
<1>8. CallShape'
  <2>1. reqs'[n' + 1] = accesses[1]
    BY <1>1
  <2>2. in' = reqs'[n' + 1].op \o reqs'[n' + 1].data \o reqs'[n' + 1].addr
    BY <1>5, <2>1 DEF WordOf
  <2>3. n' < Len(reqs')
    BY <1>1
  <2>4. \A j \in 1 .. Len(reqs') :
          reqs'[j].op = IF kind' \in ReadKinds THEN OpRead ELSE OpWrite
    BY <1>1
  <2> QED
    BY <1>1, <2>2, <2>3, <2>4 DEF CallShape, WordOf, ReadKinds
<1> QED
  BY <1>5, <1>6, <1>7, <1>8 DEF CodeInv

LEMMA CallCode ==
  ASSUME IInv, CodeInv,
         CallNop \/ CallRead \/ CallWrite \/ CallReadVector \/ CallWriteVector \/ Connect
  PROVE  CodeInv'
<1>1. CASE CallNop
  <2>1. kind' = "nop" /\ reqs' = <<>> /\ n' = 0 /\ pc' = "nop" /\ BeginScan("dmi", Zeros(DmiBits))
    BY <1>1 DEF CallNop, Call, Nop
  <2>2. /\ ScanWords' /\ in' = Zeros(DmiBits) /\ in' \in Seq(Bit) /\ new' \in Seq(Bit) /\ i' \in Nat
        /\ fn' = "dmi" /\ reg' = Instruction("dmi") /\ dtmPc' \in {"ir", "dr"} /\ line' = "select_dr"
    BY <2>1, BeginScanCode, DmiScan
  <2>3. CodeType' /\ CallOrder' /\ CallShape'
    BY <2>1, <2>2, DmiScan DEF CodeType, CallOrder, CallShape, ReadKinds
  <2> QED
    BY <2>2, <2>3 DEF CodeInv
<1>2. CASE CallRead
  <2>1. PICK a \in Word(AddrBits) : CallAccess("read", <<Read(a)>>)
    BY <1>2 DEF CallRead
  <2> DEFINE acc == <<Read(a)>>
  <2>2. acc \in Seq(Requests) /\ Len(acc) = 1 /\ \A j \in 1 .. Len(acc) : acc[j].op = OpRead
    BY RequestsMade
  <2>3. CallAccess("read", acc)
    BY <2>1
  <2> HIDE DEF acc
  <2> QED
    BY <2>2, <2>3, CallAccessCode DEF ReadKinds
<1>3. CASE CallWrite
  <2>1. PICK a \in Word(AddrBits), d \in Word(DataBits) : CallAccess("write", <<Write(a, d)>>)
    BY <1>3 DEF CallWrite
  <2> DEFINE acc == <<Write(a, d)>>
  <2>2. acc \in Seq(Requests) /\ Len(acc) = 1 /\ \A j \in 1 .. Len(acc) : acc[j].op = OpWrite
    BY RequestsMade
  <2>3. CallAccess("write", acc)
    BY <2>1
  <2> HIDE DEF acc
  <2> QED
    BY <2>2, <2>3, CallAccessCode DEF ReadKinds
<1>4. CASE CallReadVector
  <2>1. CallAccess("read_vector", <<Read(Zeros(AddrBits)), Read(Second)>>)
    BY <1>4 DEF CallReadVector
  <2>2. /\ Read(Zeros(AddrBits)) \in Requests /\ Read(Zeros(AddrBits)).op = OpRead
        /\ Read(Second) \in Requests /\ Read(Second).op = OpRead
    BY RequestsMade
  <2> DEFINE acc == <<Read(Zeros(AddrBits)), Read(Second)>>
  <2>3. acc \in Seq(Requests) /\ Len(acc) = 2 /\ \A j \in 1 .. Len(acc) : acc[j].op = OpRead
    BY <2>2
  <2>4. CallAccess("read_vector", acc)
    BY <2>1
  <2> HIDE DEF acc
  <2> QED
    BY <2>3, <2>4, CallAccessCode DEF ReadKinds
<1>5. CASE CallWriteVector
  <2>1. PICK d1 \in Word(DataBits), d2 \in Word(DataBits) :
          CallAccess("write_vector", <<Write(Zeros(AddrBits), d1), Write(Second, d2)>>)
    BY <1>5 DEF CallWriteVector
  <2>2. /\ Write(Zeros(AddrBits), d1) \in Requests /\ Write(Zeros(AddrBits), d1).op = OpWrite
        /\ Write(Second, d2) \in Requests /\ Write(Second, d2).op = OpWrite
    BY RequestsMade
  <2> DEFINE acc == <<Write(Zeros(AddrBits), d1), Write(Second, d2)>>
  <2>3. acc \in Seq(Requests) /\ Len(acc) = 2 /\ \A j \in 1 .. Len(acc) : acc[j].op = OpWrite
    BY <2>2
  <2>4. CallAccess("write_vector", acc)
    BY <2>1
  <2> HIDE DEF acc
  <2> QED
    BY <2>3, <2>4, CallAccessCode DEF ReadKinds
<1>6. CASE Connect
  <2>1. /\ kind' = "connect" /\ reqs' = <<>> /\ n' = 0 /\ pc' = "init"
        /\ dtmPc' = "run" /\ fn' = "run" /\ reg' = NoReg /\ line' = "go_idle" /\ i' = 0
        /\ in' = in /\ new' = new
    BY <1>6 DEF Connect, Call, BeginInit, BeginGoIdle
  <2> QED
    BY <2>1 DEF CodeInv, CodeType, ScanWords, CallOrder, CallShape, ReadKinds
<1> QED
  BY <1>1, <1>2, <1>3, <1>4, <1>5, <1>6

LEMMA HostScanCode ==
  ASSUME IInv, CodeInv, InitIdcode \/ InitDtmcs \/ OpNext \/ OpLast \/ ReadAgain \/ ReadGivesUp \/ NotOk
  PROVE  CodeInv'
<1>0. kind' = kind /\ reqs' = reqs
  BY DEF InitIdcode, InitDtmcs, OpNext, OpLast, ReadAgain, ReadGivesUp, NotOk, Reset, Keep
<1>1. CASE InitIdcode \/ InitDtmcs
  <2>1. /\ n' = n /\ pc' \in {"idcode", "dtmcs"} /\ BeginScan(pc', Zeros(WordBits))
        /\ pc \in {"init", "idcode"}
    BY <1>1 DEF InitIdcode, InitDtmcs, Returned
  <2>2. /\ ScanWords' /\ in' \in Seq(Bit) /\ new' \in Seq(Bit) /\ i' \in Nat
        /\ fn' = pc' /\ reg' = Instruction(pc') /\ dtmPc' \in {"ir", "dr"} /\ line' = "select_dr"
    BY <2>1, BeginScanCode, DmiScan
  <2>3. CodeType' /\ CallOrder' /\ CallShape'
    BY <1>0, <2>1, <2>2, DmiScan DEF CodeInv, CodeType, CallOrder, CallShape
  <2> QED
    BY <2>2, <2>3 DEF CodeInv
<1>2. CASE OpNext
  <2>1. /\ pc = "op" /\ pc' = "op" /\ n' = n + 1 /\ n + 1 < Len(reqs) /\ Scan(reqs[n + 2])
    BY <1>2 DEF OpNext, Returned
  <2>2. reqs \in Seq(Requests) /\ n \in Nat
    BY DEF CodeInv, CodeType
  <2>3. reqs[n + 2] \in Requests
    BY <2>1, <2>2
  <2>4. BeginScan("dmi", WordOf(reqs[n + 2]))
    BY <2>1 DEF Scan, WordOf
  <2>5. /\ ScanWords' /\ in' = WordOf(reqs[n + 2]) /\ in' \in Seq(Bit) /\ new' \in Seq(Bit) /\ i' \in Nat
        /\ fn' = "dmi" /\ reg' = Instruction("dmi") /\ dtmPc' \in {"ir", "dr"} /\ line' = "select_dr"
    BY <2>3, <2>4, WordOfRequest, BeginScanCode
  <2>6. CodeType' /\ CallOrder'
    BY <1>0, <2>1, <2>2, <2>5, DmiScan DEF CodeInv, CodeType, CallOrder
  <2>7. CallShape'
    <3>1. reqs'[n' + 1] = reqs[n + 2] /\ n' < Len(reqs')
      BY <1>0, <2>1, <2>2
    <3>2. in' = reqs'[n' + 1].op \o reqs'[n' + 1].data \o reqs'[n' + 1].addr
      BY <2>5, <3>1 DEF WordOf
    <3> QED
      BY <1>0, <2>1, <3>1, <3>2 DEF CodeInv, CallShape, WordOf
  <2> QED
    BY <2>5, <2>6, <2>7 DEF CodeInv
<1>3. CASE OpLast \/ ReadAgain
  <2>1. /\ pc \in {"op", "pause"} /\ pc' = "nop" /\ n' \in {0, n, n + 1} /\ BeginScan("dmi", Zeros(DmiBits))
    BY <1>3 DEF OpLast, ReadAgain, Returned, Nop
  <2>2. /\ ScanWords' /\ in' = Zeros(DmiBits) /\ in' \in Seq(Bit) /\ new' \in Seq(Bit) /\ i' \in Nat
        /\ fn' = "dmi" /\ reg' = Instruction("dmi") /\ dtmPc' \in {"ir", "dr"} /\ line' = "select_dr"
    BY <2>1, BeginScanCode, DmiScan
  <2>3. CodeType' /\ CallOrder' /\ CallShape'
    BY <1>0, <2>1, <2>2, DmiScan DEF CodeInv, CodeType, CallOrder, CallShape
  <2> QED
    BY <2>2, <2>3 DEF CodeInv
<1>4. CASE ReadGivesUp \/ NotOk
  <2>1. /\ pc \in {"nop", "pause"} /\ pc' = "reset" /\ n' \in {n, n + 1} /\ BeginScan("dmireset", DmiReset)
        /\ pc = "nop" => kind # "nop"
    BY <1>4 DEF ReadGivesUp, NotOk, Reset, Returned
  <2>2. /\ ScanWords' /\ in' \in Seq(Bit) /\ new' \in Seq(Bit) /\ i' \in Nat
        /\ fn' = "dmireset" /\ reg' = Instruction("dmireset") /\ dtmPc' \in {"ir", "dr"}
        /\ line' = "select_dr"
    BY <2>1, BeginScanCode, DmiScan
  <2>3. CodeType' /\ CallOrder'
    BY <1>0, <2>1, <2>2, DmiScan DEF CodeInv, CodeType, CallOrder
  <2>4. CallShape'
    BY <1>0, <2>1, <2>2 DEF CodeInv, CallShape
  <2> QED
    BY <2>2, <2>3, <2>4 DEF CodeInv
<1> QED
  BY <1>1, <1>2, <1>3, <1>4

LEMMA CodeStep == IInv /\ CodeInv /\ [Next]_vars => CodeInv'
<1> SUFFICES ASSUME IInv, CodeInv, [Next]_vars
             PROVE  CodeInv'
  OBVIOUS
<1>1. CASE CallNop \/ CallRead \/ CallWrite \/ CallReadVector \/ CallWriteVector \/ Connect
  BY <1>1, CallCode
<1>2. CASE DtmStep /\ UNCHANGED callVars
  <2>1. CASE TapTick /\ UNCHANGED dtmVars
    BY <1>2, <2>1, TickCode
  <2>2. CASE Selected \/ ScannedWait \/ Scanned \/ Waited
    BY <1>2, <2>2, DtmStepCode DEF callVars, codeCallVars
  <2> QED
    BY <1>2, <2>1, <2>2 DEF DtmStep
<1>3. CASE InitIdcode \/ InitDtmcs \/ OpNext \/ OpLast \/ ReadAgain \/ ReadGivesUp \/ NotOk
  BY <1>3, HostScanCode
<1>4. CASE ReadBusy
  <2>1. /\ pc' = "pause" /\ pc = "nop" /\ kind = "read" /\ kind' = kind /\ reqs' = reqs /\ n' = n
        /\ dtmPc' = "run" /\ fn' = "run" /\ line' = "run" /\ i' = 0 /\ in' = in /\ new' = new /\ reg' = reg
    BY <1>4 DEF ReadBusy, Keep, BeginIdle, BeginRun, Returned
  <2> QED
    BY <2>1 DEF CodeInv, CodeType, ScanWords, CallOrder, CallShape
<1>5. CASE ReturnDone \/ ReturnFailed \/ ReturnNone
  <2>1. /\ pc' = "idle" /\ kind' = kind /\ reqs' = <<>> /\ n' = 0 /\ dtmPc = "rest"
        /\ UNCHANGED <<tapVars, dtmVars>>
    BY <1>5 DEF ReturnDone, ReturnFailed, ReturnNone, Return, Returned
  <2>2. line = "rest"
    BY <2>1 DEF IInv, ScanInv
  <2> QED
    BY <2>1, <2>2 DEF CodeInv, CodeType, ScanWords, CallOrder, CallShape, tapVars, dtmVars
<1>6. CASE AccessDone \/ AccessFails \/ LosePower \/ UNCHANGED vars
  <2>1. UNCHANGED <<tapVars, dtmVars, callVars>>
    BY <1>6 DEF AccessDone, AccessFails, LosePower, vars
  <2>2. CodeType' /\ ScanWords'
    BY <2>1 DEF tapVars, dtmVars, callVars, CodeInv, CodeType, ScanWords, FnBits, Total, Pre, Post
  <2>3. CallOrder' /\ CallShape'
    BY <2>1 DEF tapVars, dtmVars, callVars, CodeInv, CallOrder, CallShape, WordOf
  <2> QED
    BY <2>2, <2>3 DEF CodeInv
<1> QED
  BY <1>1, <1>2, <1>3, <1>4, <1>5, <1>6 DEF Next, Host

LEMMA InitCode == Init => CodeInv
BY DEF Init, TargetInit, TapInit, DtmInit, CodeInv, CodeType, ScanWords, CallOrder, CallShape

THEOREM CodeInvariant == Spec => [](IInv /\ CodeInv)
BY InitHolds, StepKeeps, InitCode, CodeStep, PTL DEF Spec

-----------------------------------------------------------------------------
(***************************************************************************)
(* The second layer: where the TAP is, in step or not.  A target that has  *)
(* lost its power is in Test-Logic-Reset when the code takes it to be in   *)
(* Run-Test/Idle; the walk that follows goes astray, but only through the  *)
(* states of the instruction register, and never into a data register.     *)
(***************************************************************************)
OffAt ==
  CASE line \in {"rest", "run", "select_dr"} -> {"TestLogicReset", "CaptureIR", "ShiftIR"}
    [] line = "select_ir" -> {"TestLogicReset", "Exit1IR"}
    [] line = "capture"   -> {"TestLogicReset", IF which = "ir" THEN "UpdateIR" ELSE "Exit1IR"}
    [] line \in {"enter", "shift"} ->
         IF which = "ir" THEN {"RunTestIdle"} ELSE {"RunTestIdle", "PauseIR"}
    [] line = "update" -> IF which = "ir" THEN {"SelectDR"} ELSE {"SelectDR", "Exit2IR"}
    [] line = "idle"   -> IF which = "ir" THEN {"SelectIR"} ELSE {"SelectIR", "UpdateIR"}
    [] OTHER -> {}

GoAt(k) ==
  CASE k = 0 -> {"TestLogicReset", "RunTestIdle", "CaptureIR", "ShiftIR"}
    [] k = 1 -> {"TestLogicReset", "SelectDR", "Exit1IR"}
    [] k = 2 -> {"TestLogicReset", "SelectIR", "UpdateIR"}
    [] k = 3 -> {"TestLogicReset", "SelectDR"}
    [] k = 4 -> {"TestLogicReset", "SelectIR"}
    [] OTHER -> {"TestLogicReset"}

OnTrack == line # "go_idle" /\ tap \in TapAt

PosInv == IF line = "go_idle" THEN tap \in GoAt(i) ELSE tap \in TapAt \cup OffAt

\* What a tick does to the state of the TAP.
LEMMA TickPos ==
  ASSUME IInv, PosInv, TapTick, UNCHANGED dtmVars
  PROVE  PosInv'
<1> USE DEF IInv, ScanInv, PosInv, TapAt, OffAt, TapNext, WhenLow, WhenHigh
<1>1. CASE TickSelectDr
  <2>1. /\ line = "select_dr" /\ line' = IF which = "ir" THEN "select_ir" ELSE "capture"
        /\ which' = which /\ tap' = TapNext(1)
    BY <1>1 DEF TickSelectDr, Tick, Edge
  <2> QED
    BY <2>1
<1>2. CASE TickSelectIr
  <2>1. line = "select_ir" /\ line' = "capture" /\ which' = which /\ tap' = TapNext(1) /\ which = "ir"
    BY <1>2 DEF TickSelectIr, Tick, Edge
  <2> QED
    BY <2>1
<1>3. CASE TickCapture
  <2>1. line = "capture" /\ line' = "enter" /\ which' = which /\ tap' = TapNext(0)
    BY <1>3 DEF TickCapture, Tick, Edge
  <2> QED
    BY <2>1
<1>4. CASE TickEnter
  <2>1. line = "enter" /\ line' = "shift" /\ which' = which /\ tap' = TapNext(0)
    BY <1>4 DEF TickEnter, Tick, Edge
  <2> QED
    BY <2>1
<1>5. CASE TickBypass \/ TickBit
  <2>1. /\ line = "shift" /\ which' = which
        /\ \/ line' = "shift" /\ tap' = TapNext(0)
           \/ line' = "update" /\ tap' = TapNext(1)
    BY <1>5 DEF TickBypass, TickBit, ShiftLoop, LeaveShift, Edge
  <2> QED
    BY <2>1
<1>6. CASE TickUpdate
  <2>1. line = "update" /\ line' = "idle" /\ which' = which /\ tap' = TapNext(1)
    BY <1>6 DEF TickUpdate, Tick, Edge
  <2> QED
    BY <2>1
<1>7. CASE TickIdle
  <2>1. line = "idle" /\ line' = "rest" /\ which' = which /\ tap' = TapNext(0)
    BY <1>7 DEF TickIdle, Tick, Edge
  <2> QED
    BY <2>1
<1>8. CASE TickGoIdle
  <2>1. line = "go_idle" /\ limit = 6 /\ i \in 0 .. 6 /\ tap \in GoAt(i)
    BY <1>8 DEF TickGoIdle
  <2>2. CASE i < limit
    <3>1. i' = i + 1 /\ tap' = TapNext(1) /\ line' = "go_idle"
      BY <1>8, <2>1, <2>2 DEF TickGoIdle, Edge
    <3> QED
      BY <2>1, <2>2, <3>1 DEF GoAt
  <2>3. CASE ~ i < limit
    <3>1. line' = "rest" /\ tap' = TapNext(0) /\ i = 6
      BY <1>8, <2>1, <2>3 DEF TickGoIdle, Edge
    <3> QED
      BY <2>1, <3>1 DEF GoAt
  <2> QED
    BY <2>2, <2>3
<1>9. CASE TickRun
  <2>1. /\ line = "run"
        /\ \/ line' = "run" /\ tap' = TapNext(0)
           \/ line' = "rest" /\ tap' = tap
    BY <1>9 DEF TickRun, Edge, targetVars
  <2> QED
    BY <2>1
<1> QED
  BY <1>1, <1>2, <1>3, <1>4, <1>5, <1>6, <1>7, <1>8, <1>9 DEF TapTick

LEMMA PosStep == IInv /\ PosInv /\ [Next]_vars => PosInv'
<1> SUFFICES ASSUME IInv, PosInv, [Next]_vars
             PROVE  PosInv'
  OBVIOUS
<1>1. CASE DtmStep /\ TapTick /\ UNCHANGED dtmVars
  BY <1>1, TickPos
<1>2. ASSUME line = "rest", line' \in {"select_dr", "run"}, tap' = tap
      PROVE  PosInv'
  BY <1>2 DEF PosInv, TapAt, OffAt
<1>3. ASSUME NEW f, NEW bits, BeginScan(f, bits)
      PROVE  PosInv'
  BY <1>2, <1>3 DEF BeginScan, BeginShift, targetVars
<1>4. CASE Selected \/ ScannedWait \/ ReadBusy
  BY <1>2, <1>4 DEF Selected, ScannedWait, ReadBusy, BeginIdle, BeginShift, BeginRun, targetVars
<1>5. ASSUME UNCHANGED <<tapVars, tap>>
      PROVE  PosInv'
  BY <1>5 DEF tapVars, PosInv, TapAt, OffAt, GoAt
<1>6. CASE Scanned \/ Waited \/ ReturnDone \/ ReturnFailed \/ ReturnNone \/ AccessDone \/ AccessFails
           \/ UNCHANGED vars
  BY <1>5, <1>6 DEF Scanned, Waited, ReturnDone, ReturnFailed, ReturnNone, Return, AccessDone, AccessFails,
                    RequestDone, RequestFails, vars, targetVars
<1>7. CASE Connect
  <2>1. line = "rest" /\ line' = "go_idle" /\ i' = 0 /\ tap' = tap
    BY <1>7 DEF Connect, BeginInit, BeginGoIdle, targetVars
  <2> QED
    BY <2>1 DEF PosInv, TapAt, OffAt, GoAt
<1>8. CASE LosePower
  <2>1. line = "rest" /\ line' = "rest" /\ tap' = "TestLogicReset"
    BY <1>8 DEF LosePower, PowerCycle, tapVars
  <2> QED
    BY <2>1 DEF PosInv, TapAt, OffAt
<1>9. CASE CallNop \/ CallRead \/ CallWrite \/ CallReadVector \/ CallWriteVector
  BY <1>3, <1>9, Zenon DEF CallNop, CallRead, CallWrite, CallReadVector, CallWriteVector,
                           CallAccess, Nop, Scan
<1>10. CASE InitIdcode \/ InitDtmcs \/ OpNext \/ OpLast \/ ReadAgain \/ ReadGivesUp \/ NotOk
  BY <1>3, <1>10, Zenon DEF InitIdcode, InitDtmcs, OpNext, OpLast, ReadAgain, ReadGivesUp, NotOk,
                            Reset, Nop, Scan
<1> QED
  BY <1>1, <1>4, <1>6, <1>7, <1>8, <1>9, <1>10 DEF Next, Host, DtmStep

LEMMA InitPos == Init => PosInv
BY DEF Init, TargetInit, TapInit, PosInv, TapAt, OffAt

-----------------------------------------------------------------------------
(***************************************************************************)
(* The third layer: types, and how much has come out of a register.        *)
(***************************************************************************)
DrLen == IF ir \in {IDCODE, DTMCS} THEN WordBits ELSE IF ir = DMI THEN DmiBits ELSE 1
DrTotal == DrPre + DrLen + DrPost

\* What lies between TDI and TDO is as long as the registers of all devices.
TargetInv ==
  /\ TargetTypeOK
  /\ Len(sr) > 0
  /\ tap \in {"ShiftIR", "Exit1IR", "PauseIR", "Exit2IR"} => Len(sr) = IrTotal
  /\ tap \in {"ShiftDR", "Exit1DR"} => Len(sr) = DrTotal

LEMMA PieceType ==
  ASSUME NEW s \in Seq(Bit), NEW f \in Nat, NEW k \in Nat, f + k <= Len(s)
  PROVE  /\ SubSeq(s, f + 1, f + k) \in Seq(Bit) /\ Len(SubSeq(s, f + 1, f + k)) = k
         /\ SubSeq(s, f + 1, f + k) \in Word(k)
         /\ \A m \in 1 .. k : SubSeq(s, f + 1, f + k)[m] = s[f + m]
<1> DEFINE p == SubSeq(s, f + 1, f + k)
<1>1. p \in Seq(Bit) /\ Len(p) = k /\ \A m \in 1 .. k : p[m] = s[f + m]
  OBVIOUS
<1> HIDE DEF p
<1>2. p \in Word(k)
  BY <1>1, LenProperties DEF Word
<1> QED
  BY <1>1, <1>2 DEF p

LEMMA PosTap ==
  ASSUME IInv, PosInv
  PROVE  tap \in TapStates \ {"PauseDR", "Exit2DR"}
BY DEF IInv, ScanInv, Lines, PosInv, TapAt, OffAt, GoAt, TapStates, WhenLow

LEMMA CapturedIr ==
  ASSUME tap = "CaptureIR", NEW tdi
  PROVE  /\ ShiftRegister(tdi) \in Seq(Bit) /\ Len(ShiftRegister(tdi)) = IrTotal
         /\ \A m \in 1 .. 5 : ShiftRegister(tdi)[IrPre + m] = IF m = 1 THEN 1 ELSE 0
         /\ \A m \in 1 .. IrPost : ShiftRegister(tdi)[IrPre + 5 + m] = IF m = 1 THEN 1 ELSE 0
<1> DEFINE a == Captured(IrPre)
           b == Captured(IrBits)
           c == Captured(IrPost)
           abc == a \o b \o c
<1>1. \A k \in Nat : /\ Captured(k) \in Seq(Bit) /\ Len(Captured(k)) = k
                     /\ \A m \in 1 .. k : Captured(k)[m] = IF m = 1 THEN 1 ELSE 0
  BY DEF Captured, Bit
<1>2. IrPre \in Nat /\ IrPost \in Nat /\ IrBits = 5 /\ IrBits \in Nat
  BY Widths
<1>3. a \in Seq(Bit) /\ b \in Seq(Bit) /\ c \in Seq(Bit)
  BY <1>1, <1>2
<1>4. /\ Len(a) = IrPre /\ Len(b) = 5 /\ Len(c) = IrPost
      /\ \A m \in 1 .. 5 : b[m] = IF m = 1 THEN 1 ELSE 0
      /\ \A m \in 1 .. IrPost : c[m] = IF m = 1 THEN 1 ELSE 0
  BY <1>1, <1>2
<1>5. ShiftRegister(tdi) = abc
  BY DEF ShiftRegister
<1> HIDE DEF a, b, c
<1>6. /\ abc \in Seq(Bit) /\ Len(abc) = Len(a) + Len(b) + Len(c)
      /\ \A k \in 1 .. Len(b) : abc[Len(a) + k] = b[k]
      /\ \A k \in 1 .. Len(c) : abc[Len(a) + Len(b) + k] = c[k]
  BY <1>3, ConcatThree, ZenonT(60)
<1> HIDE DEF abc
<1>7. /\ Len(abc) = IrTotal
      /\ \A m \in 1 .. 5 : abc[IrPre + m] = b[m]
      /\ \A m \in 1 .. IrPost : abc[IrPre + 5 + m] = c[m]
  BY <1>4, <1>6, Widths
<1> QED
  <2>1. abc \in Seq(Bit) /\ Len(abc) = IrTotal
    BY <1>6, <1>7
  <2>2. /\ \A m \in 1 .. 5 : abc[IrPre + m] = IF m = 1 THEN 1 ELSE 0
        /\ \A m \in 1 .. IrPost : abc[IrPre + 5 + m] = IF m = 1 THEN 1 ELSE 0
    BY <1>4, <1>7
  <2> QED
    BY <1>5, <2>1, <2>2

\* What Capture-DR loads for the target.
LEMMA DrCapturedType ==
  ASSUME TargetTypeOK
  PROVE  DrCaptured \in Seq(Bit) /\ Len(DrCaptured) = DrLen
<1>1. IDCODE # DTMCS /\ IDCODE # DMI /\ DTMCS # DMI
  BY DEF IDCODE, DTMCS, DMI
<1>2. CASE ir = IDCODE
  <2>1. DrCaptured = <<1, 0, 0, 0, 0>> /\ DrLen = 5
    BY <1>1, <1>2 DEF DrCaptured, IdCodeWord, DrLen, WordBits
  <2> QED
    BY <2>1 DEF Bit
<1>3. CASE ir = DTMCS
  <2>1. DtmIdle % 2 \in Bit /\ DtmIdle \div 2 \in Bit
    BY ChainAssumption DEF Bit
  <2> QED
    BY <1>1, <1>3, <2>1 DEF DrCaptured, DtmcsWord, DrLen, WordBits, Bit
<1>4. CASE ir = DMI
  <2> DEFINE a == IF Busy THEN ResultBusy ELSE sticky
             b == response
             c == Zeros(AddrBits)
             abc == a \o b \o c
  <2>1. DrCaptured = abc
    BY <1>1, <1>4 DEF DrCaptured
  <2>2. a \in Seq(Bit) /\ Len(a) = 2
    <3>1. a \in {<<0, 0>>, <<0, 1>>, <<1, 1>>}
      BY DEF TargetTypeOK, ResultBusy, ResultDone, ResultFail
    <3> HIDE DEF a
    <3>2. CASE a = <<0, 0>>
      BY <3>2 DEF Bit
    <3>3. CASE a = <<0, 1>>
      BY <3>3 DEF Bit
    <3>4. CASE a = <<1, 1>>
      BY <3>4 DEF Bit
    <3> QED
      BY <3>1, <3>2, <3>3, <3>4
  <2>3. b \in Seq(Bit) /\ Len(b) = DataBits /\ c \in Seq(Bit) /\ Len(c) = AddrBits
    BY WordIsSeq, ZerosType, Widths DEF TargetTypeOK
  <2> HIDE DEF a, b, c
  <2>4. abc \in Seq(Bit) /\ Len(abc) = Len(a) + Len(b) + Len(c)
    BY <2>2, <2>3, ConcatThree, ZenonT(60)
  <2> HIDE DEF abc
  <2> QED
    BY <1>1, <1>4, <2>1, <2>2, <2>3, <2>4, Widths DEF DrLen
<1>5. CASE ir \notin {IDCODE, DTMCS, DMI}
  <2>1. DrCaptured = <<0>> /\ DrLen = 1
    BY <1>5 DEF DrCaptured, DrLen
  <2> QED
    BY <2>1 DEF Bit
<1> QED
  BY <1>2, <1>3, <1>4, <1>5

LEMMA DrLenType == DrLen \in Nat /\ DrLen > 0 /\ DrTotal \in Nat /\ DrTotal > 0
BY Widths DEF DrLen, DrTotal

LEMMA CapturedDr ==
  ASSUME TargetTypeOK, tap = "CaptureDR", NEW tdi
  PROVE  /\ ShiftRegister(tdi) \in Seq(Bit) /\ Len(ShiftRegister(tdi)) = DrTotal
         /\ \A m \in 1 .. DrLen : ShiftRegister(tdi)[DrPre + m] = DrCaptured[m]
<1> DEFINE a == Zeros(DrPre)
           b == DrCaptured
           c == Zeros(DrPost)
           abc == a \o b \o c
<1>1. /\ a \in Seq(Bit) /\ b \in Seq(Bit) /\ c \in Seq(Bit)
      /\ Len(a) = DrPre /\ Len(b) = DrLen /\ Len(c) = DrPost
  BY DrCapturedType, ZerosType, Widths
<1>2. ShiftRegister(tdi) = abc
  BY DEF ShiftRegister
<1> HIDE DEF a, b, c
<1>3. /\ abc \in Seq(Bit) /\ Len(abc) = Len(a) + Len(b) + Len(c)
      /\ \A k \in 1 .. Len(b) : abc[Len(a) + k] = b[k]
  BY <1>1, ConcatThree, ZenonT(60)
<1>4. \A k \in 1 .. Len(b) : abc[DrPre + k] = b[k]
  BY <1>1, <1>3
<1> HIDE DEF abc
<1> QED
  BY <1>1, <1>2, <1>3, <1>4 DEF DrTotal, b

\* The fields of the word that Update-DR finds.
LEMMA DmiWord ==
  ASSUME sr \in Seq(Bit), ir = DMI, Len(sr) = DrTotal, NEW word, word = Ours(DrPre, DmiBits)
  PROVE  /\ word \in Seq(Bit) /\ Len(word) = DmiBits
         /\ \A m \in 1 .. DmiBits : word[m] = sr[DrPre + m]
         /\ SubSeq(word, 1, 2) \in Word(2)
         /\ SubSeq(word, 3, 2 + DataBits) \in Word(DataBits)
         /\ SubSeq(word, 3 + DataBits, DmiBits) \in Word(AddrBits)
         /\ \A m \in 1 .. 2 : SubSeq(word, 1, 2)[m] = word[m]
         /\ \A m \in 1 .. DataBits : SubSeq(word, 3, 2 + DataBits)[m] = word[2 + m]
         /\ \A m \in 1 .. AddrBits :
              SubSeq(word, 3 + DataBits, DmiBits)[m] = word[2 + DataBits + m]
<1>1. IDCODE # DMI /\ DTMCS # DMI
  BY DEF IDCODE, DTMCS, DMI
<1>2. DrTotal = DrPre + DmiBits + DrPost
  BY <1>1 DEF DrTotal, DrLen
<1>3. DrPre + DmiBits <= Len(sr) /\ DrPre \in Nat /\ DmiBits \in Nat
  BY <1>2, Widths
<1>4. word \in Seq(Bit) /\ Len(word) = DmiBits /\ \A m \in 1 .. DmiBits : word[m] = sr[DrPre + m]
  BY <1>3, PieceType DEF Ours
<1> DEFINE e == 0
           f == 2
           g == 2 + DataBits
<1>5. /\ e \in Nat /\ f \in Nat /\ g \in Nat /\ DataBits \in Nat /\ AddrBits \in Nat
      /\ e + 1 = 1 /\ e + f = 2 /\ f + 1 = 3 /\ f = 2 /\ e = 0 /\ f + DataBits = 2 + DataBits
      /\ g = 2 + DataBits /\ g + 1 = 3 + DataBits /\ g + AddrBits = DmiBits
      /\ e + f <= Len(word) /\ f + DataBits <= Len(word) /\ g + AddrBits <= Len(word)
  BY <1>4, Widths
<1> HIDE DEF e, f, g
<1>6. /\ SubSeq(word, e + 1, e + f) \in Word(f)
      /\ \A m \in 1 .. f : SubSeq(word, e + 1, e + f)[m] = word[e + m]
  BY <1>4, <1>5, PieceType
<1>7. /\ SubSeq(word, f + 1, f + DataBits) \in Word(DataBits)
      /\ \A m \in 1 .. DataBits : SubSeq(word, f + 1, f + DataBits)[m] = word[f + m]
  <2>1. f \in Nat /\ DataBits \in Nat /\ f + DataBits <= Len(word) /\ word \in Seq(Bit)
    BY <1>4, <1>5
  <2> QED
    BY <2>1, PieceType
<1>8. /\ SubSeq(word, g + 1, g + AddrBits) \in Word(AddrBits)
      /\ \A m \in 1 .. AddrBits : SubSeq(word, g + 1, g + AddrBits)[m] = word[g + m]
  <2>1. g \in Nat /\ AddrBits \in Nat /\ g + AddrBits <= Len(word) /\ word \in Seq(Bit)
    BY <1>4, <1>5
  <2> QED
    BY <2>1, PieceType
<1>9. SubSeq(word, 1, 2) \in Word(2) /\ \A m \in 1 .. 2 : SubSeq(word, 1, 2)[m] = word[m]
  BY <1>5, <1>6
<1>10. /\ SubSeq(word, 3, 2 + DataBits) \in Word(DataBits)
       /\ \A m \in 1 .. DataBits : SubSeq(word, 3, 2 + DataBits)[m] = word[2 + m]
  BY <1>5, <1>7
<1>11. /\ SubSeq(word, 3 + DataBits, DmiBits) \in Word(AddrBits)
       /\ \A m \in 1 .. AddrBits :
            SubSeq(word, 3 + DataBits, DmiBits)[m] = word[2 + DataBits + m]
  BY <1>5, <1>8
<1> QED
  BY <1>4, <1>9, <1>10, <1>11

LEMMA EdgeSr ==
  ASSUME TargetInv, NEW tms, NEW tdi \in Bit, Edge(tms, tdi)
  PROVE  /\ sr' \in Seq(Bit) /\ Len(sr') > 0
         /\ tap = "CaptureIR" => Len(sr') = IrTotal
         /\ tap = "CaptureDR" => Len(sr') = DrTotal
         /\ tap \notin {"CaptureIR", "CaptureDR"} => Len(sr') = Len(sr)
<1>0. sr' = ShiftRegister(tdi) /\ sr \in Seq(Bit) /\ Len(sr) > 0 /\ TargetTypeOK
  BY DEF Edge, TargetInv, TargetTypeOK
<1>1. CASE tap = "CaptureIR"
  BY <1>0, <1>1, CapturedIr, Widths
<1>2. CASE tap = "CaptureDR"
  BY <1>0, <1>2, CapturedDr, DrLenType
<1>3. CASE tap \in {"ShiftIR", "ShiftDR"}
  <2>1. sr' = Append(Tail(sr), tdi)
    BY <1>0, <1>3 DEF ShiftRegister
  <2> QED
    BY <1>0, <1>3, <2>1
<1>4. CASE tap \notin {"CaptureIR", "CaptureDR", "ShiftIR", "ShiftDR"}
  <2>1. sr' = sr
    BY <1>0, <1>4 DEF ShiftRegister
  <2> QED
    BY <1>0, <1>4, <2>1
<1> QED
  BY <1>1, <1>2, <1>3, <1>4

LEMMA EdgeTap ==
  ASSUME tap \in TapStates \ {"PauseDR", "Exit2DR"}, NEW tms \in {0, 1}, NEW tdi, Edge(tms, tdi)
  PROVE  /\ tap' \in TapStates
         /\ tap' = "UpdateDR" => tap = "Exit1DR"
         /\ tap' = "UpdateIR" => tap \in {"Exit1IR", "Exit2IR"}
         /\ tap' \in {"ShiftDR", "Exit1DR"} => tap \in {"CaptureDR", "ShiftDR"}
         /\ tap' \in {"ShiftIR", "Exit1IR", "PauseIR", "Exit2IR"} =>
              tap \in {"CaptureIR", "ShiftIR", "Exit1IR", "PauseIR", "Exit2IR"}
         /\ tap \in {"CaptureDR", "ShiftDR", "Exit1DR"} => ir' = ir
<1>1. tap' = IF tms = 0 THEN WhenLow[tap] ELSE WhenHigh[tap]
  BY DEF Edge, TapNext
<1>2. /\ tap' \in TapStates
      /\ tap' = "UpdateDR" => tap = "Exit1DR"
      /\ tap' = "UpdateIR" => tap \in {"Exit1IR", "Exit2IR"}
      /\ tap' \in {"ShiftDR", "Exit1DR"} => tap \in {"CaptureDR", "ShiftDR"}
      /\ tap' \in {"ShiftIR", "Exit1IR", "PauseIR", "Exit2IR"} =>
           tap \in {"CaptureIR", "ShiftIR", "Exit1IR", "PauseIR", "Exit2IR"}
      /\ tap \in {"CaptureDR", "ShiftDR", "Exit1DR"} => tap' \notin {"TestLogicReset", "UpdateIR"}
  BY <1>1 DEF TapStates, WhenLow, WhenHigh
<1> QED
  BY <1>2 DEF Edge

LEMMA EdgeKeeps ==
  ASSUME TargetInv, tap \in TapStates \ {"PauseDR", "Exit2DR"},
         NEW tms \in {0, 1}, NEW tdi \in Bit, Edge(tms, tdi)
  PROVE  TargetInv'
<1>1. sr' \in Seq(Bit) /\ Len(sr') > 0
  BY EdgeSr
<1>2. response' = response /\ dm' = dm /\ tap' \in TapStates
  BY EdgeTap DEF Edge
<1>3. ir' \in Word(IrBits)
  <2>1. IDCODE \in Word(IrBits)
    BY InstructionType, WordIsSeq, Widths, LenProperties DEF Instructions, Word
  <2>2. CASE tap' = "UpdateIR"
    <3>1. Len(sr) = IrTotal /\ sr \in Seq(Bit)
      BY <2>2, EdgeTap DEF TargetInv, TargetTypeOK
    <3>2. Ours(IrPre, IrBits) \in Word(IrBits)
      BY <3>1, Widths, PieceType DEF Ours
    <3> QED
      BY <2>2, <3>2 DEF Edge
  <2> QED
    BY <2>1, <2>2 DEF Edge, TargetInv, TargetTypeOK
<1>4. request' \in Requests \cup {NoRequest}
  <2>1. CASE tap' = "UpdateDR" /\ ir = DMI
    <3>1. sr \in Seq(Bit) /\ Len(sr) = DrTotal
      BY <2>1, EdgeTap DEF TargetInv, TargetTypeOK
    <3> DEFINE word == Ours(DrPre, DmiBits)
    <3>2. /\ SubSeq(word, 3, 2 + DataBits) \in Word(DataBits)
          /\ SubSeq(word, 3 + DataBits, DmiBits) \in Word(AddrBits)
      BY <2>1, <3>1, DmiWord
    <3>3. request' = DmiUpdate
      BY <2>1 DEF Edge
    <3> QED
      BY <3>2, <3>3 DEF DmiUpdate, Requests, TargetInv, TargetTypeOK
  <2> QED
    BY <2>1 DEF Edge, TargetInv, TargetTypeOK
<1>5. sticky' \in {ResultDone, ResultFail, ResultBusy}
  BY DEF Edge, Sticky, TargetInv, TargetTypeOK
<1>6. tap' \in {"ShiftIR", "Exit1IR", "PauseIR", "Exit2IR"} => Len(sr') = IrTotal
  BY EdgeSr, EdgeTap DEF TargetInv
<1>7. tap' \in {"ShiftDR", "Exit1DR"} => Len(sr') = DrTotal'
  <2> SUFFICES ASSUME tap' \in {"ShiftDR", "Exit1DR"}
               PROVE  Len(sr') = DrTotal'
    OBVIOUS
  <2>1. ir' = ir /\ tap \in {"CaptureDR", "ShiftDR"}
    BY EdgeTap
  <2>2. DrTotal' = DrTotal
    BY <2>1 DEF DrTotal, DrLen
  <2> QED
    BY <2>1, <2>2, EdgeSr DEF TargetInv
<1> QED
  BY <1>1, <1>2, <1>3, <1>4, <1>5, <1>6, <1>7 DEF TargetInv, TargetTypeOK

\* How many bits have come out of the target's register.
CameOut == IF i < Pre THEN 0 ELSE IF i > Pre + Len(new) THEN Len(new) ELSE i - Pre

OldInv ==
  /\ old \in Seq(Bit) /\ limit \in Nat /\ idle \in 0 .. 2
  /\ line \in {"select_dr", "select_ir", "capture", "enter"} => old = <<>>
  /\ line = "shift" => Len(old) = CameOut
  /\ dtmPc = "dr" /\ line \in {"update", "idle", "rest"} => Len(old) = Len(in)
  /\ pc \in {"op", "nop"} /\ dtmPc \in {"run", "rest"} => Len(old) = DmiBits

LEMMA TdoType ==
  ASSUME TargetInv
  PROVE  Tdo \in Bit
BY DEF TargetInv, TargetTypeOK, Tdo, Bit

LEMMA ShiftStep ==
  ASSUME TapTick, line = "shift"
  PROVE  /\ i' = i + 1 /\ UNCHANGED <<which, limit, new>>
         /\ line' = IF LastTick THEN "update" ELSE "shift"
         /\ \/ TickBypass /\ (i < Pre \/ i >= Pre + Len(new)) /\ old' = old
            \/ TickBit /\ i >= Pre /\ i < Pre + Len(new) /\ old' = Append(old, Tdo)
BY DEF TapTick, TickSelectDr, TickSelectIr, TickCapture, TickEnter, TickBypass,
       TickBit, TickUpdate, TickIdle, TickGoIdle, TickRun, Tick, ShiftLoop

LEMMA TickOld ==
  ASSUME IInv, CodeInv, OldInv, TargetInv, TapTick, UNCHANGED <<dtmVars, pc>>
  PROVE  OldInv'
<1>0. pc' = pc /\ dtmPc' = dtmPc /\ in' = in /\ idle' = idle
  BY DEF dtmVars
<1>1. CASE line = "shift"
  <2>1. /\ Pre \in Nat /\ Post \in Nat /\ Len(new) \in Nat /\ Len(new) > 0
        /\ Total = Pre + Len(new) + Post /\ i \in 0 .. Total - 1 /\ dtmPc \in {"ir", "dr"}
        /\ dtmPc = "dr" => Len(new) = Len(in)
    BY <1>1, ScanLengths DEF CodeInv, ScanWords
  <2>0. LastTick <=> i = Total - 1
    BY <2>1 DEF LastTick
  <2>2. /\ i' = i + 1 /\ which' = which /\ limit' = limit /\ new' = new
        /\ line' = IF LastTick THEN "update" ELSE "shift"
        /\ \/ (i < Pre \/ i >= Pre + Len(new)) /\ old' = old
           \/ i >= Pre /\ i < Pre + Len(new) /\ old' = Append(old, Tdo)
    BY <1>1, ShiftStep
  <2>3. Pre' = Pre
    BY <2>2 DEF Pre
  <2>4. old \in Seq(Bit) /\ Len(old) = CameOut /\ Tdo \in Bit
    BY <1>1, TdoType DEF OldInv
  <2>5. old' \in Seq(Bit)
    BY <2>2, <2>4
  <2>6. Len(old') = IF i + 1 < Pre THEN 0 ELSE IF i + 1 > Pre + Len(new) THEN Len(new) ELSE i + 1 - Pre
    <3>1. CASE i < Pre \/ i >= Pre + Len(new)
      <4>1. old' = old
        BY <2>1, <2>2, <3>1
      <4> QED
        BY <2>1, <2>4, <3>1, <4>1 DEF CameOut
    <3>2. CASE i >= Pre /\ i < Pre + Len(new)
      <4>1. old' = Append(old, Tdo)
        BY <2>1, <2>2, <3>2
      <4>2. Len(old') = Len(old) + 1
        BY <2>4, <4>1
      <4> QED
        BY <2>1, <2>4, <3>2, <4>2 DEF CameOut
    <3> QED
      BY <2>1, <3>1, <3>2
  <2>7. CameOut' = IF i + 1 < Pre THEN 0 ELSE IF i + 1 > Pre + Len(new) THEN Len(new) ELSE i + 1 - Pre
    <3>1. i' = i + 1 /\ new' = new /\ Pre' = Pre
      BY <2>2, <2>3
    <3>2. CameOut' = IF i' < Pre THEN 0 ELSE IF i' > Pre + Len(new) THEN Len(new) ELSE i' - Pre
      BY <3>1 DEF CameOut
    <3> QED
      BY <2>1, <3>1, <3>2
  <2>8. line' = "update" => Len(old') = Len(new)
    BY <2>0, <2>1, <2>2, <2>6
  <2> QED
    BY <1>0, <2>1, <2>2, <2>5, <2>6, <2>7, <2>8 DEF OldInv
<1>2. CASE line # "shift"
  <2>1. /\ old' = old /\ limit' = limit /\ new' = new /\ which' = which /\ line # "rest"
        /\ line' \in {"select_dr", "select_ir", "capture", "enter"} =>
             line \in {"select_dr", "select_ir", "capture", "enter"}
        /\ line' = "shift" => line = "enter" /\ i' = i
        /\ line' \in {"update", "idle", "rest"} => line \in {"update", "idle", "go_idle", "run"}
    BY <1>2 DEF TapTick, TickSelectDr, TickSelectIr, TickCapture, TickEnter, TickBypass,
         TickBit, TickUpdate, TickIdle, TickGoIdle, TickRun, Tick, ShiftLoop
  <2>2. line' = "shift" => Len(old') = CameOut'
    <3> SUFFICES ASSUME line' = "shift"
                 PROVE  Len(old') = CameOut'
      OBVIOUS
    <3>1. i' = 0 /\ old' = <<>> /\ Pre \in Nat /\ Len(new) \in Nat /\ Pre' = Pre
      BY <2>1, ScanLengths DEF CodeInv, ScanWords, OldInv, Pre
    <3> QED
      BY <2>1, <3>1 DEF CameOut
  <2>3. dtmPc = "dr" => line \notin {"run", "go_idle"}
    BY DEF IInv, ScanInv
  <2> QED
    BY <1>0, <2>1, <2>2, <2>3 DEF OldInv
<1> QED
  BY <1>1, <1>2

LEMMA TickEdge ==
  ASSUME CodeInv, TapTick
  PROVE  UNCHANGED targetVars \/ \E tms \in {0, 1}, tdi \in Bit : Edge(tms, tdi)
<1>1. 1 \in Bit
  BY DEF Bit
<1>2. CASE TickSelectDr \/ TickSelectIr \/ TickCapture \/ TickEnter \/ TickUpdate \/ TickIdle
  BY <1>1, <1>2 DEF TickSelectDr, TickSelectIr, TickCapture, TickEnter, TickUpdate, TickIdle, Tick
<1>3. CASE TickBypass
  BY <1>1, <1>3 DEF TickBypass, LeaveShift
<1>4. CASE TickBit
  <2>1. i >= Pre /\ i < Pre + Len(new) /\ Edge(LeaveShift, new[i - Pre + 1])
    BY <1>4 DEF TickBit
  <2>2. new \in Seq(Bit) /\ i \in Nat /\ Pre \in Nat
    BY Widths DEF CodeInv, CodeType, Pre
  <2>3. new[i - Pre + 1] \in Bit
    BY <2>1, <2>2
  <2> QED
    BY <2>1, <2>3 DEF LeaveShift
<1>5. CASE TickGoIdle \/ TickRun
  BY <1>1, <1>5 DEF TickGoIdle, TickRun
<1> QED
  BY <1>2, <1>3, <1>4, <1>5 DEF TapTick

LEMMA TickTarget ==
  ASSUME IInv, PosInv, CodeInv, TargetInv, TapTick
  PROVE  TargetInv'
<1>1. CASE UNCHANGED targetVars
  BY <1>1 DEF targetVars, TargetInv, TargetTypeOK, DrTotal, DrLen
<1>2. CASE \E tms \in {0, 1}, tdi \in Bit : Edge(tms, tdi)
  BY <1>2, PosTap, EdgeKeeps
<1> QED
  BY <1>1, <1>2, TickEdge

\* What the access itself and a loss of power do to the target.
LEMMA AccessTarget ==
  ASSUME TargetInv, RequestDone \/ RequestFails
  PROVE  TargetInv'
<1>1. /\ UNCHANGED <<tap, ir, sr>> /\ request' = NoRequest
      /\ sticky' \in {sticky, ResultFail}
  BY DEF RequestDone, RequestFails
<1>2. request \in Requests
  BY DEF TargetInv, TargetTypeOK, RequestDone, RequestFails, Busy
<1>3. /\ request.addr \in Word(AddrBits) /\ request.data \in Word(DataBits)
      /\ dm \in [Word(AddrBits) -> Word(DataBits)] /\ response \in Word(DataBits)
  BY <1>2 DEF Requests, TargetInv, TargetTypeOK
<1>4. response' \in Word(DataBits) /\ dm' \in [Word(AddrBits) -> Word(DataBits)]
  <2>1. CASE response' = response /\ dm' \in {dm, [dm EXCEPT ![request.addr] = request.data]}
    BY <1>3, <2>1
  <2>2. CASE response' = dm[request.addr] /\ dm' = dm
    BY <1>3, <2>2
  <2> QED
    BY <2>1, <2>2 DEF RequestDone, RequestFails
<1> QED
  BY <1>1, <1>4 DEF TargetInv, TargetTypeOK, DrTotal, DrLen

LEMMA PowerTarget ==
  ASSUME PowerCycle
  PROVE  TargetInv'
<1>1. /\ tap' = "TestLogicReset" /\ ir' = IDCODE /\ sr' = <<0>>
      /\ request' = NoRequest /\ response' = Zeros(DataBits) /\ sticky' = ResultDone
      /\ dm' = [a \in Word(AddrBits) |-> Zeros(DataBits)]
  BY DEF PowerCycle
<1>2. Zeros(DataBits) \in Word(DataBits)
  BY Widths, ZerosType
<1>3. IDCODE \in Word(IrBits)
  BY InstructionType, WordIsSeq, Widths, LenProperties DEF Instructions, Word
<1>4. sr' \in Seq(Bit) /\ Len(sr') > 0 /\ tap' \in TapStates
  BY <1>1 DEF Bit, TapStates, WhenLow
<1> QED
  BY <1>1, <1>2, <1>3, <1>4 DEF TargetInv, TargetTypeOK

LEMMA InitTarget == TargetInit => TargetInv
<1> SUFFICES ASSUME TargetInit
             PROVE  TargetInv
  OBVIOUS
<1>1. Zeros(DataBits) \in Word(DataBits)
  BY Widths, ZerosType
<1>2. IDCODE \in Word(IrBits)
  BY InstructionType, WordIsSeq, Widths, LenProperties DEF Instructions, Word
<1>3. sr \in Seq(Bit) /\ Len(sr) > 0 /\ tap \in TapStates
  BY DEF TargetInit, Bit, TapStates, WhenLow
<1>4. tap = "TestLogicReset"
  BY DEF TargetInit
<1> QED
  BY <1>1, <1>2, <1>3, <1>4 DEF TargetInit, TargetInv, TargetTypeOK

\* What the call has read so far, and what is only remembered for the proof.
CallTypes ==
  /\ buffer \in Seq(Word(DataBits))
  /\ pc \in {"op", "pause"} => buffer = <<>>
  /\ pc = "nop" => IF kind = "read_vector" THEN Len(buffer) = 1 ELSE buffer = <<>>
  /\ answer \in [done : BOOLEAN, data : Seq(Word(DataBits))]
  /\ made \in Nat /\ mine \in BOOLEAN /\ got \in Seq(Word(DataBits))
  /\ trusted \in BOOLEAN /\ cycles \in 0 .. MaxCycles

TypeInv == TargetInv /\ OldInv /\ CallTypes

LEMMA DataOutType ==
  ASSUME old \in Seq(Bit), Len(old) = DmiBits
  PROVE  /\ DataOut \in Word(DataBits) /\ \A m \in 1 .. DataBits : DataOut[m] = old[2 + m]
         /\ OpOut \in Seq(Bit) /\ Len(OpOut) = 2 /\ OpOut = <<old[1], old[2]>>
<1> DEFINE f == 2
<1>1. f \in Nat /\ f + 1 = 3 /\ f = 2
  OBVIOUS
<1> HIDE DEF f
<1>2. DataBits \in Nat /\ f + DataBits <= Len(old)
  BY <1>1, Widths
<1>3. /\ SubSeq(old, f + 1, f + DataBits) \in Word(DataBits)
      /\ \A m \in 1 .. DataBits : SubSeq(old, f + 1, f + DataBits)[m] = old[f + m]
  BY <1>1, <1>2, PieceType
<1>4. DataOut \in Word(DataBits) /\ \A m \in 1 .. DataBits : DataOut[m] = old[2 + m]
  BY <1>1, <1>3 DEF DataOut
<1>5. Len(old) >= 2
  BY Widths
<1> DEFINE e == 0
           p == SubSeq(old, e + 1, e + f)
<1>6. e \in Nat /\ e + 1 = 1 /\ e + f = 2 /\ e = 0
  BY <1>1
<1> HIDE DEF e
<1>7. p \in Seq(Bit) /\ Len(p) = f /\ \A m \in 1 .. f : p[m] = old[e + m]
  BY <1>1, <1>5, <1>6, PieceType
<1>8. p = OpOut
  BY <1>6 DEF OpOut
<1> HIDE DEF p
<1>9. Len(p) = 2 /\ p[1] = old[1] /\ p[2] = old[2]
  BY <1>1, <1>6, <1>7
<1>10. p = <<old[1], old[2]>>
  BY <1>7, <1>9
<1> QED
  BY <1>4, <1>7, <1>8, <1>9, <1>10

LEMMA OldQuiet ==
  ASSUME OldInv, UNCHANGED <<old, limit, idle, line, i, new, which, dtmPc, in, pc>>
  PROVE  OldInv'
BY DEF OldInv, CameOut, Pre

LEMMA BeginScanOld ==
  ASSUME OldInv, NEW f, NEW bits, BeginScan(f, bits)
  PROVE  OldInv'
<1>1. line' = "select_dr" /\ old' = <<>> /\ limit' = limit /\ idle' = idle /\ dtmPc' \in {"ir", "dr"}
  BY DEF BeginScan, BeginShift
<1> QED
  BY <1>1 DEF OldInv

LEMMA DtmStepOld ==
  ASSUME IInv, CodeInv, OldInv, Selected \/ ScannedWait \/ Scanned \/ Waited, pc' = pc
  PROVE  OldInv'
<1>1. CASE Selected
  <2>1. /\ line' = "select_dr" /\ old' = <<>> /\ limit' = limit /\ idle' = idle /\ dtmPc' = "dr"
    BY <1>1 DEF Selected, BeginShift
  <2> QED
    BY <2>1 DEF OldInv
<1>2. CASE ScannedWait
  <2>1. /\ dtmPc = "dr" /\ line = "rest" /\ dtmPc' = "run" /\ line' = "run" /\ limit' = idle
        /\ idle' = idle /\ old' = old /\ in' = in
    BY <1>2 DEF ScannedWait, BeginRun
  <2>2. Len(in) = FnBits /\ (pc \in {"op", "nop"} => fn = "dmi")
    BY <2>1 DEF CodeInv, ScanWords, CallOrder
  <2> QED
    BY <2>1, <2>2 DEF OldInv, FnBits
<1>3. CASE Scanned
  <2>1. /\ dtmPc = "dr" /\ line = "rest" /\ dtmPc' = "rest" /\ line' = "rest" /\ limit' = limit
        /\ old' = old /\ in' = in
    BY <1>3 DEF Scanned, tapVars
  <2>2. Len(in) = FnBits /\ (pc \in {"op", "nop"} => fn = "dmi")
    BY <2>1 DEF CodeInv, ScanWords, CallOrder
  <2>3. old \in Seq(Bit) /\ Len(old) = Len(in)
    BY <2>1 DEF OldInv
  <2>4. idle' \in 0 .. 2
    <3>1. CASE fn # "dtmcs"
      <4>1. idle' = idle
        BY <1>3, <3>1 DEF Scanned
      <4> QED
        BY <4>1 DEF OldInv
    <3>2. CASE fn = "dtmcs"
      <4>1. Len(old) = 5
        BY <2>2, <2>3, <3>2, Widths DEF FnBits
      <4>2. \A k \in 1 .. Len(old) : old[k] \in Bit
        BY <2>3
      <4>5. old[3] \in Bit /\ old[4] \in Bit
        BY <4>1, <4>2
      <4> DEFINE field == old[3] + 2 * old[4]
      <4>3. field \in 0 .. 3
        BY <4>5 DEF Bit
      <4>4. idle' = IF field > 0 THEN field - 1 ELSE field
        BY <1>3, <3>2 DEF Scanned
      <4> HIDE DEF field
      <4> QED
        BY <4>3, <4>4
    <3> QED
      BY <3>1, <3>2
  <2> QED
    BY <2>1, <2>2, <2>3, <2>4 DEF OldInv, FnBits
<1>4. CASE Waited
  <2>1. /\ dtmPc = "run" /\ line = "rest" /\ dtmPc' = "rest" /\ UNCHANGED <<tapVars, idle, in>>
    BY <1>4 DEF Waited
  <2> QED
    BY <2>1 DEF OldInv, tapVars
<1> QED
  BY <1>1, <1>2, <1>3, <1>4

LEMMA CallBegins ==
  ASSUME CallTypes, CallNop \/ CallRead \/ CallWrite \/ CallReadVector \/ CallWriteVector \/ Connect
  PROVE  CallTypes'
<1>1. ASSUME NEW k, NEW accesses, Call(k, accesses), trusted' \in BOOLEAN,
             pc' \in {"op", "init"} \/ (pc' = "nop" /\ k = "nop")
      PROVE  CallTypes'
  <2>1. /\ kind' = k /\ buffer' = <<>> /\ answer' = Failed
        /\ made' = 0 /\ mine' = FALSE /\ got' = <<>> /\ cycles' = cycles
    BY <1>1 DEF Call
  <2>2. buffer' \in Seq(Word(DataBits)) /\ got' \in Seq(Word(DataBits)) /\ made' \in Nat
    BY <2>1
  <2>5. mine' \in BOOLEAN
    BY <2>1, Zenon
  <2>3. answer' \in [done : BOOLEAN, data : Seq(Word(DataBits))]
    BY <2>1 DEF Failed
  <2>4. cycles' \in 0 .. MaxCycles
    BY <2>1 DEF CallTypes
  <2> QED
    BY <1>1, <2>1, <2>2, <2>3, <2>4, <2>5 DEF CallTypes
<1>2. ASSUME NEW k \in {"read", "write", "read_vector", "write_vector"}, NEW accesses,
             CallAccess(k, accesses)
      PROVE  CallTypes'
  <2>1. Call(k, accesses) /\ pc' = "op" /\ trusted' = trusted
    BY <1>2 DEF CallAccess, Call
  <2> QED
    BY <1>1, <2>1 DEF CallTypes
<1>3. CASE CallNop
  <2>1. Call("nop", <<>>) /\ pc' = "nop" /\ trusted' = trusted
    BY <1>3 DEF CallNop, Call
  <2> QED
    BY <1>1, <2>1 DEF CallTypes
<1>4. CASE Connect
  <2>1. Call("connect", <<>>) /\ pc' = "init" /\ trusted' = TRUE
    BY <1>4 DEF Connect
  <2> QED
    BY <1>1, <2>1 DEF CallTypes
<1>5. CASE CallRead \/ CallWrite \/ CallReadVector \/ CallWriteVector
  BY <1>2, <1>5 DEF CallRead, CallWrite, CallReadVector, CallWriteVector
<1> QED
  BY <1>3, <1>4, <1>5

LEMMA CallGoesOn ==
  ASSUME CodeInv, OldInv, CallTypes,
         \/ InitIdcode \/ InitDtmcs \/ OpNext \/ OpLast
         \/ ReadBusy \/ ReadAgain \/ ReadGivesUp \/ NotOk
  PROVE  CallTypes'
<1>0. kind' = kind /\ answer' = answer /\ made' = made /\ mine' = mine /\ got' = got
      /\ trusted' = trusted /\ cycles' = cycles
  BY DEF InitIdcode, InitDtmcs, OpNext, OpLast, ReadBusy, ReadAgain, ReadGivesUp, NotOk, Reset,
         Keep, historyVars
<1>1. CASE InitIdcode \/ InitDtmcs \/ ReadBusy \/ ReadGivesUp \/ NotOk
  <2>1. /\ buffer' = buffer /\ pc' \in {"idcode", "dtmcs", "pause", "reset"}
        /\ pc' = "pause" => pc = "nop" /\ kind = "read"
    BY <1>1 DEF InitIdcode, InitDtmcs, ReadBusy, ReadGivesUp, NotOk, Reset, Returned
  <2> QED
    BY <1>0, <2>1 DEF CallTypes
<1>2. CASE OpNext \/ OpLast
  <2>1. /\ pc = "op" /\ dtmPc = "rest" /\ n < Len(reqs) /\ n \in Nat
        /\ buffer = <<>>
    BY <1>2 DEF OpNext, OpLast, Returned, CodeInv, CodeType, CallShape, CallTypes
  <2>2. DataOut \in Word(DataBits)
    BY <2>1, DataOutType DEF OldInv
  <2>3. /\ buffer' = IF kind = "read_vector" /\ n > 0 THEN <<DataOut>> ELSE <<>>
    BY <1>2, <2>1 DEF OpNext, OpLast
  <2>4. CASE OpNext
    <3>1. pc' = "op" /\ (kind = "read_vector" => n = 0)
      <4>1. kind = "read_vector" => Len(reqs) = 2
        BY <2>1 DEF CodeInv, CallShape
      <4>2. n + 1 < Len(reqs) /\ pc' = pc
        BY <2>4 DEF OpNext
      <4>3. ASSUME kind = "read_vector" PROVE n = 0
        <5>1. Len(reqs) = 2
          BY <4>1, <4>3
        <5> QED
          BY <2>1, <4>2, <5>1
      <4> QED
        BY <2>1, <4>2, <4>3
    <3>2. buffer' = <<>>
      BY <2>3, <3>1
    <3> QED
      BY <1>0, <3>1, <3>2 DEF CallTypes
  <2>5. CASE OpLast
    <3>1. pc' = "nop" /\ (kind = "read_vector" => n = 1)
      <4>1. kind = "read_vector" => Len(reqs) = 2
        BY <2>1 DEF CodeInv, CallShape
      <4>2. n + 1 = Len(reqs) /\ pc' = "nop"
        BY <2>5 DEF OpLast
      <4>3. ASSUME kind = "read_vector" PROVE n = 1
        <5>1. Len(reqs) = 2
          BY <4>1, <4>3
        <5> QED
          BY <2>1, <4>2, <5>1
      <4> QED
        BY <2>1, <4>2, <4>3
    <3>2. buffer' = IF kind = "read_vector" THEN <<DataOut>> ELSE <<>>
      BY <2>3, <3>1
    <3>3. buffer' \in Seq(Word(DataBits)) /\ (kind = "read_vector" => Len(buffer') = 1)
      BY <2>2, <3>2
    <3> QED
      BY <1>0, <3>1, <3>2, <3>3 DEF CallTypes
  <2> QED
    BY <1>2, <2>4, <2>5
<1>3. CASE ReadAgain
  <2>1. pc = "pause" /\ kind = "read" /\ pc' = "nop" /\ buffer' = buffer
    BY <1>3 DEF ReadAgain, Returned, CodeInv, CallShape
  <2> QED
    BY <1>0, <2>1 DEF CallTypes
<1> QED
  BY <1>1, <1>2, <1>3

\* The bus and the loss of power change nothing of the call but what is
\* remembered of it.
LEMMA OutsideTypes ==
  ASSUME TypeInv, AccessDone \/ AccessFails \/ LosePower
  PROVE  TypeInv'
<1>1. TargetInv'
  BY AccessTarget, PowerTarget DEF TypeInv, AccessDone, AccessFails, LosePower
<1>2. OldInv'
  BY OldQuiet DEF TypeInv, AccessDone, AccessFails, LosePower, tapVars, dtmVars, callVars
<1>3. /\ pc' = pc /\ kind' = kind /\ buffer' = buffer /\ answer' = answer /\ mine' = FALSE
  BY DEF AccessDone, AccessFails, LosePower, callVars
<1>4. made' \in Nat
  BY DEF TypeInv, CallTypes, AccessDone, AccessFails, LosePower
<1>5. got' \in Seq(Word(DataBits))
  <2>1. got \in Seq(Word(DataBits)) /\ response' \in Word(DataBits)
    BY <1>1 DEF TypeInv, CallTypes, TargetInv, TargetTypeOK
  <2>2. got' = got \/ got' = Append(got, response')
    BY DEF AccessDone, AccessFails, LosePower
  <2> QED
    BY <2>1, <2>2
<1>6. trusted' \in BOOLEAN /\ cycles' \in 0 .. MaxCycles
  <2>1. CASE AccessDone \/ AccessFails
    BY <2>1 DEF TypeInv, CallTypes, AccessDone, AccessFails
  <2>2. CASE LosePower
    <3>1. trusted' = FALSE /\ cycles' = cycles + 1 /\ cycles < MaxCycles
      BY <2>2 DEF LosePower
    <3>2. cycles \in 0 .. MaxCycles /\ MaxCycles \in Nat
      BY DmiAssumption DEF TypeInv, CallTypes
    <3>3. cycles' \in 0 .. MaxCycles
      BY <3>1, <3>2
    <3> QED
      BY <3>1, <3>3, Zenon
  <2> QED
    BY <2>1, <2>2
<1>7. mine' \in BOOLEAN
  BY <1>3, Zenon
<1>8. CallTypes'
  BY <1>3, <1>4, <1>5, <1>6, <1>7 DEF TypeInv, CallTypes
<1> QED
  BY <1>1, <1>2, <1>8 DEF TypeInv

LEMMA ReturnTypes ==
  ASSUME CodeInv, TypeInv, ReturnDone \/ ReturnFailed \/ ReturnNone
  PROVE  TypeInv'
<1>1. /\ pc' = "idle" /\ buffer' = <<>> /\ made' = 0 /\ mine' = FALSE /\ got' = <<>>
      /\ UNCHANGED <<kind, trusted, cycles, targetVars, tapVars, dtmVars>>
  BY DEF ReturnDone, ReturnFailed, ReturnNone, Return
<1>2. TargetInv'
  BY <1>1 DEF targetVars, TypeInv, TargetInv, TargetTypeOK, DrTotal, DrLen
<1>3. OldInv'
  BY <1>1 DEF TypeInv, OldInv, tapVars, dtmVars, CameOut, Pre
<1>4. answer' \in [done : BOOLEAN, data : Seq(Word(DataBits))]
  <2>1. CASE answer' = Failed
    BY <2>1 DEF Failed
  <2>2. CASE ReturnDone
    <3>1. pc = "nop" /\ dtmPc = "rest"
      BY <2>2 DEF ReturnDone, Returned
    <3>2. DataOut \in Word(DataBits) /\ buffer \in Seq(Word(DataBits))
      BY <3>1, DataOutType DEF TypeInv, OldInv, CallTypes
    <3> DEFINE data == IF kind \in {"read", "read_vector"} THEN Append(buffer, DataOut) ELSE <<>>
    <3>3. data \in Seq(Word(DataBits))
      BY <3>2
    <3>4. answer' = [done |-> TRUE, data |-> data]
      BY <2>2 DEF ReturnDone, Return
    <3> HIDE DEF data
    <3> QED
      BY <3>3, <3>4
  <2> QED
    BY <2>1, <2>2 DEF ReturnFailed, ReturnNone, Return
<1>5. mine' \in BOOLEAN /\ buffer' \in Seq(Word(DataBits)) /\ got' \in Seq(Word(DataBits)) /\ made' \in Nat
  <2>1. mine' \in BOOLEAN
    BY <1>1, Zenon
  <2> QED
    BY <1>1, <2>1
<1>6. CallTypes'
  BY <1>1, <1>4, <1>5 DEF TypeInv, CallTypes
<1> QED
  BY <1>2, <1>3, <1>6 DEF TypeInv

LEMMA TypeStep == IInv /\ PosInv /\ CodeInv /\ TypeInv /\ [Next]_vars => TypeInv'
<1> SUFFICES ASSUME IInv, PosInv, CodeInv, TypeInv, [Next]_vars
             PROVE  TypeInv'
  OBVIOUS
<1>0. TargetInv /\ OldInv /\ CallTypes
  BY DEF TypeInv
<1>1. ASSUME UNCHANGED targetVars
      PROVE  TargetInv'
  BY <1>0, <1>1 DEF targetVars, TargetInv, TargetTypeOK, DrTotal, DrLen
<1>2. ASSUME NEW f, NEW bits, BeginScan(f, bits)
      PROVE  TargetInv' /\ OldInv'
  BY <1>0, <1>1, <1>2, BeginScanOld DEF BeginScan
<1>3. CASE DtmStep /\ UNCHANGED <<callVars, trusted, cycles>> /\
             IF request' # request THEN mine' = TRUE /\ UNCHANGED <<made, got>>
                                   ELSE UNCHANGED historyVars
  <2>1. CallTypes'
    <3>1. UNCHANGED <<pc, kind, buffer, answer, made, got, trusted, cycles>>
      BY <1>3 DEF callVars, historyVars
    <3>2. mine' \in BOOLEAN
      <4>1. mine' = TRUE \/ mine' = mine
        BY <1>3 DEF historyVars
      <4>2. mine \in BOOLEAN
        BY <1>0 DEF CallTypes
      <4> QED
        BY <4>1, <4>2, Zenon
    <3> QED
      BY <1>0, <3>1, <3>2 DEF CallTypes
  <2>2. pc' = pc
    BY <1>3 DEF callVars
  <2>3. CASE TapTick /\ UNCHANGED dtmVars
    BY <1>0, <2>1, <2>2, <2>3, TickTarget, TickOld DEF TypeInv
  <2>4. CASE Selected \/ ScannedWait \/ Scanned \/ Waited
    <3>1. UNCHANGED targetVars
      BY <2>4 DEF Selected, ScannedWait, Scanned, Waited
    <3> QED
      BY <1>0, <1>1, <2>1, <2>2, <2>4, <3>1, DtmStepOld DEF TypeInv
  <2> QED
    BY <1>3, <2>3, <2>4 DEF DtmStep
<1>4. CASE CallNop \/ CallRead \/ CallWrite \/ CallReadVector \/ CallWriteVector
  <2>1. TargetInv' /\ OldInv'
    BY <1>2, <1>4, Zenon DEF CallNop, CallRead, CallWrite, CallReadVector, CallWriteVector,
                             CallAccess, Nop, Scan
  <2> QED
    BY <1>0, <1>4, <2>1, CallBegins DEF TypeInv
<1>5. CASE Connect
  <2>1. /\ UNCHANGED <<targetVars, old, in, idle>> /\ line' = "go_idle" /\ limit' = 6
        /\ dtmPc' = "run" /\ pc' = "init"
    BY <1>5 DEF Connect, BeginInit, BeginGoIdle
  <2>2. OldInv'
    BY <1>0, <2>1 DEF OldInv
  <2> QED
    BY <1>0, <1>1, <1>5, <2>1, <2>2, CallBegins DEF TypeInv
<1>6. CASE InitIdcode \/ InitDtmcs \/ OpNext \/ OpLast \/ ReadAgain \/ ReadGivesUp \/ NotOk
  <2>1. TargetInv' /\ OldInv'
    BY <1>2, <1>6, Zenon DEF InitIdcode, InitDtmcs, OpNext, OpLast, ReadAgain, ReadGivesUp, NotOk,
                             Reset, Nop, Scan
  <2> QED
    BY <1>0, <1>6, <2>1, CallGoesOn DEF TypeInv
<1>7. CASE ReadBusy
  <2>1. /\ UNCHANGED <<targetVars, old, in, idle>> /\ line' = "run" /\ limit' = RetryTicks
        /\ dtmPc' = "run" /\ pc' = "pause"
    BY <1>7 DEF ReadBusy, BeginIdle, BeginRun
  <2>2. OldInv'
    BY <1>0, <2>1, DmiAssumption DEF OldInv
  <2> QED
    BY <1>0, <1>1, <1>7, <2>1, <2>2, CallGoesOn DEF TypeInv
<1>8. CASE ReturnDone \/ ReturnFailed \/ ReturnNone
  BY <1>8, ReturnTypes
<1>9. CASE AccessDone \/ AccessFails \/ LosePower
  BY <1>9, OutsideTypes
<1>10. CASE UNCHANGED vars
  <2>1. UNCHANGED <<targetVars, tapVars, dtmVars, callVars, historyVars, trusted, cycles>>
    BY <1>10 DEF vars
  <2>2. OldInv'
    BY <1>0, <2>1, OldQuiet DEF tapVars, dtmVars, callVars
  <2>3. CallTypes'
    BY <1>0, <2>1 DEF CallTypes, callVars, historyVars
  <2> QED
    BY <1>0, <1>1, <2>1, <2>2, <2>3 DEF TypeInv
<1> QED
  BY <1>3, <1>4, <1>5, <1>6, <1>7, <1>8, <1>9, <1>10 DEF Next, Host

LEMMA InitTypes == Init => TypeInv
<1> SUFFICES ASSUME Init
             PROVE  TypeInv
  OBVIOUS
<1>1. TargetInv
  BY InitTarget DEF Init
<1>2. OldInv
  BY DEF Init, TapInit, DtmInit, OldInv
<1>3. CallTypes
  <2>1. answer \in [done : BOOLEAN, data : Seq(Word(DataBits))]
    BY DEF Init, Failed
  <2>2. mine \in BOOLEAN /\ trusted \in BOOLEAN
    BY Zenon DEF Init
  <2>3. cycles \in 0 .. MaxCycles
    BY DmiAssumption DEF Init
  <2> QED
    BY <2>1, <2>2, <2>3 DEF Init, CallTypes
<1> QED
  BY <1>1, <1>2, <1>3 DEF TypeInv

LEMMA TypesImply == IInv /\ CodeInv /\ TypeInv => TypeOK
<1> SUFFICES ASSUME IInv, CodeInv, TypeInv
             PROVE  TypeOK
  OBVIOUS
<1>1. TapTypeOK
  BY DEF IInv, ScanInv, Lines, CodeInv, CodeType, TypeInv, TargetInv, OldInv, TapTypeOK
<1>2. DtmTypeOK
  BY <1>1 DEF IInv, ScanInv, Instructions, CodeInv, CodeType, TypeInv, OldInv, DtmTypeOK
<1> QED
  BY <1>2 DEF CodeInv, CodeType, TypeInv, CallTypes, TypeOK

\* The variables of the JTAG side keep their types: no step hands the target
\* anything but bits, what has come out of a register fits the word that
\* went in, and the registers on the chain are as long as the scan assumes.
THEOREM TypeCorrect == Spec => []TypeOK
<1>1. Init => IInv /\ PosInv /\ CodeInv /\ TypeInv
  BY InitHolds, InitPos, InitCode, InitTypes
<1>2. IInv /\ PosInv /\ CodeInv /\ TypeInv /\ [Next]_vars => (IInv /\ PosInv /\ CodeInv /\ TypeInv)'
  BY StepKeeps, PosStep, CodeStep, TypeStep
<1> QED
  BY <1>1, <1>2, TypesImply, PTL DEF Spec

-----------------------------------------------------------------------------
(***************************************************************************)
(* The fourth layer: what a scan that is on track brings to the target.    *)
(***************************************************************************)
\* The scan under way reaches the DMI register, or will once the instruction
\* has been scanned.
Through == dtmPc = "ir" \/ ir = DMI

\* How far the word has been shifted in.
PathInv ==
  OnTrack /\ dtmPc \in {"ir", "dr"} /\ Through =>
    /\ line = "shift" =>
         \A m \in 1 .. Len(new) : Pre + m <= i => sr[Total - i + Pre + m] = new[m]
    /\ line = "update" => \A m \in 1 .. Len(new) : sr[Pre + m] = new[m]
    /\ dtmPc = "ir" /\ line \in {"idle", "rest"} => ir = reg

\* A register other than DMI is scanned only with its instruction in place.
SelectInv ==
  /\ tap = "TestLogicReset" => ir = IDCODE
  /\ OnTrack /\ dtmPc = "dr" /\ line # "rest" /\ reg # DMI => ir = reg

\* A scan that is off track comes back only at its end.
LEMMA StaysOff ==
  ASSUME IInv, PosInv, TapTick, OnTrack', line' \notin {"rest", "run"}
  PROVE  OnTrack
<1> USE DEF IInv, ScanInv, PosInv, OnTrack, TapAt, OffAt, TapNext, WhenLow, WhenHigh
<1>1. CASE TickSelectDr
  <2>1. /\ line = "select_dr" /\ line' = IF which = "ir" THEN "select_ir" ELSE "capture"
        /\ which' = which /\ tap' = TapNext(1)
    BY <1>1 DEF TickSelectDr, Tick, Edge
  <2> QED
    BY <2>1
<1>2. CASE TickSelectIr
  <2>1. line = "select_ir" /\ line' = "capture" /\ which' = which /\ tap' = TapNext(1) /\ which = "ir"
    BY <1>2 DEF TickSelectIr, Tick, Edge
  <2> QED
    BY <2>1
<1>3. CASE TickCapture
  <2>1. line = "capture" /\ line' = "enter" /\ which' = which /\ tap' = TapNext(0)
    BY <1>3 DEF TickCapture, Tick, Edge
  <2> QED
    BY <2>1
<1>4. CASE TickEnter
  <2>1. line = "enter" /\ line' = "shift" /\ which' = which /\ tap' = TapNext(0)
    BY <1>4 DEF TickEnter, Tick, Edge
  <2> QED
    BY <2>1
<1>5. CASE TickBypass \/ TickBit
  <2>1. /\ line = "shift" /\ which' = which
        /\ \/ line' = "shift" /\ tap' = TapNext(0)
           \/ line' = "update" /\ tap' = TapNext(1)
    BY <1>5 DEF TickBypass, TickBit, ShiftLoop, LeaveShift, Edge
  <2> QED
    BY <2>1
<1>6. CASE TickUpdate
  <2>1. line = "update" /\ line' = "idle" /\ which' = which /\ tap' = TapNext(1)
    BY <1>6 DEF TickUpdate, Tick, Edge
  <2> QED
    BY <2>1
<1>7. CASE TickIdle
  BY <1>7 DEF TickIdle, Tick
<1>8. CASE TickGoIdle
  BY <1>8 DEF TickGoIdle
<1>9. CASE TickRun
  BY <1>9 DEF TickRun
<1> QED
  BY <1>1, <1>2, <1>3, <1>4, <1>5, <1>6, <1>7, <1>8, <1>9 DEF TapTick

\* Only the instruction scan, or one that is off track, changes the instruction.
LEMMA DrKeepsIr ==
  ASSUME IInv, PosInv, TapTick, OnTrack, dtmPc # "ir", line # "rest"
  PROVE  ir' = ir
<1> USE DEF IInv, ScanInv, PosInv, OnTrack, TapAt, TapNext, WhenLow, WhenHigh
<1>1. CASE line \in {"go_idle", "run"}
  BY <1>1 DEF TapTick, TickSelectDr, TickSelectIr, TickCapture, TickEnter, TickBypass,
         TickBit, TickUpdate, TickIdle, TickGoIdle, TickRun, Tick, ShiftLoop, Edge, targetVars
<1>2. CASE line \notin {"go_idle", "run"}
  <2>1. which = "dr"
    BY <1>2
  <2>2. \E tms \in {0, 1} : \E tdi : Edge(tms, tdi) /\ (line \in {"capture", "enter", "idle"} => tms = 0)
                                 /\ (line \in {"select_dr", "update"} => tms = 1)
    BY <1>2 DEF TapTick, TickSelectDr, TickSelectIr, TickCapture, TickEnter, TickBypass,
         TickBit, TickUpdate, TickIdle, TickGoIdle, TickRun, Tick, ShiftLoop, LeaveShift
  <2>3. PICK tms \in {0, 1} : tap' = TapNext(tms) /\ (line \in {"capture", "enter", "idle"} => tms = 0)
                                                  /\ (line \in {"select_dr", "update"} => tms = 1)
    BY <2>2 DEF Edge
  <2>4. line \in {"select_dr", "capture", "enter", "shift", "update", "idle"}
    BY <1>2, <2>1 DEF Lines
  <2>5. tap' \notin {"TestLogicReset", "UpdateIR"}
    <3>1. CASE line = "select_dr"
      BY <2>3, <3>1
    <3>2. CASE line = "capture"
      BY <2>1, <2>3, <3>2
    <3>3. CASE line = "enter"
      BY <2>1, <2>3, <3>3
    <3>4. CASE line = "shift"
      BY <2>1, <2>3, <3>4
    <3>5. CASE line = "update"
      BY <2>1, <2>3, <3>5
    <3>6. CASE line = "idle"
      BY <2>1, <2>3, <3>6
    <3> QED
      BY <2>4, <3>1, <3>2, <3>3, <3>4, <3>5, <3>6
  <2> QED
    BY <2>2, <2>5 DEF Edge
<1> QED
  BY <1>1, <1>2

LEMMA TickSelect ==
  ASSUME IInv, PosInv, CodeInv, SelectInv, TapTick, UNCHANGED dtmVars
  PROVE  SelectInv'
<1>0. dtmPc' = dtmPc /\ reg' = reg /\ line # "rest"
  BY DEF dtmVars, TapTick, TickSelectDr, TickSelectIr, TickCapture, TickEnter, TickBypass,
         TickBit, TickUpdate, TickIdle, TickGoIdle, TickRun, Tick, ShiftLoop
<1>1. tap' = "TestLogicReset" => ir' = IDCODE
  <2>1. CASE UNCHANGED targetVars
    BY <2>1 DEF SelectInv, targetVars
  <2>2. CASE \E tms \in {0, 1}, tdi \in Bit : Edge(tms, tdi)
    BY <2>2 DEF Edge
  <2> QED
    BY <2>1, <2>2, TickEdge
<1>2. ASSUME OnTrack', dtmPc' = "dr", line' # "rest", reg' # DMI
      PROVE  ir' = reg'
  <2>1. line' # "run" /\ line # "go_idle"
    <3>1. line # "run" /\ line # "go_idle"
      BY <1>0, <1>2 DEF IInv, ScanInv
    <3> QED
      BY <3>1 DEF TapTick, TickSelectDr, TickSelectIr, TickCapture, TickEnter, TickBypass,
         TickBit, TickUpdate, TickIdle, TickGoIdle, TickRun, Tick, ShiftLoop
  <2>2. OnTrack
    BY <1>2, <2>1, StaysOff
  <2>3. ir' = ir
    BY <1>0, <1>2, <2>2, DrKeepsIr
  <2> QED
    BY <1>0, <1>2, <2>2, <2>3 DEF SelectInv
<1> QED
  BY <1>1, <1>2 DEF SelectInv

\* A bit that is shifted: where every bit is afterwards.
LEMMA ShiftedBits ==
  ASSUME sr \in Seq(Bit), Len(sr) > 0, tap \in {"ShiftIR", "ShiftDR"}, NEW tms, NEW tdi \in Bit,
         Edge(tms, tdi)
  PROVE  /\ sr' \in Seq(Bit) /\ Len(sr') = Len(sr)
         /\ \A k \in 1 .. Len(sr) - 1 : sr'[k] = sr[k + 1]
         /\ sr'[Len(sr)] = tdi
<1>1. sr' = Append(Tail(sr), tdi)
  BY DEF Edge, ShiftRegister
<1> QED
  BY <1>1

\* The bit that goes in is the one of the word whose turn it is.
LEMMA ShiftTick ==
  ASSUME IInv, CodeInv, TapTick, line = "shift"
  PROVE  \E tdi \in Bit : /\ Edge(LeaveShift, tdi)
                          /\ \A m \in 1 .. Len(new) : i + 1 = Pre + m => tdi = new[m]
<1>1. Pre \in Nat /\ Len(new) \in Nat /\ i \in Nat /\ new \in Seq(Bit)
  BY ScanLengths DEF CodeInv, CodeType
<1>2. CASE TickBypass
  <2>1. Edge(LeaveShift, 1) /\ (i < Pre \/ i >= Pre + Len(new))
    BY <1>2 DEF TickBypass
  <2>2. 1 \in Bit
    BY DEF Bit
  <2>3. \A m \in 1 .. Len(new) : i + 1 # Pre + m
    BY <1>1, <2>1
  <2> QED
    BY <2>1, <2>2, <2>3
<1>3. CASE TickBit
  <2>1. Edge(LeaveShift, new[i - Pre + 1]) /\ i >= Pre /\ i < Pre + Len(new)
    BY <1>3 DEF TickBit
  <2>2. i - Pre + 1 \in 1 .. Len(new) /\ \A m \in 1 .. Len(new) : i + 1 = Pre + m => m = i - Pre + 1
    BY <1>1, <2>1
  <2>3. new[i - Pre + 1] \in Bit
    BY <1>1, <2>2
  <2> QED
    BY <2>1, <2>2, <2>3
<1> QED
  BY <1>2, <1>3, ShiftStep

\* On track, what is shifted is as long as the scan.
LEMMA OnTrackLength ==
  ASSUME IInv, CodeInv, TypeInv, SelectInv, OnTrack, dtmPc \in {"ir", "dr"}, Through,
         line \in {"shift", "update"}
  PROVE  /\ Len(sr) = Total /\ sr \in Seq(Bit)
         /\ line = "shift" => tap = IF which = "ir" THEN "ShiftIR" ELSE "ShiftDR"
         /\ line = "update" => tap = IF which = "ir" THEN "Exit1IR" ELSE "Exit1DR"
         /\ dtmPc = "dr" => reg = DMI /\ fn = "dmi" /\ Len(new) = DmiBits /\ pc \in {"op", "nop"}
<1>1. /\ line = "shift" => tap = IF which = "ir" THEN "ShiftIR" ELSE "ShiftDR"
      /\ line = "update" => tap = IF which = "ir" THEN "Exit1IR" ELSE "Exit1DR"
  BY DEF OnTrack, TapAt
<1>2. CASE dtmPc = "ir"
  BY <1>1, <1>2, ScanLengths DEF TypeInv, TargetInv, TargetTypeOK
<1>3. CASE dtmPc = "dr"
  <2>1. ir = DMI /\ reg = DMI
    BY <1>3 DEF Through, SelectInv
  <2>2. fn = "dmi"
    <3>1. reg = Instruction(fn)
      BY <1>3 DEF CodeInv, ScanWords
    <3>2. DMI # IDCODE /\ DMI # DTMCS
      BY DEF DMI, IDCODE, DTMCS
    <3> QED
      BY <2>1, <3>1, <3>2 DEF Instruction
  <2>3. which = "dr" /\ Len(new) = DmiBits /\ Total = DrPre + DmiBits + DrPost
    BY <1>3, <2>2, ScanLengths DEF FnBits
  <2>4. DrTotal = DrPre + DmiBits + DrPost
    <3>1. DMI # IDCODE /\ DMI # DTMCS
      BY DEF DMI, IDCODE, DTMCS
    <3> QED
      BY <2>1, <3>1 DEF DrTotal, DrLen
  <2>5. pc \in {"op", "nop"}
    BY <1>3, <2>2 DEF CodeInv, CodeType, CallOrder
  <2> QED
    BY <1>1, <1>3, <2>1, <2>2, <2>3, <2>4, <2>5 DEF TypeInv, TargetInv, TargetTypeOK
<1> QED
  BY <1>2, <1>3

LEMMA ShiftPath ==
  ASSUME IInv, PosInv, CodeInv, TypeInv, SelectInv, PathInv, TapTick, UNCHANGED dtmVars, line = "shift"
  PROVE  PathInv'
<1>1. /\ i' = i + 1 /\ which' = which /\ new' = new
      /\ line' = IF LastTick THEN "update" ELSE "shift"
  BY ShiftStep
<1>2. dtmPc' = dtmPc /\ reg' = reg
  BY DEF dtmVars
<1> SUFFICES ASSUME OnTrack', dtmPc \in {"ir", "dr"}, Through'
             PROVE  /\ line' = "shift" =>
                         \A m \in 1 .. Len(new') : Pre' + m <= i' => sr'[Total' - i' + Pre' + m] = new'[m]
                    /\ line' = "update" => \A m \in 1 .. Len(new') : sr'[Pre' + m] = new'[m]
  BY <1>1, <1>2 DEF PathInv
<1>3. OnTrack
  BY <1>1, StaysOff
<1>4. Through
  BY <1>2, <1>3, DrKeepsIr DEF Through
<1>5. /\ Len(sr) = Total /\ sr \in Seq(Bit) /\ tap \in {"ShiftIR", "ShiftDR"}
  BY <1>3, <1>4, OnTrackLength
<1>6. /\ Pre \in Nat /\ Post \in Nat /\ Len(new) \in Nat /\ Total \in Nat /\ Total > 0
      /\ Total = Pre + Len(new) + Post
  BY ScanLengths
<1>7. i \in 0 .. Total - 1
  BY DEF CodeInv, ScanWords
<1>8. PICK tdi \in Bit : /\ Edge(LeaveShift, tdi)
                         /\ \A m \in 1 .. Len(new) : i + 1 = Pre + m => tdi = new[m]
  BY ShiftTick
<1>9. /\ \A k \in 1 .. Total - 1 : sr'[k] = sr[k + 1]
      /\ sr'[Total] = tdi
  BY <1>5, <1>6, <1>8, ShiftedBits
<1>10. Pre' = Pre /\ Total' = Total
  BY <1>1 DEF Pre, Post, Total
<1>11. \A m \in 1 .. Len(new) : Pre + m <= i => sr[Total - i + Pre + m] = new[m]
  BY <1>3, <1>4 DEF PathInv
<1>12. \A m \in 1 .. Len(new) : Pre + m <= i + 1 => sr'[Total - (i + 1) + Pre + m] = new[m]
  <2> SUFFICES ASSUME NEW m \in 1 .. Len(new), Pre + m <= i + 1
               PROVE  sr'[Total - (i + 1) + Pre + m] = new[m]
    OBVIOUS
  <2>1. CASE Pre + m = i + 1
    <3>1. Total - (i + 1) + Pre + m = Total
      BY <1>6, <1>7, <2>1
    <3> QED
      BY <1>8, <1>9, <2>1, <3>1
  <2>2. CASE Pre + m <= i
    <3>1. /\ Total - (i + 1) + Pre + m \in 1 .. Total - 1
          /\ Total - (i + 1) + Pre + m + 1 = Total - i + Pre + m
      BY <1>6, <1>7, <2>2
    <3> QED
      BY <1>9, <1>11, <2>2, <3>1
  <2> QED
    BY <1>6, <1>7, <2>1, <2>2
<1>13. line' = "update" => \A m \in 1 .. Len(new) : sr'[Pre + m] = new[m]
  <2> SUFFICES ASSUME line' = "update", NEW m \in 1 .. Len(new)
               PROVE  sr'[Pre + m] = new[m]
    OBVIOUS
  <2>1. i + 1 = Total
    BY <1>1, <1>6, <1>7 DEF LastTick
  <2>2. Pre + m <= i + 1 /\ Total - (i + 1) + Pre + m = Pre + m
    BY <1>6, <2>1
  <2> QED
    BY <1>12, <2>2
<1> QED
  BY <1>1, <1>10, <1>12, <1>13

LEMMA TickPath ==
  ASSUME IInv, PosInv, CodeInv, TypeInv, SelectInv, PathInv, TapTick, UNCHANGED dtmVars
  PROVE  PathInv'
<1>0. dtmPc' = dtmPc /\ reg' = reg /\ line # "rest"
  BY DEF dtmVars, TapTick, TickSelectDr, TickSelectIr, TickCapture, TickEnter, TickBypass,
         TickBit, TickUpdate, TickIdle, TickGoIdle, TickRun, Tick, ShiftLoop
<1>1. CASE line = "shift"
  BY <1>1, ShiftPath
<1>2. CASE line = "update"
  <2>1. line' = "idle" /\ which' = which /\ Edge(1, 1)
    BY <1>2 DEF TapTick, TickSelectDr, TickSelectIr, TickCapture, TickEnter, TickBypass,
         TickBit, TickUpdate, TickIdle, TickGoIdle, TickRun, Tick, ShiftLoop
  <2> SUFFICES ASSUME OnTrack', dtmPc = "ir"
               PROVE  ir' = reg
    BY <1>0, <2>1 DEF PathInv
  <2>2. OnTrack
    BY <2>1, StaysOff
  <2>3. which = "ir" /\ new = reg /\ reg \in Instructions /\ Pre = IrPre /\ Len(new) = 5 /\ Total = IrTotal
    BY <1>2, ScanLengths DEF IInv, ScanInv
  <2>4. Len(sr) = IrTotal /\ sr \in Seq(Bit) /\ \A m \in 1 .. 5 : sr[IrPre + m] = reg[m]
    BY <1>2, <2>2, <2>3, OnTrackLength DEF PathInv, Through
  <2>5. tap' = "UpdateIR"
    BY <1>2, <2>1, <2>2, <2>3 DEF OnTrack, TapAt, Edge, TapNext, WhenHigh
  <2>6. ir' = Ours(IrPre, IrBits)
    BY <2>1, <2>5 DEF Edge
  <2>7. ir' \in Seq(Bit) /\ Len(ir') = 5 /\ \A m \in 1 .. 5 : ir'[m] = sr[IrPre + m]
    <3>1. IrPre + 5 <= Len(sr) /\ IrPre \in Nat /\ IrBits = 5 /\ 5 \in Nat
      BY <2>4, Widths
    <3> QED
      BY <2>4, <2>6, <3>1, PieceType DEF Ours
  <2>8. reg \in Seq(Bit) /\ Len(reg) = 5
    BY <2>3, InstructionType, Widths
  <2> QED
    BY <2>4, <2>7, <2>8, SeqEqual
<1>3. CASE line = "idle"
  <2>1. line' = "rest" /\ which' = which /\ Edge(0, 1)
    BY <1>3 DEF TapTick, TickSelectDr, TickSelectIr, TickCapture, TickEnter, TickBypass,
         TickBit, TickUpdate, TickIdle, TickGoIdle, TickRun, Tick, ShiftLoop
  <2> SUFFICES ASSUME OnTrack', dtmPc = "ir"
               PROVE  ir' = reg
    BY <1>0, <2>1 DEF PathInv
  <2>2. which = "ir" /\ tap \in {"UpdateIR", "SelectIR"}
    BY <1>3 DEF IInv, ScanInv, PosInv, TapAt, OffAt
  <2>3. tap = "UpdateIR" /\ tap' = "RunTestIdle"
    BY <2>1, <2>2 DEF OnTrack, TapAt, Edge, TapNext, WhenLow
  <2> QED
    BY <1>3, <2>1, <2>2, <2>3 DEF Edge, PathInv, OnTrack, TapAt, Through
<1>4. CASE line = "enter"
  <2>1. line' = "shift" /\ which' = which /\ i' = i /\ new' = new
    BY <1>4 DEF TapTick, TickSelectDr, TickSelectIr, TickCapture, TickEnter, TickBypass,
         TickBit, TickUpdate, TickIdle, TickGoIdle, TickRun, Tick, ShiftLoop
  <2>2. i = 0 /\ Pre \in Nat /\ Pre' = Pre
    BY <1>4, <2>1, ScanLengths DEF CodeInv, ScanWords, Pre
  <2>3. \A m \in 1 .. Len(new') : ~ (Pre' + m <= i')
    BY <2>1, <2>2
  <2> QED
    BY <2>1, <2>3 DEF PathInv
<1>5. CASE line \in {"select_dr", "select_ir", "capture"}
  <2>1. line' \in {"select_ir", "capture", "enter"}
    BY <1>5 DEF TapTick, TickSelectDr, TickSelectIr, TickCapture, TickEnter, TickBypass,
         TickBit, TickUpdate, TickIdle, TickGoIdle, TickRun, Tick, ShiftLoop
  <2> QED
    BY <2>1 DEF PathInv
<1>6. CASE line \in {"run", "go_idle"}
  <2>1. dtmPc \notin {"ir", "dr"}
    BY <1>6 DEF IInv, ScanInv
  <2> QED
    BY <1>0, <2>1 DEF PathInv
<1> QED
  BY <1>0, <1>1, <1>2, <1>3, <1>4, <1>5, <1>6 DEF IInv, ScanInv, Lines

LEMMA BeginScanPath ==
  ASSUME SelectInv, NEW f, NEW bits, BeginScan(f, bits), f = "dmi" \/ reg # Instruction(f)
  PROVE  SelectInv' /\ PathInv'
<1>1. /\ line' = "select_dr" /\ tap' = tap /\ ir' = ir /\ reg' = Instruction(f)
      /\ dtmPc' = "dr" => reg = Instruction(f)
  BY DEF BeginScan, BeginShift, targetVars
<1>2. dtmPc' = "dr" => reg' = DMI
  BY <1>1, DmiScan
<1> QED
  BY <1>1, <1>2 DEF SelectInv, PathInv

LEMMA PathStep ==
  IInv /\ PosInv /\ CodeInv /\ TypeInv /\ SelectInv /\ PathInv /\ [Next]_vars => SelectInv' /\ PathInv'
<1> SUFFICES ASSUME IInv, PosInv, CodeInv, TypeInv, SelectInv, PathInv, [Next]_vars
             PROVE  SelectInv' /\ PathInv'
  OBVIOUS
<1>1. CASE DtmStep /\ TapTick /\ UNCHANGED dtmVars
  BY <1>1, TickSelect, TickPath
<1>2. ASSUME NEW bits, BeginScan("dmi", bits)
      PROVE  SelectInv' /\ PathInv'
  BY <1>2, BeginScanPath
<1>3. CASE CallNop \/ CallRead \/ CallWrite \/ CallReadVector \/ CallWriteVector
  BY <1>2, <1>3, Zenon DEF CallNop, CallRead, CallWrite, CallReadVector, CallWriteVector,
                           CallAccess, Nop, Scan
<1>4. CASE OpNext \/ OpLast \/ ReadAgain
  BY <1>2, <1>4, Zenon DEF OpNext, OpLast, ReadAgain, Nop, Scan
<1>5. IDCODE # DTMCS /\ IDCODE # DMI /\ DTMCS # DMI /\ NoReg # IDCODE
  BY DEF IDCODE, DTMCS, DMI, NoReg
<1>6. CASE InitIdcode
  <2>1. BeginScan("idcode", Zeros(WordBits)) /\ reg = NoReg
    BY <1>6 DEF InitIdcode, Returned, CodeInv, CallOrder
  <2> QED
    BY <1>5, <2>1, DmiScan, BeginScanPath
<1>7. CASE InitDtmcs
  <2>1. BeginScan("dtmcs", Zeros(WordBits)) /\ reg = IDCODE
    BY <1>7 DEF InitDtmcs, Returned, CodeInv, CallOrder
  <2> QED
    BY <1>5, <2>1, DmiScan, BeginScanPath
<1>8. CASE ReadGivesUp \/ NotOk
  <2>1. BeginScan("dmireset", DmiReset) /\ reg = DMI
    BY <1>8 DEF ReadGivesUp, NotOk, Reset, Returned, CodeInv, CallOrder
  <2> QED
    BY <1>5, <2>1, DmiScan, BeginScanPath
<1>9. CASE Selected
  <2>1. /\ dtmPc = "ir" /\ line = "rest" /\ dtmPc' = "dr" /\ line' = "select_dr"
        /\ tap' = tap /\ ir' = ir /\ reg' = reg
    BY <1>9 DEF Selected, BeginShift, targetVars
  <2>2. OnTrack' => OnTrack
    BY <2>1 DEF OnTrack, TapAt
  <2>3. OnTrack => ir = reg
    BY <2>1 DEF PathInv, Through
  <2> QED
    BY <2>1, <2>2, <2>3 DEF SelectInv, PathInv
<1>10. CASE \/ ScannedWait \/ Scanned \/ Waited \/ ReadBusy \/ Connect
            \/ ReturnDone \/ ReturnFailed \/ ReturnNone
  <2>1. dtmPc' \in {"rest", "run"} /\ tap' = tap /\ ir' = ir
    BY <1>10 DEF ScannedWait, Scanned, Waited, ReadBusy, Connect, ReturnDone, ReturnFailed, ReturnNone,
                 Return, Returned, BeginIdle, BeginInit, dtmVars, targetVars
  <2> QED
    BY <2>1 DEF SelectInv, PathInv
<1>11. CASE AccessDone \/ AccessFails \/ UNCHANGED vars
  <2>1. UNCHANGED <<tapVars, dtmVars, tap, ir, sr>>
    BY <1>11 DEF AccessDone, AccessFails, RequestDone, RequestFails, vars, targetVars
  <2>2. UNCHANGED <<line, which, i, new, dtmPc, reg, tap, ir, sr>>
    BY <2>1 DEF tapVars, dtmVars
  <2> QED
    BY <2>2 DEF SelectInv, PathInv, OnTrack, TapAt, Through, Total, Pre, Post
<1>12. CASE LosePower
  <2>1. line = "rest" /\ line' = "rest" /\ tap' = "TestLogicReset" /\ ir' = IDCODE
    BY <1>12 DEF LosePower, PowerCycle, tapVars
  <2> QED
    BY <2>1 DEF SelectInv, PathInv, OnTrack, TapAt
<1> QED
  BY <1>1, <1>3, <1>4, <1>6, <1>7, <1>8, <1>9, <1>10, <1>11, <1>12 DEF Next, Host, DtmStep

LEMMA InitPath == Init => SelectInv /\ PathInv
BY DEF Init, TargetInit, TapInit, DtmInit, SelectInv, PathInv

-----------------------------------------------------------------------------
(***************************************************************************)
(* The fifth layer: the TAP is one scan out of step after a loss of power. *)
(* What it then takes for an instruction is never DMI, except while a read *)
(* is repeated or the error reset: so little is shifted that the pattern   *)
(* the register was captured with is still in the way.                     *)
(***************************************************************************)
\* The instruction part of w, s shifts after Capture-IR.
Fresh(s, w) == \A k \in 1 .. 5 - s : w[IrPre + k] = IF k + s = 1 THEN 1 ELSE 0

Adrift == \/ pc = "pause"
          \/ pc = "nop" /\ kind = "read" /\ dtmPc = "dr" /\ line # "rest"
          \/ pc = "reset" /\ dtmPc = "ir" /\ line # "rest"

Window ==
  /\ line = "run" => limit <= 2 /\ i \in 0 .. limit
  /\ line = "run" /\ tap = "CaptureIR" => i = 0
  /\ line = "run" /\ tap = "ShiftIR" => i > 0 /\ Fresh(i - 1, sr)
  /\ line \in {"rest", "select_dr"} /\ tap = "ShiftIR" => Fresh(0, sr) \/ Fresh(1, sr)
  /\ tap \in {"Exit1IR", "PauseIR", "Exit2IR"} => Ours(IrPre, IrBits) # DMI
  /\ tap = "UpdateIR" => ir # DMI

WindowInv ==
  /\ line = "rest" /\ dtmPc \in {"ir", "dr"} => tap # "ShiftIR"
  /\ ~ Adrift /\ ~ OnTrack /\ line # "go_idle" => Window

LEMMA FreshCaptured ==
  ASSUME tap = "CaptureIR", NEW tms, NEW tdi, Edge(tms, tdi)
  PROVE  Fresh(0, sr')
<1>1. sr' = ShiftRegister(tdi)
  BY DEF Edge
<1>2. \A m \in 1 .. 5 : ShiftRegister(tdi)[IrPre + m] = IF m = 1 THEN 1 ELSE 0
  BY CapturedIr
<1> QED
  BY <1>1, <1>2 DEF Fresh

LEMMA FreshShifted ==
  ASSUME TargetInv, tap = "ShiftIR", NEW s \in 0 .. 3, Fresh(s, sr), NEW tms, NEW tdi \in Bit,
         Edge(tms, tdi)
  PROVE  Fresh(s + 1, sr')
<1>1. sr \in Seq(Bit) /\ Len(sr) = IrTotal
  BY DEF TargetInv, TargetTypeOK
<1>2. IrPre \in Nat /\ IrPost \in Nat /\ IrTotal = IrPre + 5 + IrPost
  BY Widths
<1>3. \A k \in 1 .. IrTotal - 1 : sr'[k] = sr[k + 1]
  BY <1>1, <1>2, ShiftedBits
<1> SUFFICES ASSUME NEW k \in 1 .. 5 - (s + 1)
             PROVE  sr'[IrPre + k] = IF k + (s + 1) = 1 THEN 1 ELSE 0
  BY DEF Fresh
<1>4. IrPre + k \in 1 .. IrTotal - 1 /\ k + 1 \in 1 .. 5 - s /\ IrPre + k + 1 = IrPre + (k + 1)
  BY <1>2
<1>5. sr'[IrPre + k] = sr[IrPre + (k + 1)]
  BY <1>3, <1>4
<1>6. sr[IrPre + (k + 1)] = IF (k + 1) + s = 1 THEN 1 ELSE 0
  BY <1>4 DEF Fresh
<1> QED
  BY <1>5, <1>6

LEMMA FreshIsNotDmi ==
  ASSUME NEW w \in Seq(Bit), Len(w) = IrTotal, NEW s \in 0 .. 4, Fresh(s, w)
  PROVE  SubSeq(w, IrPre + 1, IrPre + IrBits) # DMI
<1>1. IrPre \in Nat /\ 5 \in Nat /\ IrBits = 5 /\ IrPre + 5 <= Len(w)
  BY Widths
<1> DEFINE p == SubSeq(w, IrPre + 1, IrPre + 5)
<1>2. \A m \in 1 .. 5 : p[m] = w[IrPre + m]
  BY <1>1, PieceType
<1>3. DMI[1] = 1 /\ DMI[5] = 1
  BY DEF DMI
<1> HIDE DEF p
<1>4. CASE s = 0
  <2>1. w[IrPre + 5] = 0
    BY <1>4 DEF Fresh
  <2>2. p[5] = 0
    BY <1>2, <2>1
  <2>3. p # DMI
    BY <1>3, <2>2
  <2> QED
    BY <1>1, <2>3 DEF p
<1>5. CASE s # 0
  <2>1. w[IrPre + 1] = 0
    BY <1>5 DEF Fresh
  <2>2. p[1] = 0
    BY <1>2, <2>1
  <2>3. p # DMI
    BY <1>3, <2>2
  <2> QED
    BY <1>1, <2>3 DEF p
<1> QED
  BY <1>4, <1>5

\* A tick with TMS high, while the TAP is off track.
LEMMA HighTick ==
  ASSUME TypeInv, NEW tdi \in Bit, Edge(1, tdi), Window,
         tap \notin {"RunTestIdle", "CaptureDR", "ShiftDR", "Exit1DR", "UpdateIR", "UpdateDR"},
         tap \in TapStates \ {"PauseDR", "Exit2DR"},
         tap = "ShiftIR" => line = "select_dr"
  PROVE  /\ tap' \in {"TestLogicReset", "SelectIR", "Exit1IR", "Exit2IR", "UpdateIR"}
         /\ tap' \in {"Exit1IR", "PauseIR", "Exit2IR"} => Ours(IrPre, IrBits)' # DMI
         /\ tap' = "UpdateIR" => ir' # DMI
<1>0. /\ tap' = WhenHigh[tap] /\ sr' = ShiftRegister(tdi) /\ TargetInv
  BY DEF Edge, TapNext, TypeInv
<1>1. tap' \in {"TestLogicReset", "SelectIR", "Exit1IR", "Exit2IR", "UpdateIR"}
  BY <1>0 DEF WhenHigh, WhenLow, TapStates
<1>2. CASE tap = "CaptureIR"
  <2>1. sr' \in Seq(Bit) /\ Len(sr') = IrTotal
    BY <1>0, <1>2, EdgeSr
  <2>2. Fresh(0, sr')
    BY <1>2, FreshCaptured
  <2>3. SubSeq(sr', IrPre + 1, IrPre + IrBits) # DMI
    BY <2>1, <2>2, FreshIsNotDmi
  <2>4. tap' = "Exit1IR"
    BY <1>0, <1>2 DEF WhenHigh
  <2> QED
    BY <2>3, <2>4 DEF Ours
<1>3. CASE tap = "ShiftIR"
  <2>1. Fresh(0, sr) \/ Fresh(1, sr)
    BY <1>3 DEF Window
  <2>2. Len(sr) = IrTotal
    BY <1>0, <1>3 DEF TargetInv
  <2>3. sr' \in Seq(Bit) /\ Len(sr') = IrTotal
    BY <1>0, <1>3, <2>2, EdgeSr
  <2>4. PICK s \in 0 .. 1 : Fresh(s, sr)
    BY <2>1
  <2>5. Fresh(s + 1, sr')
    BY <1>0, <1>3, <2>4, FreshShifted
  <2>6. SubSeq(sr', IrPre + 1, IrPre + IrBits) # DMI
    BY <2>3, <2>5, FreshIsNotDmi
  <2>7. tap' = "Exit1IR"
    BY <1>0, <1>3 DEF WhenHigh
  <2> QED
    BY <2>6, <2>7 DEF Ours
<1>4. CASE tap \in {"Exit1IR", "PauseIR", "Exit2IR"}
  <2>1. Ours(IrPre, IrBits) # DMI /\ sr' = sr
    BY <1>0, <1>4 DEF Window, ShiftRegister
  <2>2. tap' = "UpdateIR" => ir' = Ours(IrPre, IrBits)
    BY DEF Edge
  <2> QED
    BY <1>1, <2>1, <2>2 DEF Ours
<1>5. CASE tap \notin {"CaptureIR", "ShiftIR", "Exit1IR", "PauseIR", "Exit2IR"}
  <2>1. tap' \in {"TestLogicReset", "SelectIR"}
    BY <1>0, <1>5 DEF WhenHigh, WhenLow, TapStates
  <2> QED
    BY <1>1, <2>1
<1> QED
  BY <1>1, <1>2, <1>3, <1>4, <1>5

\* A scan that is on track stays there to its end.
LEMMA OnTrackGoesOn ==
  ASSUME IInv, TapTick, OnTrack,
         line \in {"select_dr", "select_ir", "capture", "enter", "shift", "update"}
  PROVE  OnTrack'
<1> USE DEF IInv, ScanInv, OnTrack, TapAt, TapNext, WhenLow, WhenHigh
<1>1. CASE TickSelectDr
  <2>1. /\ line = "select_dr" /\ line' = IF which = "ir" THEN "select_ir" ELSE "capture"
        /\ which' = which /\ tap' = TapNext(1)
    BY <1>1 DEF TickSelectDr, Tick, Edge
  <2> QED
    BY <2>1
<1>2. CASE TickSelectIr
  <2>1. line = "select_ir" /\ line' = "capture" /\ which' = which /\ tap' = TapNext(1) /\ which = "ir"
    BY <1>2 DEF TickSelectIr, Tick, Edge
  <2> QED
    BY <2>1
<1>3. CASE TickCapture
  <2>1. line = "capture" /\ line' = "enter" /\ which' = which /\ tap' = TapNext(0)
    BY <1>3 DEF TickCapture, Tick, Edge
  <2> QED
    BY <2>1
<1>4. CASE TickEnter
  <2>1. line = "enter" /\ line' = "shift" /\ which' = which /\ tap' = TapNext(0)
    BY <1>4 DEF TickEnter, Tick, Edge
  <2> QED
    BY <2>1
<1>5. CASE TickBypass \/ TickBit
  <2>1. /\ line = "shift" /\ which' = which
        /\ \/ line' = "shift" /\ tap' = TapNext(0)
           \/ line' = "update" /\ tap' = TapNext(1)
    BY <1>5 DEF TickBypass, TickBit, ShiftLoop, LeaveShift, Edge
  <2> QED
    BY <2>1
<1>6. CASE TickUpdate
  <2>1. line = "update" /\ line' = "idle" /\ which' = which /\ tap' = TapNext(1)
    BY <1>6 DEF TickUpdate, Tick, Edge
  <2> QED
    BY <2>1
<1>7. CASE TickIdle \/ TickGoIdle \/ TickRun
  BY <1>7 DEF TickIdle, Tick, TickGoIdle, TickRun
<1> QED
  BY <1>1, <1>2, <1>3, <1>4, <1>5, <1>6, <1>7 DEF TapTick

LEMMA TickWindow ==
  ASSUME IInv, PosInv, CodeInv, TypeInv, WindowInv, TapTick, UNCHANGED <<dtmVars, pc, kind>>
  PROVE  WindowInv'
<1>0. /\ dtmPc' = dtmPc /\ pc' = pc /\ kind' = kind /\ line # "rest"
      /\ tap \in TapStates \ {"PauseDR", "Exit2DR"} /\ TargetInv /\ 1 \in Bit
      /\ line \in Lines
  BY PosTap DEF dtmVars, TapTick, TickSelectDr, TickSelectIr, TickCapture, TickEnter, TickBypass,
         TickBit, TickUpdate, TickIdle, TickGoIdle, TickRun, Tick, ShiftLoop, TypeInv, Bit, IInv, ScanInv
<1>1. CASE line = "idle"
  <2>1. line' = "rest" /\ tap' = TapNext(0) /\ which' = which
    BY <1>1 DEF TapTick, TickSelectDr, TickSelectIr, TickCapture, TickEnter, TickBypass,
         TickBit, TickUpdate, TickIdle, TickGoIdle, TickRun, Tick, ShiftLoop, Edge
  <2>2. tap \in {"UpdateIR", "UpdateDR", "SelectIR"}
    BY <1>1 DEF PosInv, TapAt, OffAt
  <2>3. tap' \in {"RunTestIdle", "CaptureIR"}
    BY <2>1, <2>2 DEF TapNext, WhenLow
  <2> QED
    BY <2>1, <2>3 DEF WindowInv, Window
<1>2. CASE line = "go_idle"
  <2>1. CASE line' = "go_idle"
    BY <2>1 DEF WindowInv
  <2>2. CASE line' # "go_idle"
    <3>1. line' = "rest" /\ tap' = TapNext(0) /\ ~ (i < limit)
      BY <1>2, <2>2 DEF TapTick, TickSelectDr, TickSelectIr, TickCapture, TickEnter, TickBypass,
         TickBit, TickUpdate, TickIdle, TickGoIdle, TickRun, Tick, ShiftLoop, Edge
    <3>2. i = 6
      BY <1>2, <3>1 DEF IInv, ScanInv
    <3>3. tap = "TestLogicReset"
      BY <1>2, <3>2 DEF PosInv, GoAt
    <3>4. tap' = "RunTestIdle"
      BY <3>1, <3>3 DEF TapNext, WhenLow
    <3> QED
      BY <3>1, <3>4 DEF WindowInv, Window
  <2> QED
    BY <2>1, <2>2
<1>3. CASE line = "run"
  <2>1. dtmPc = "run"
    BY <1>3 DEF IInv, ScanInv
  <2> SUFFICES ASSUME ~ Adrift', ~ OnTrack'
               PROVE  Window'
    BY <1>0, <2>1 DEF WindowInv
  <2>2. ~ Adrift
    BY <1>0, <2>1 DEF Adrift
  <2>3. CASE i < limit
    <3>1. line' = "run" /\ i' = i + 1 /\ limit' = limit /\ Edge(0, 1)
      BY <1>3, <2>3 DEF TapTick, TickSelectDr, TickSelectIr, TickCapture, TickEnter, TickBypass,
         TickBit, TickUpdate, TickIdle, TickGoIdle, TickRun, Tick, ShiftLoop
    <3>2. tap \in {"CaptureIR", "ShiftIR"} /\ tap' = "ShiftIR"
      <4>1. tap \in {"RunTestIdle", "TestLogicReset", "CaptureIR", "ShiftIR"}
        BY <1>3 DEF PosInv, TapAt, OffAt
      <4>2. tap' # "RunTestIdle"
        BY <3>1 DEF OnTrack, TapAt
      <4>3. tap' = WhenLow[tap]
        BY <3>1 DEF Edge, TapNext
      <4> QED
        BY <4>1, <4>2, <4>3 DEF WhenLow
    <3>3. ~ OnTrack
      BY <1>3, <3>2 DEF OnTrack, TapAt
    <3>4. Window
      BY <1>3, <2>2, <3>3 DEF WindowInv
    <3>5. limit <= 2 /\ i \in 0 .. limit
      BY <1>3, <3>4 DEF Window
    <3>6. limit \in Nat
      BY DEF TypeInv, OldInv
    <3>7. i + 1 > 0 /\ i + 1 \in 0 .. limit /\ (i + 1) - 1 = i
      BY <2>3, <3>5, <3>6
    <3>8. Fresh(i, sr')
      <4>1. CASE tap = "CaptureIR"
        BY <1>3, <3>1, <3>4, <4>1, FreshCaptured DEF Window
      <4>2. CASE tap = "ShiftIR"
        <5>1. i > 0 /\ Fresh(i - 1, sr)
          BY <1>3, <3>4, <4>2 DEF Window
        <5>2. PICK s \in 0 .. 3 : s = i - 1
          BY <3>5, <3>6, <5>1
        <5>3. Fresh(s + 1, sr')
          BY <1>0, <3>1, <4>2, <5>1, <5>2, FreshShifted
        <5>4. s + 1 = i
          BY <3>5, <5>2
        <5> QED
          BY <5>3, <5>4
      <4> QED
        BY <3>2, <4>1, <4>2
    <3>9. Fresh(i' - 1, sr')
      BY <3>1, <3>7, <3>8
    <3> QED
      BY <3>1, <3>2, <3>5, <3>7, <3>9 DEF Window
  <2>4. CASE ~ (i < limit)
    <3>1. line' = "rest" /\ UNCHANGED targetVars
      BY <1>3, <2>4 DEF TapTick, TickSelectDr, TickSelectIr, TickCapture, TickEnter, TickBypass,
         TickBit, TickUpdate, TickIdle, TickGoIdle, TickRun, Tick, ShiftLoop
    <3>2. ~ OnTrack /\ tap' = tap /\ sr' = sr /\ ir' = ir
      BY <1>3, <3>1 DEF targetVars, OnTrack, TapAt
    <3>3. Window
      BY <1>3, <2>2, <3>2 DEF WindowInv
    <3>4. tap = "ShiftIR" => Fresh(0, sr) \/ Fresh(1, sr)
      <4> SUFFICES ASSUME tap = "ShiftIR"
                   PROVE  Fresh(0, sr) \/ Fresh(1, sr)
        OBVIOUS
      <4>1. i > 0 /\ Fresh(i - 1, sr) /\ limit <= 2 /\ i \in 0 .. limit
        BY <1>3, <3>3 DEF Window
      <4>2. limit \in Nat
        BY DEF TypeInv, OldInv
      <4>3. i - 1 = 0 \/ i - 1 = 1
        BY <4>1, <4>2
      <4> QED
        BY <4>1, <4>3
    <3>5. tap \in {"RunTestIdle", "TestLogicReset", "CaptureIR", "ShiftIR"}
      BY <1>3 DEF PosInv, TapAt, OffAt
    <3> QED
      BY <3>1, <3>2, <3>4, <3>5 DEF Window
  <2> QED
    BY <2>3, <2>4
<1>4. CASE line \in {"select_dr", "select_ir", "capture", "enter", "shift", "update"}
  <2>1. line' \notin {"rest", "run", "go_idle", "select_dr"} /\ line' \in Lines /\ which' = which
    BY <1>4 DEF TapTick, TickSelectDr, TickSelectIr, TickCapture, TickEnter, TickBypass,
         TickBit, TickUpdate, TickIdle, TickGoIdle, TickRun, Tick, ShiftLoop, Lines
  <2> SUFFICES ASSUME ~ Adrift', ~ OnTrack'
               PROVE  /\ tap' \in {"Exit1IR", "PauseIR", "Exit2IR"} => Ours(IrPre, IrBits)' # DMI
                      /\ tap' = "UpdateIR" => ir' # DMI
    BY <2>1 DEF WindowInv, Window
  <2>2. ~ Adrift
    BY <1>0, <1>4, <2>1 DEF Adrift
  <2>3. ~ OnTrack
    <3> SUFFICES ASSUME OnTrack
                 PROVE  OnTrack'
      OBVIOUS
    <3> QED
      BY <1>4, OnTrackGoesOn
  <2>4. Window
    BY <1>4, <2>2, <2>3 DEF WindowInv
  <2>5. CASE line \in {"select_dr", "select_ir", "update"} \/ (line = "shift" /\ LastTick)
    <3>1. \E tdi \in Bit : Edge(1, tdi)
      <4>1. CASE line \in {"select_dr", "select_ir", "update"}
        BY <1>0, <4>1 DEF TapTick, TickSelectDr, TickSelectIr, TickCapture, TickEnter, TickBypass,
           TickBit, TickUpdate, TickIdle, TickGoIdle, TickRun, Tick, ShiftLoop
      <4>2. CASE line = "shift" /\ LastTick
        BY <4>2, ShiftTick DEF LeaveShift
      <4> QED
        BY <2>5, <4>1, <4>2
    <3>2. /\ \/ tap \notin {"RunTestIdle", "CaptureDR", "ShiftDR", "Exit1DR", "UpdateIR", "UpdateDR"}
             \/ line = "shift" /\ tap = "RunTestIdle"
          /\ tap = "ShiftIR" => line = "select_dr"
      <4>1. tap \in OffAt
        BY <1>4, <2>3 DEF PosInv, OnTrack
      <4>2. CASE line = "select_dr"
        <5>1. tap \in {"TestLogicReset", "CaptureIR", "ShiftIR"}
          BY <4>1, <4>2 DEF OffAt
        <5> QED
          BY <4>2, <5>1
      <4>3. CASE line = "select_ir"
        <5>1. tap \in {"TestLogicReset", "Exit1IR"}
          BY <4>1, <4>3 DEF OffAt
        <5> QED
          BY <4>3, <5>1
      <4>4. CASE line = "update"
        <5>1. tap \in {"SelectDR", "Exit2IR"}
          BY <4>1, <4>4 DEF OffAt
        <5> QED
          BY <4>4, <5>1
      <4>5. CASE line = "shift"
        <5>1. tap \in {"RunTestIdle", "PauseIR"}
          BY <4>1, <4>5 DEF OffAt
        <5> QED
          BY <4>5, <5>1
      <4> QED
        BY <2>5, <4>2, <4>3, <4>4, <4>5
    <3>3. CASE tap = "RunTestIdle"
      BY <3>1, <3>3 DEF Edge, TapNext, WhenHigh
    <3>4. CASE tap # "RunTestIdle"
      BY <1>0, <2>4, <3>1, <3>2, <3>4, HighTick
    <3> QED
      BY <3>3, <3>4
  <2>6. CASE line \in {"capture", "enter"} \/ (line = "shift" /\ ~ LastTick)
    <3>1. \E tdi \in Bit : Edge(0, tdi)
      <4>1. CASE line \in {"capture", "enter"}
        BY <1>0, <4>1 DEF TapTick, TickSelectDr, TickSelectIr, TickCapture, TickEnter, TickBypass,
           TickBit, TickUpdate, TickIdle, TickGoIdle, TickRun, Tick, ShiftLoop
      <4>2. CASE line = "shift" /\ ~ LastTick
        BY <4>2, ShiftTick DEF LeaveShift
      <4> QED
        BY <2>6, <4>1, <4>2
    <3>2. tap \in {"TestLogicReset", "UpdateIR", "Exit1IR", "RunTestIdle", "PauseIR"}
      BY <2>3, <2>6 DEF PosInv, OnTrack, TapAt, OffAt
    <3>3. tap' \in {"RunTestIdle", "PauseIR"} /\ (tap' = "PauseIR" => tap \in {"Exit1IR", "PauseIR"})
      BY <3>1, <3>2 DEF Edge, TapNext, WhenLow
    <3>4. sr' = sr
      BY <3>1, <3>2 DEF Edge, ShiftRegister
    <3> QED
      BY <2>4, <3>3, <3>4 DEF Window, Ours
  <2> QED
    BY <1>4, <2>5, <2>6
<1> QED
  BY <1>0, <1>1, <1>2, <1>3, <1>4 DEF Lines

\* A scan begins: what was in the window at rest is still there.
LEMMA BeginScanWindow ==
  ASSUME PosInv, WindowInv, pc # "pause", NEW f, NEW bits, BeginScan(f, bits)
  PROVE  WindowInv'
<1>1. /\ line = "rest" /\ line' = "select_dr" /\ tap' = tap /\ ir' = ir /\ sr' = sr
  BY DEF BeginScan, BeginShift, targetVars
<1>2. ~ Adrift
  BY <1>1 DEF Adrift, BeginScan
<1>3. OnTrack' = OnTrack
  BY <1>1 DEF OnTrack, TapAt
<1>4. CASE OnTrack
  BY <1>1, <1>3, <1>4 DEF WindowInv
<1>5. CASE ~ OnTrack
  <2>1. Window
    BY <1>1, <1>2, <1>5 DEF WindowInv
  <2>2. Window'
    BY <1>1, <2>1 DEF Window, Ours
  <2> QED
    BY <1>1, <2>2 DEF WindowInv
<1> QED
  BY <1>4, <1>5

LEMMA WindowStep ==
  IInv /\ PosInv /\ CodeInv /\ TypeInv /\ WindowInv /\ [Next]_vars => WindowInv'
<1> SUFFICES ASSUME IInv, PosInv, CodeInv, TypeInv, WindowInv, [Next]_vars
             PROVE  WindowInv'
  OBVIOUS
<1>1. CASE DtmStep /\ TapTick /\ UNCHANGED dtmVars /\ UNCHANGED callVars
  BY <1>1, TickWindow DEF callVars
<1>2. ASSUME pc # "pause", NEW f, NEW bits, BeginScan(f, bits)
      PROVE  WindowInv'
  BY <1>2, BeginScanWindow
<1>3. CASE CallNop \/ CallRead \/ CallWrite \/ CallReadVector \/ CallWriteVector
  <2>1. pc # "pause"
    BY <1>3 DEF CallNop, CallRead, CallWrite, CallReadVector, CallWriteVector, CallAccess, Call, Idle
  <2> QED
    BY <1>2, <1>3, <2>1, Zenon DEF CallNop, CallRead, CallWrite, CallReadVector, CallWriteVector,
                           CallAccess, Nop, Scan
<1>4. CASE OpNext \/ OpLast \/ InitIdcode \/ InitDtmcs \/ NotOk
  <2>1. pc # "pause"
    BY <1>4 DEF OpNext, OpLast, InitIdcode, InitDtmcs, NotOk, Returned
  <2> QED
    BY <1>2, <1>4, <2>1, Zenon DEF OpNext, OpLast, InitIdcode, InitDtmcs, NotOk, Reset, Nop, Scan
<1>5. CASE ReadAgain \/ ReadGivesUp
  <2>1. pc = "pause" /\ dtmPc = "rest" /\ reg = DMI /\ kind = "read"
    BY <1>5 DEF ReadAgain, ReadGivesUp, Returned, CodeInv, CallOrder, CallShape
  <2>2. DMI # DTMCS
    BY DEF DMI, DTMCS
  <2>3. CASE ReadAgain
    <3>1. pc' = "nop" /\ kind' = kind /\ line' = "select_dr" /\ dtmPc' = "dr"
      BY <2>1, <2>3, DmiScan DEF ReadAgain, Nop, BeginScan, BeginShift, Keep
    <3> QED
      BY <2>1, <3>1 DEF WindowInv, Adrift
  <2>4. CASE ReadGivesUp
    <3>1. pc' = "reset" /\ line' = "select_dr" /\ dtmPc' = "ir"
      BY <2>1, <2>2, <2>4, DmiScan DEF ReadGivesUp, Reset, BeginScan, BeginShift
    <3> QED
      BY <3>1 DEF WindowInv, Adrift
  <2> QED
    BY <1>5, <2>3, <2>4
<1>6. CASE ReadBusy
  <2>1. pc' = "pause" /\ line' = "run"
    BY <1>6 DEF ReadBusy, BeginIdle, BeginRun
  <2> QED
    BY <2>1 DEF WindowInv, Adrift
<1>7. CASE Connect
  <2>1. line' = "go_idle"
    BY <1>7 DEF Connect, BeginInit, BeginGoIdle
  <2> QED
    BY <2>1 DEF WindowInv
<1>8. CASE Selected \/ ScannedWait \/ Scanned
  <2>1. /\ line = "rest" /\ dtmPc \in {"ir", "dr"} /\ tap' = tap /\ i' \in {0, i} /\ limit' \in {limit, idle}
        /\ line' \in {"select_dr", "rest", "run"} /\ (line' = "run" => i' = 0 /\ limit' = idle)
        /\ dtmPc' \in {"dr", "run", "rest"} /\ (line' = "rest" => dtmPc' = "rest")
    BY <1>8 DEF Selected, ScannedWait, Scanned, BeginShift, BeginRun, targetVars, tapVars
  <2>2. tap \in {"RunTestIdle", "TestLogicReset", "CaptureIR"}
    BY <2>1 DEF WindowInv, PosInv, TapAt, OffAt
  <2>3. idle \in 0 .. 2
    BY DEF TypeInv, OldInv
  <2>4. line' = "run" => limit' <= 2 /\ i' \in 0 .. limit'
    BY <2>1, <2>3
  <2>5. Window'
    BY <2>1, <2>2, <2>4 DEF Window
  <2> QED
    BY <2>1, <2>5 DEF WindowInv
<1>9. CASE (Waited /\ UNCHANGED callVars) \/ ReturnDone \/ ReturnFailed \/ ReturnNone
  <2>1. /\ line = "rest" /\ line' = line /\ dtmPc' = "rest" /\ dtmPc \in {"run", "rest"}
        /\ tap' = tap /\ sr' = sr /\ ir' = ir
    BY <1>9 DEF Waited, ReturnDone, ReturnFailed, ReturnNone, Return, Returned, tapVars, targetVars, dtmVars,
                IInv, ScanInv
  <2>2. pc = "pause" => pc' = "pause"
    BY <1>9 DEF ReturnDone, ReturnFailed, ReturnNone, Returned, callVars
  <2>3. CASE pc = "pause"
    BY <2>1, <2>2, <2>3 DEF WindowInv, Adrift
  <2>4. CASE pc # "pause"
    <3>1. ~ Adrift
      BY <2>1, <2>4 DEF Adrift
    <3>2. OnTrack' = OnTrack
      BY <2>1 DEF OnTrack, TapAt
    <3>3. ~ OnTrack => Window
      BY <2>1, <3>1 DEF WindowInv
    <3>4. ~ OnTrack' => Window'
      BY <2>1, <3>2, <3>3 DEF Window, Ours
    <3> QED
      BY <2>1, <3>4 DEF WindowInv
  <2> QED
    BY <2>3, <2>4
<1>10. CASE AccessDone \/ AccessFails \/ UNCHANGED vars
  <2>1. UNCHANGED <<line, which, i, limit, dtmPc, tap, ir, sr, pc, kind>>
    BY <1>10 DEF AccessDone, AccessFails, RequestDone, RequestFails, vars, targetVars, tapVars, dtmVars, callVars
  <2> QED
    BY <2>1 DEF WindowInv, Window, OnTrack, TapAt, Adrift, Ours, Fresh
<1>11. CASE LosePower
  <2>1. line = "rest" /\ line' = "rest" /\ tap' = "TestLogicReset"
    BY <1>11 DEF LosePower, PowerCycle, tapVars
  <2> QED
    BY <2>1 DEF WindowInv, Window
<1> QED
  BY <1>1, <1>3, <1>4, <1>5, <1>6, <1>7, <1>8, <1>9, <1>10, <1>11 DEF Next, Host, DtmStep

LEMMA InitWindow == Init => WindowInv
BY DEF Init, TargetInit, TapInit, DtmInit, WindowInv, Window

-----------------------------------------------------------------------------
(***************************************************************************)
(* The sixth layer: the accesses of the call that is under way.            *)
(***************************************************************************)
\* Update-DR has passed for the scan of this step of the call.
Passed == (dtmPc = "dr" /\ line \in {"idle", "rest"}) \/ dtmPc \in {"run", "rest"}

\* How many accesses the call has handed to the DMI, and how many it took.
Issued == IF pc = "op" THEN (IF Passed THEN n + 1 ELSE n) ELSE Len(reqs)
Taken == IF mine THEN made + 1 ELSE made

OwnInv ==
  /\ pc = "op" /\ dtmPc = "ir" => n = 0
  /\ Taken <= Issued
  /\ mine => Busy /\ request = reqs[made + 1]
  /\ Taken > 0 /\ Busy => mine
  /\ Len(got) = IF kind \in ReadKinds THEN made ELSE 0

\* A scan that is refused has left its error.
LateInv ==
  OnTrack /\ dtmPc = "dr" /\ ir = DMI /\ line \in {"shift", "update"} /\ Busy
    => sticky # ResultDone

\* As long as there is no error, none of the accesses was refused or lost.
CountInv ==
  /\ sticky = ResultDone
  /\ (pc = "op" /\ OnTrack /\ Through) \/ (pc \in {"nop", "pause"} /\ trusted)
  => Taken = Issued

OwnedInv == OwnInv /\ LateInv /\ CountInv

\* Update-DR finds the word that dmi.c has asked to be shifted in.
LEMMA WordArrives ==
  ASSUME IInv, PosInv, CodeInv, TypeInv, SelectInv, PathInv,
         OnTrack, dtmPc = "dr", ir = DMI, line = "update", NEW word, word = Ours(DrPre, DmiBits)
  PROVE  /\ pc \in {"op", "nop"} /\ tap = "Exit1DR" /\ Len(sr) = DrTotal /\ sr \in Seq(Bit)
         /\ word \in Seq(Bit) /\ Len(word) = DmiBits
         /\ \A m \in 1 .. DmiBits : word[m] = in[m]
<1>1. /\ Len(sr) = Total /\ sr \in Seq(Bit) /\ tap = (IF which = "ir" THEN "Exit1IR" ELSE "Exit1DR")
      /\ Len(new) = DmiBits /\ pc \in {"op", "nop"}
  BY OnTrackLength DEF Through
<1>2. which = "dr" /\ new = in /\ Pre = DrPre
  BY ScanLengths
<1>3. Len(sr) = DrTotal
  BY <1>1, <1>2 DEF TypeInv, TargetInv
<1>4. \A m \in 1 .. DmiBits : sr[DrPre + m] = in[m]
  BY <1>1, <1>2 DEF PathInv, Through
<1>5. /\ word \in Seq(Bit) /\ Len(word) = DmiBits
      /\ \A m \in 1 .. DmiBits : word[m] = sr[DrPre + m]
  BY <1>1, <1>3, DmiWord
<1> QED
  BY <1>1, <1>2, <1>3, <1>4, <1>5

LEMMA WordEqual ==
  ASSUME NEW k, NEW v \in Word(k), NEW w \in Word(k), \A m \in 1 .. k : v[m] = w[m]
  PROVE  v = w
<1>1. v = [m \in 1 .. k |-> v[m]] /\ w = [m \in 1 .. k |-> w[m]]
  BY DEF Word
<1>2. [m \in 1 .. k |-> v[m]] = [m \in 1 .. k |-> w[m]]
  OBVIOUS
<1> QED
  BY <1>1, <1>2

LEMMA RequestEqual ==
  ASSUME NEW r \in Requests, NEW o, NEW d, NEW a, o = r.op, d = r.data, a = r.addr
  PROVE  [op |-> o, data |-> d, addr |-> a] = r
BY DEF Requests

\* The access that Update-DR begins is the one whose turn it is, unless an
\* error or another access refuses it.
LEMMA UpdateRequest ==
  ASSUME IInv, PosInv, CodeInv, TypeInv, SelectInv, PathInv,
         OnTrack, dtmPc = "dr", ir = DMI, line = "update"
  PROVE  DmiUpdate = IF sticky = ResultDone /\ ~ Busy /\ pc = "op" THEN reqs[n + 1] ELSE request
<1> DEFINE word == Ours(DrPre, DmiBits)
           o == SubSeq(word, 1, 2)
           d == SubSeq(word, 3, 2 + DataBits)
           a == SubSeq(word, 3 + DataBits, DmiBits)
<1>1. /\ pc \in {"op", "nop"} /\ Len(sr) = DrTotal /\ sr \in Seq(Bit)
      /\ \A m \in 1 .. DmiBits : word[m] = in[m]
  BY WordArrives
<1>2. /\ o \in Word(2) /\ d \in Word(DataBits) /\ a \in Word(AddrBits)
      /\ \A m \in 1 .. 2 : o[m] = word[m]
      /\ \A m \in 1 .. DataBits : d[m] = word[2 + m]
      /\ \A m \in 1 .. AddrBits : a[m] = word[2 + DataBits + m]
  BY <1>1, DmiWord
<1>3. DmiUpdate = IF sticky = ResultDone /\ ~Busy /\ o \in {OpRead, OpWrite}
                    THEN [op |-> o, data |-> d, addr |-> a] ELSE request
  BY DEF DmiUpdate
<1>4. o \in Seq(Bit) /\ Len(o) = 2
  BY <1>2, WordIsSeq
<1> HIDE DEF word, o, d, a
<1>5. CASE pc = "op"
  <2> DEFINE r == reqs[n + 1]
  <2>1. r \in Requests /\ in = WordOf(r)
    <3>1. n < Len(reqs) /\ n \in Nat /\ reqs \in Seq(Requests) /\ in = WordOf(reqs[n + 1])
      BY <1>5 DEF CodeInv, CallShape, CodeType
    <3> QED
      BY <3>1
  <2> HIDE DEF r
  <2>2. /\ \A k \in 1 .. 2 : in[k] = r.op[k]
        /\ \A k \in 1 .. DataBits : in[2 + k] = r.data[k]
        /\ \A k \in 1 .. AddrBits : in[2 + DataBits + k] = r.addr[k]
    BY <2>1, WordOfRequest
  <2>3. /\ r.op \in {OpRead, OpWrite} /\ r.op \in Seq(Bit) /\ Len(r.op) = 2
        /\ r.data \in Word(DataBits) /\ r.addr \in Word(AddrBits)
    BY <2>1, OpType DEF Requests
  <2>4. o = r.op
    <3>1. \A k \in 1 .. 2 : o[k] = r.op[k]
      BY <1>1, <1>2, <2>2, Widths
    <3> QED
      BY <1>4, <2>3, <3>1, SeqEqual
  <2>5. d = r.data
    <3>1. \A k \in 1 .. DataBits : d[k] = r.data[k]
      <4> SUFFICES ASSUME NEW k \in 1 .. DataBits PROVE d[k] = r.data[k]
        OBVIOUS
      <4>1. 2 + k \in 1 .. DmiBits
        BY Widths
      <4> QED
        BY <1>1, <1>2, <2>2, <4>1
    <3> QED
      BY <1>2, <2>3, <3>1, WordEqual
  <2>6. a = r.addr
    <3>1. \A k \in 1 .. AddrBits : a[k] = r.addr[k]
      <4> SUFFICES ASSUME NEW k \in 1 .. AddrBits PROVE a[k] = r.addr[k]
        OBVIOUS
      <4>1. 2 + DataBits + k \in 1 .. DmiBits
        BY Widths
      <4> QED
        BY <1>1, <1>2, <2>2, <4>1
    <3> QED
      BY <1>2, <2>3, <3>1, WordEqual
  <2>7. [op |-> o, data |-> d, addr |-> a] = r
    BY <2>1, <2>4, <2>5, <2>6, RequestEqual
  <2> QED
    BY <1>3, <1>5, <2>3, <2>4, <2>7 DEF r
<1>6. CASE pc = "nop"
  <2>1. in = Zeros(DmiBits)
    BY <1>6 DEF CodeInv, CallShape
  <2>2. in[1] = 0 /\ in[2] = 0
    BY <2>1, Widths DEF Zeros
  <2>3. o[1] = 0 /\ o[2] = 0
    BY <1>1, <1>2, <2>2, Widths
  <2>4. o \notin {OpRead, OpWrite}
    BY <2>3, OpType
  <2> QED
    BY <1>3, <1>6, <2>4
<1> QED
  BY <1>1, <1>5, <1>6

\* The target is in Exit1-DR only at the end of a scan that is on track.
LEMMA AtExitDr ==
  ASSUME IInv, PosInv, tap = "Exit1DR"
  PROVE  line = "update" /\ OnTrack /\ dtmPc = "dr"
<1>1. line = "update" /\ which = "dr"
  BY DEF IInv, ScanInv, Lines, PosInv, TapAt, OffAt, GoAt
<1>2. OnTrack
  BY <1>1 DEF OnTrack, TapAt
<1>3. dtmPc = "dr"
  BY <1>1 DEF IInv, ScanInv
<1> QED
  BY <1>1, <1>2, <1>3

LEMMA OtherTick ==
  ASSUME IInv, PosInv, CodeInv, TapTick, ~ (OnTrack /\ dtmPc = "dr" /\ ir = DMI /\ line = "update")
  PROVE  request' = request
<1>1. CASE UNCHANGED targetVars
  BY <1>1 DEF targetVars
<1>2. CASE \E tms \in {0, 1}, tdi \in Bit : Edge(tms, tdi)
  <2>1. tap' = "UpdateDR" => tap = "Exit1DR"
    BY <1>2, PosTap, EdgeTap
  <2>2. ~ (tap' = "UpdateDR" /\ ir = DMI)
    BY <2>1, AtExitDr
  <2> QED
    BY <1>2, <2>2 DEF Edge
<1> QED
  BY <1>1, <1>2, TickEdge

LEMMA StickyTick ==
  ASSUME IInv, PosInv, CodeInv, TapTick, sticky' = ResultDone, sticky # ResultDone
  PROVE  line = "update" /\ dtmPc = "dr" /\ ir = DTMCS /\ ir' = ir
<1>0. ResultBusy # ResultDone
  BY DEF ResultBusy, ResultDone
<1>1. ~ UNCHANGED targetVars
  BY DEF targetVars
<1>2. PICK tms \in {0, 1}, tdi \in Bit : Edge(tms, tdi)
  BY <1>1, TickEdge
<1>3. tap \in {"Exit1DR", "Exit2DR"} /\ ir = DTMCS /\ tap' = "UpdateDR"
  BY <1>0, <1>2 DEF Edge, Sticky
<1>4. tap = "Exit1DR"
  BY <1>3, PosTap
<1>5. ir' = ir
  BY <1>2, <1>3 DEF Edge
<1> QED
  BY <1>3, <1>4, <1>5, AtExitDr

\* What comes back on track in the middle of a call cannot reach the DMI.
LEMMA BackOnTrack ==
  ASSUME IInv, PosInv, CodeInv, SelectInv, WindowInv, TapTick, UNCHANGED <<dtmVars, pc>>,
         pc = "op", ~ OnTrack, OnTrack'
  PROVE  ~ Through'
<1>0. IDCODE # DMI /\ dtmPc' = dtmPc
  BY DEF IDCODE, DMI, dtmVars
<1>1. line' \in {"rest", "run"}
  BY StaysOff
<1>2. line # "go_idle" /\ ~ Adrift
  BY DEF CodeInv, CallOrder, Adrift
<1>3. Window
  BY <1>2 DEF WindowInv
<1>4. line \in {"idle", "run"}
  BY <1>1, <1>2 DEF TapTick, TickSelectDr, TickSelectIr, TickCapture, TickEnter, TickBypass,
         TickBit, TickUpdate, TickIdle, TickGoIdle, TickRun, Tick, ShiftLoop
<1>5. tap \in OffAt
  BY <1>2 DEF PosInv, OnTrack
<1>6. tap' = "RunTestIdle"
  BY <1>1 DEF OnTrack, TapAt
<1>7. CASE line = "idle"
  <2>1. Edge(0, 1)
    BY <1>7 DEF TapTick, TickSelectDr, TickSelectIr, TickCapture, TickEnter, TickBypass,
         TickBit, TickUpdate, TickIdle, TickGoIdle, TickRun, Tick, ShiftLoop
  <2>2. tap' = WhenLow[tap]
    BY <2>1 DEF Edge, TapNext
  <2>3. tap = "UpdateIR" /\ which = "dr"
    <3>1. tap \in (IF which = "ir" THEN {"SelectIR"} ELSE {"SelectIR", "UpdateIR"})
      BY <1>5, <1>7 DEF OffAt
    <3>2. WhenLow["SelectIR"] # "RunTestIdle"
      BY DEF WhenLow
    <3>3. which \in {"ir", "dr"}
      BY DEF IInv, ScanInv
    <3> QED
      BY <1>6, <2>2, <3>1, <3>2, <3>3
  <2>4. dtmPc = "dr"
    BY <1>7, <2>3 DEF IInv, ScanInv
  <2>5. ir # DMI
    BY <1>3, <2>3 DEF Window
  <2>6. ir' = ir
    BY <1>6, <2>1 DEF Edge
  <2> QED
    BY <1>0, <2>4, <2>5, <2>6 DEF Through
<1>8. CASE line = "run"
  <2>1. dtmPc = "run"
    BY <1>8 DEF IInv, ScanInv
  <2>2. tap \in {"TestLogicReset", "CaptureIR", "ShiftIR"}
    BY <1>5, <1>8 DEF OffAt
  <2>3. Edge(0, 1)
    <3>1. Edge(0, 1) \/ UNCHANGED targetVars
      BY <1>8 DEF TapTick, TickSelectDr, TickSelectIr, TickCapture, TickEnter, TickBypass,
         TickBit, TickUpdate, TickIdle, TickGoIdle, TickRun, Tick, ShiftLoop
    <3> QED
      BY <1>6, <2>2, <3>1 DEF targetVars
  <2>4. tap = "TestLogicReset"
    BY <1>6, <2>2, <2>3 DEF Edge, TapNext, WhenLow
  <2>5. ir' = IDCODE
    BY <1>6, <2>3, <2>4 DEF Edge, SelectInv
  <2> QED
    BY <1>0, <2>1, <2>5 DEF Through
<1> QED
  BY <1>4, <1>7, <1>8

\* The access that Update-DR begins is the next one of the call.
LEMMA TickAccepts ==
  ASSUME IInv, PosInv, CodeInv, TypeInv, SelectInv, PathInv, OwnedInv, TapTick,
         UNCHANGED <<dtmVars, callVars, trusted>>,
         OnTrack, dtmPc = "dr", ir = DMI, line = "update", sticky = ResultDone, ~ Busy, pc = "op",
         IF request' # request THEN mine' = TRUE /\ UNCHANGED <<made, got>> ELSE UNCHANGED historyVars
  PROVE  OwnedInv' /\ request' = reqs[n + 1] /\ mine' /\ UNCHANGED <<made, got>>
<1>0. /\ dtmPc' = "dr" /\ pc' = pc /\ n' = n /\ reqs' = reqs /\ kind' = kind
  BY DEF dtmVars, callVars
<1>1. line' = "idle" /\ Edge(1, 1)
  BY DEF TapTick, TickSelectDr, TickSelectIr, TickCapture, TickEnter, TickBypass,
         TickBit, TickUpdate, TickIdle, TickGoIdle, TickRun, Tick, ShiftLoop
<1>2. tap = "Exit1DR"
  <2>1. Ours(DrPre, DmiBits) = Ours(DrPre, DmiBits)
    OBVIOUS
  <2> QED
    BY <2>1, WordArrives
<1>3. tap' = "UpdateDR"
  BY <1>1, <1>2 DEF Edge, TapNext, WhenHigh
<1>4. request' = reqs[n + 1]
  <2>1. request' = DmiUpdate
    BY <1>1, <1>3 DEF Edge
  <2> QED
    BY <2>1, UpdateRequest
<1>5. n \in Nat /\ n < Len(reqs) /\ reqs[n + 1] \in Requests
  BY DEF CodeInv, CodeType, CallShape
<1>6. reqs[n + 1] # NoRequest
  BY <1>5, OpType DEF Requests, NoRequest
<1>7. request' # request
  BY <1>4, <1>6 DEF Busy
<1>8. mine' = TRUE /\ made' = made /\ got' = got
  BY <1>7
<1>9. ~ mine /\ made \in Nat
  BY DEF OwnedInv, OwnInv, TypeInv, CallTypes
<1>10. made = n
  <2>1. Issued = n
    BY DEF Issued, Passed
  <2>2. Taken = Issued
    BY DEF OwnedInv, CountInv, Through
  <2> QED
    BY <1>9, <2>1, <2>2 DEF Taken
<1>11. Issued' = n + 1
  BY <1>0, <1>1 DEF Issued, Passed
<1>12. Taken' = n + 1
  BY <1>8, <1>10 DEF Taken
<1>13. Busy' /\ request' = reqs'[made' + 1]
  BY <1>0, <1>4, <1>6, <1>8, <1>10 DEF Busy
<1>14. OwnInv'
  BY <1>0, <1>5, <1>8, <1>11, <1>12, <1>13 DEF OwnedInv, OwnInv
<1>15. LateInv'
  BY <1>1 DEF LateInv
<1>16. CountInv'
  BY <1>11, <1>12 DEF CountInv
<1> QED
  BY <1>4, <1>8, <1>14, <1>15, <1>16 DEF OwnedInv

\* Any other tick begins no access.
LEMMA TickBeginsNone ==
  ASSUME IInv, PosInv, CodeInv, TypeInv, SelectInv, PathInv, OwnedInv, TapTick,
         ~ (OnTrack /\ dtmPc = "dr" /\ ir = DMI /\ line = "update" /\ sticky = ResultDone /\ ~ Busy /\ pc = "op")
  PROVE  request' = request
<1>1. CASE OnTrack /\ dtmPc = "dr" /\ ir = DMI /\ line = "update"
  <2>1. Edge(1, 1)
    BY <1>1 DEF TapTick, TickSelectDr, TickSelectIr, TickCapture, TickEnter, TickBypass,
           TickBit, TickUpdate, TickIdle, TickGoIdle, TickRun, Tick, ShiftLoop
  <2>2. request' = DmiUpdate \/ request' = request
    BY <2>1 DEF Edge
  <2>3. DmiUpdate = request
    BY <1>1, UpdateRequest
  <2> QED
    BY <2>2, <2>3
<1>2. CASE ~ (OnTrack /\ dtmPc = "dr" /\ ir = DMI /\ line = "update")
  BY <1>2, OtherTick
<1> QED
  BY <1>1, <1>2

LEMMA TickLate ==
  ASSUME IInv, PosInv, CodeInv, LateInv, TapTick, UNCHANGED dtmVars, request' = request
  PROVE  LateInv'
<1> SUFFICES ASSUME OnTrack', dtmPc' = "dr", ir' = DMI, line' \in {"shift", "update"}, Busy',
                    sticky' = ResultDone
             PROVE  FALSE
  BY DEF LateInv
<1>1. Busy /\ dtmPc = "dr"
  BY DEF Busy, dtmVars
<1>2. line \in {"enter", "shift"}
  BY DEF TapTick, TickSelectDr, TickSelectIr, TickCapture, TickEnter, TickBypass,
         TickBit, TickUpdate, TickIdle, TickGoIdle, TickRun, Tick, ShiftLoop
<1>3. OnTrack
  BY StaysOff
<1>4. ir = DMI
  BY <1>1, <1>2, <1>3, DrKeepsIr
<1>5. sticky = ResultDone
  BY <1>2, StickyTick
<1>6. CASE line = "shift"
  BY <1>1, <1>3, <1>4, <1>5, <1>6 DEF LateInv
<1>7. CASE line = "enter"
  <2>1. which = "dr"
    BY <1>1, <1>7 DEF IInv, ScanInv
  <2>2. tap = "CaptureDR"
    BY <1>3, <1>7, <2>1 DEF OnTrack, TapAt
  <2>3. Edge(0, 1)
    BY <1>7 DEF TapTick, TickSelectDr, TickSelectIr, TickCapture, TickEnter, TickBypass,
           TickBit, TickUpdate, TickIdle, TickGoIdle, TickRun, Tick, ShiftLoop
  <2>4. sticky' = ResultBusy
    BY <1>1, <1>4, <1>5, <2>2, <2>3 DEF Edge, Sticky
  <2> QED
    BY <2>4 DEF ResultBusy, ResultDone
<1> QED
  BY <1>2, <1>6, <1>7

LEMMA TickOwned ==
  ASSUME IInv, PosInv, CodeInv, TypeInv, SelectInv, PathInv, WindowInv, OwnedInv, TapTick,
         UNCHANGED <<dtmVars, callVars, trusted>>,
         IF request' # request THEN mine' = TRUE /\ UNCHANGED <<made, got>> ELSE UNCHANGED historyVars
  PROVE  OwnedInv'
<1> DEFINE Accepts == OnTrack /\ dtmPc = "dr" /\ ir = DMI /\ line = "update" /\ sticky = ResultDone
                        /\ ~ Busy /\ pc = "op"
<1>1. CASE Accepts
  BY <1>1, TickAccepts
<1>2. CASE ~ Accepts
  <2>1. request' = request
    BY <1>2, TickBeginsNone
  <2>2. /\ made' = made /\ mine' = mine /\ got' = got /\ pc' = pc /\ n' = n /\ reqs' = reqs
        /\ kind' = kind /\ dtmPc' = dtmPc /\ trusted' = trusted
    BY <2>1 DEF historyVars, callVars, dtmVars
  <2>3. (Busy' <=> Busy) /\ Taken' = Taken
    BY <2>1, <2>2 DEF Busy, Taken
  <2>4. LateInv'
    BY <2>1, TickLate DEF OwnedInv
  <2>5. Passed' => Passed \/ (dtmPc = "dr" /\ line = "update")
    BY <2>2 DEF IInv, ScanInv, Passed, TapTick, TickSelectDr, TickSelectIr, TickCapture, TickEnter, TickBypass,
           TickBit, TickUpdate, TickIdle, TickGoIdle, TickRun, Tick, ShiftLoop
  <2>6. Passed => Passed'
    BY <2>2 DEF Passed, TapTick, TickSelectDr, TickSelectIr, TickCapture, TickEnter, TickBypass,
           TickBit, TickUpdate, TickIdle, TickGoIdle, TickRun, Tick, ShiftLoop
  <2>7. /\ Issued \in Nat /\ Issued' \in Nat /\ Issued <= Issued' /\ Taken \in Nat
        /\ Issued' = Issued \/ (pc = "op" /\ dtmPc = "dr" /\ line = "update")
    <3>1. n \in Nat /\ reqs \in Seq(Requests) /\ made \in Nat
      BY DEF CodeInv, CodeType, TypeInv, CallTypes
    <3>2. Len(reqs) \in Nat
      BY <3>1
    <3>3. Taken \in Nat
      BY <3>1 DEF Taken
    <3>4. Issued' = IF pc = "op" THEN (IF Passed' THEN n + 1 ELSE n) ELSE Len(reqs)
      BY <2>2 DEF Issued
    <3> QED
      BY <2>5, <2>6, <3>1, <3>2, <3>3, <3>4 DEF Issued
  <2>8. OwnInv'
    <3>1. Taken' <= Issued'
      BY <2>3, <2>7 DEF OwnedInv, OwnInv
    <3>2. mine' => Busy' /\ request' = reqs'[made' + 1]
      BY <2>1, <2>2, <2>3 DEF OwnedInv, OwnInv
    <3> QED
      BY <2>2, <2>3, <3>1, <3>2 DEF OwnedInv, OwnInv
  <2>9. CountInv'
    <3> SUFFICES ASSUME sticky' = ResultDone,
                        (pc' = "op" /\ OnTrack' /\ Through') \/ (pc' \in {"nop", "pause"} /\ trusted')
                 PROVE  Taken' = Issued'
      BY DEF CountInv
    <3>1. CASE pc \in {"nop", "pause"} /\ trusted
      <4>1. Issued' = Issued
        BY <2>7, <3>1
      <4>2. reg = DMI /\ DMI # NoReg /\ DTMCS # DMI
        BY <3>1 DEF CodeInv, CallOrder, DMI, NoReg, DTMCS
      <4>3. sticky = ResultDone
        BY <3>1, <4>2, StickyTick DEF IInv, CachedInv
      <4> QED
        BY <2>3, <3>1, <4>1, <4>3 DEF OwnedInv, CountInv
    <3>2. CASE pc = "op" /\ OnTrack' /\ Through'
      <4>1. OnTrack
        <5>1. UNCHANGED <<dtmVars, pc>>
          BY <2>2
        <5> QED
          BY <3>2, <5>1, BackOnTrack
      <4>2. line # "rest"
        BY DEF TapTick, TickSelectDr, TickSelectIr, TickCapture, TickEnter, TickBypass,
           TickBit, TickUpdate, TickIdle, TickGoIdle, TickRun, Tick, ShiftLoop
      <4>3. Through
        BY <2>2, <3>2, <4>1, <4>2, DrKeepsIr DEF Through
      <4>4. sticky = ResultDone
        <5>1. DTMCS # DMI
          BY DEF DTMCS, DMI
        <5> QED
          BY <4>3, <5>1, StickyTick DEF Through
      <4>5. Taken = Issued
        BY <3>2, <4>1, <4>3, <4>4 DEF OwnedInv, CountInv
      <4>6. ~ (dtmPc = "dr" /\ line = "update")
        <5> SUFFICES ASSUME dtmPc = "dr", line = "update" PROVE FALSE
          OBVIOUS
        <5>1. ir = DMI
          BY <4>3 DEF Through
        <5>2. ~ Busy
          BY <4>1, <4>4, <5>1 DEF OwnedInv, LateInv
        <5> QED
          BY <1>2, <3>2, <4>1, <4>4, <5>1, <5>2
      <4> QED
        BY <2>3, <2>7, <4>5, <4>6
    <3> QED
      BY <2>2, <3>1, <3>2
  <2> QED
    BY <2>4, <2>8, <2>9 DEF OwnedInv
<1> QED
  BY <1>1, <1>2

\* A step that neither begins nor ends an access, nor hands one out.
LEMMA OwnedKept ==
  ASSUME OwnedInv, UNCHANGED <<request, sticky, historyVars, kind, reqs>>, Issued' = Issued,
         line' \notin {"shift", "update"}, pc' = "op" /\ dtmPc' = "ir" => n' = 0,
         \/ ~ ((pc' = "op" /\ OnTrack' /\ Through') \/ (pc' \in {"nop", "pause"} /\ trusted'))
         \/ (pc = "op" /\ OnTrack /\ Through) \/ (pc \in {"nop", "pause"} /\ trusted)
  PROVE  OwnedInv'
<1>1. made' = made /\ mine' = mine /\ got' = got /\ (Busy' <=> Busy) /\ Taken' = Taken
  BY DEF historyVars, Busy, Taken
<1>2. OwnInv'
  BY <1>1 DEF OwnedInv, OwnInv
<1>3. LateInv'
  BY DEF LateInv
<1>4. CountInv'
  BY <1>1 DEF OwnedInv, CountInv
<1> QED
  BY <1>2, <1>3, <1>4 DEF OwnedInv

LEMMA CallOwned ==
  ASSUME CallNop \/ CallRead \/ CallWrite \/ CallReadVector \/ CallWriteVector \/ Connect
  PROVE  OwnedInv'
<1>1. /\ made' = 0 /\ mine' = FALSE /\ got' = <<>> /\ n' = 0
      /\ \/ pc' = "op" /\ dtmPc' \in {"ir", "dr"} /\ line' = "select_dr"
         \/ pc' \in {"nop", "init"} /\ reqs' = <<>> /\ line' \in {"select_dr", "go_idle"}
  <2>1. CASE CallNop
    BY <2>1 DEF CallNop, Call, Nop, BeginScan, BeginShift
  <2>2. CASE Connect
    BY <2>2 DEF Connect, Call, BeginInit, BeginGoIdle
  <2>3. ASSUME NEW k, NEW accesses, CallAccess(k, accesses)
        PROVE  /\ made' = 0 /\ mine' = FALSE /\ got' = <<>> /\ n' = 0
               /\ pc' = "op" /\ dtmPc' \in {"ir", "dr"} /\ line' = "select_dr"
    BY <2>3 DEF CallAccess, Call, Scan, BeginScan, BeginShift
  <2>4. CASE CallRead \/ CallWrite \/ CallReadVector \/ CallWriteVector
    BY <2>3, <2>4, Zenon DEF CallRead, CallWrite, CallReadVector, CallWriteVector
  <2> QED
    BY <2>1, <2>2, <2>4
<1>2. Issued' = 0
  <2>1. CASE pc' = "op"
    BY <1>1, <2>1 DEF Issued, Passed
  <2>2. CASE pc' # "op"
    <3>1. Len(reqs') = 0
      BY <1>1, <2>2
    <3> QED
      BY <2>2, <3>1 DEF Issued
  <2> QED
    BY <2>1, <2>2
<1>3. Taken' = 0
  BY <1>1 DEF Taken
<1>4. OwnInv'
  BY <1>1, <1>2, <1>3 DEF OwnInv
<1>5. LateInv'
  BY <1>1 DEF LateInv
<1>6. CountInv'
  BY <1>2, <1>3 DEF CountInv
<1> QED
  BY <1>4, <1>5, <1>6 DEF OwnedInv

LEMMA GoesOnOwned ==
  ASSUME IInv, CodeInv, OwnedInv,
         \/ InitIdcode \/ InitDtmcs \/ OpNext \/ OpLast
         \/ ReadBusy \/ ReadAgain \/ ReadGivesUp \/ NotOk
  PROVE  OwnedInv'
<1>0. n \in Nat /\ reqs \in Seq(Requests)
  BY DEF CodeInv, CodeType
<1>1. ASSUME NEW f, NEW bits, BeginScan(f, bits)
      PROVE  /\ UNCHANGED targetVars /\ line = "rest" /\ line' = "select_dr" /\ dtmPc' \in {"ir", "dr"}
             /\ reg = Instruction(f) => dtmPc' = "dr"
  BY <1>1 DEF BeginScan, BeginShift
<1>2. CASE InitIdcode \/ InitDtmcs \/ ReadBusy \/ ReadAgain \/ ReadGivesUp \/ NotOk
  <2>1. /\ UNCHANGED <<kind, reqs, historyVars, trusted, targetVars>> /\ pc # "op" /\ pc' # "op"
        /\ line' \in {"select_dr", "run"}
        /\ pc' \in {"nop", "pause"} => pc \in {"nop", "pause"}
    BY <1>2 DEF InitIdcode, InitDtmcs, ReadBusy, ReadAgain, ReadGivesUp, NotOk, Reset, Nop, Keep,
         Returned, BeginScan, BeginShift, BeginIdle, BeginRun
  <2>2. Issued' = Issued
    BY <2>1 DEF Issued
  <2>3. UNCHANGED <<request, sticky, historyVars, kind, reqs>>
    BY <2>1 DEF targetVars
  <2> QED
    BY <2>1, <2>2, <2>3, OwnedKept
<1>3. CASE OpNext
  <2>1. /\ UNCHANGED <<kind, reqs, historyVars, trusted>> /\ pc = "op" /\ pc' = "op" /\ n' = n + 1
        /\ dtmPc = "rest" /\ Scan(reqs[n + 2])
    BY <1>3 DEF OpNext, Keep, Returned
  <2>2. reg = Instruction("dmi")
    BY <2>1, DmiScan DEF CodeInv, CallOrder
  <2>3. UNCHANGED targetVars /\ line = "rest" /\ line' = "select_dr" /\ dtmPc' = "dr"
    BY <1>1, <2>1, <2>2, Zenon DEF Scan
  <2>4. Issued' = Issued
    BY <2>1, <2>3 DEF Issued, Passed
  <2>5. UNCHANGED <<request, sticky, historyVars, kind, reqs>> /\ tap' = tap /\ ir' = ir
    BY <2>1, <2>3 DEF targetVars
  <2>6. (OnTrack' => OnTrack) /\ (Through' => Through)
    BY <2>3, <2>5 DEF OnTrack, TapAt, Through
  <2> QED
    BY <2>1, <2>3, <2>4, <2>5, <2>6, OwnedKept
<1>4. CASE OpLast
  <2>1. /\ UNCHANGED <<kind, reqs, historyVars, trusted>> /\ pc = "op" /\ pc' = "nop"
        /\ dtmPc = "rest" /\ BeginScan("dmi", Zeros(DmiBits)) /\ n + 1 = Len(reqs)
    BY <1>4 DEF OpLast, Keep, Returned, Nop
  <2>2. UNCHANGED targetVars /\ line = "rest" /\ line' = "select_dr"
    BY <1>1, <2>1, Zenon
  <2>3. Issued' = Issued
    BY <2>1, <2>2 DEF Issued, Passed
  <2>4. UNCHANGED <<request, sticky, historyVars, kind, reqs>>
    BY <2>1, <2>2 DEF targetVars
  <2>5. trusted => OnTrack /\ Through
    <3>1. reg = DMI /\ DMI # NoReg
      BY <2>1 DEF CodeInv, CallOrder, DMI, NoReg
    <3> QED
      BY <2>1, <2>2, <3>1 DEF IInv, StepInv, CachedInv, OnTrack, Through
  <2> QED
    BY <2>1, <2>2, <2>3, <2>4, <2>5, OwnedKept
<1> QED
  BY <1>2, <1>3, <1>4

LEMMA DtmOwned ==
  ASSUME IInv, CodeInv, OwnedInv, Selected \/ ScannedWait \/ Scanned \/ Waited,
         UNCHANGED <<callVars, historyVars, trusted>>
  PROVE  OwnedInv'
<1>1. /\ UNCHANGED targetVars /\ line = "rest" /\ line' \in {"select_dr", "run", "rest"}
      /\ \/ dtmPc = "ir" /\ dtmPc' = "dr" /\ line' = "select_dr"
         \/ dtmPc \in {"dr", "run"} /\ dtmPc' = "run" /\ line' = "run"
         \/ dtmPc \in {"dr", "run"} /\ dtmPc' = "rest" /\ line' = "rest"
  BY DEF Selected, ScannedWait, Scanned, Waited, BeginShift, BeginRun, tapVars
<1>2. /\ pc' = pc /\ n' = n /\ reqs' = reqs /\ kind' = kind /\ tap' = tap /\ ir' = ir
      /\ UNCHANGED <<request, sticky, historyVars, kind, reqs>>
  BY <1>1 DEF callVars, targetVars
<1>3. Issued' = Issued
  BY <1>1, <1>2 DEF Issued, Passed
<1>4. (OnTrack' => OnTrack) /\ (Through' => Through)
  BY <1>1, <1>2 DEF OnTrack, TapAt, Through
<1>5. pc' = "op" /\ dtmPc' = "ir" => n' = 0
  BY <1>1
<1> QED
  BY <1>1, <1>2, <1>3, <1>4, <1>5, OwnedKept

LEMMA ReturnOwned ==
  ASSUME ReturnDone \/ ReturnFailed \/ ReturnNone
  PROVE  OwnedInv'
<1>1. /\ made' = 0 /\ mine' = FALSE /\ got' = <<>> /\ reqs' = <<>> /\ pc' = "idle" /\ dtmPc' = "rest"
  BY DEF ReturnDone, ReturnFailed, ReturnNone, Return, Returned, dtmVars
<1>2. Taken' = 0 /\ Issued' = 0
  BY <1>1 DEF Taken, Issued
<1>3. OwnInv' /\ LateInv' /\ CountInv'
  BY <1>1, <1>2 DEF OwnInv, LateInv, CountInv
<1> QED
  BY <1>3 DEF OwnedInv

\* An access of the call is one of those that it makes.
LEMMA OwnAccess ==
  ASSUME CodeInv, TypeInv, OwnedInv, mine
  PROVE  /\ made + 1 \in 1 .. Len(reqs) /\ request = reqs[made + 1] /\ request \in Requests /\ Busy
         /\ made \in Nat /\ Issued <= Len(reqs)
         /\ request.op = IF kind \in ReadKinds THEN OpRead ELSE OpWrite
<1>1. n \in Nat /\ reqs \in Seq(Requests) /\ made \in Nat /\ (pc = "op" => n < Len(reqs))
  BY DEF CodeInv, CodeType, CallShape, TypeInv, CallTypes
<1>2. Len(reqs) \in Nat
  BY <1>1
<1>3. Issued \in Nat /\ Issued <= Len(reqs)
  BY <1>1, <1>2 DEF Issued
<1>4. made + 1 <= Issued /\ Busy /\ request = reqs[made + 1]
  BY DEF OwnedInv, OwnInv, Taken
<1>5. made + 1 \in 1 .. Len(reqs)
  BY <1>1, <1>2, <1>3, <1>4
<1> QED
  BY <1>1, <1>3, <1>4, <1>5 DEF CodeInv, CallShape

LEMMA OutsideOwned ==
  ASSUME CodeInv, TypeInv, OwnedInv, AccessDone \/ AccessFails \/ LosePower
  PROVE  OwnedInv'
<1>0. /\ UNCHANGED <<pc, kind, reqs, n, line, dtmPc>> /\ request' = NoRequest /\ mine' = FALSE
      /\ ~ Busy'
  BY DEF AccessDone, AccessFails, LosePower, RequestDone, RequestFails, PowerCycle, callVars, tapVars,
         dtmVars, Busy
<1>1. LateInv'
  BY <1>0 DEF LateInv
<1>2. Issued' = Issued /\ Taken' = made'
  BY <1>0 DEF Issued, Passed, Taken
<1>3. made \in Nat /\ got \in Seq(Word(DataBits)) /\ Taken \in Nat
  BY DEF TypeInv, CallTypes, Taken
<1>4. CASE AccessDone
  <2>1. /\ IF mine THEN made' = made + 1 /\ got' = (IF request.op = OpRead THEN Append(got, response') ELSE got)
                   ELSE made' = made /\ got' = got
        /\ UNCHANGED <<tap, ir, sticky, trusted>>
    BY <1>4 DEF AccessDone, RequestDone
  <2>2. Taken' = Taken
    BY <1>2, <2>1 DEF Taken
  <2>3. Len(got') = IF kind' \in ReadKinds THEN made' ELSE 0
    <3>1. CASE mine
      <4>1. request.op = IF kind \in ReadKinds THEN OpRead ELSE OpWrite
        BY <3>1, OwnAccess
      <4>2. Len(Append(got, response')) = Len(got) + 1
        BY <1>3
      <4> QED
        BY <1>0, <1>3, <2>1, <3>1, <4>1, <4>2, OpType DEF OwnedInv, OwnInv
    <3>2. CASE ~ mine
      BY <1>0, <2>1, <3>2 DEF OwnedInv, OwnInv
    <3> QED
      BY <3>1, <3>2
  <2>4. OwnInv'
    BY <1>0, <1>2, <2>2, <2>3 DEF OwnedInv, OwnInv
  <2>5. CountInv'
    <3>1. (OnTrack' <=> OnTrack) /\ (Through' <=> Through)
      BY <1>0, <1>4, <2>1 DEF OnTrack, TapAt, Through, AccessDone, tapVars
    <3> QED
      BY <1>0, <1>2, <2>1, <2>2, <3>1 DEF OwnedInv, CountInv
  <2> QED
    BY <1>1, <2>4, <2>5 DEF OwnedInv
<1>5. CASE AccessFails \/ LosePower
  <2>1. made' = made /\ got' = got
    BY <1>5 DEF AccessFails, LosePower
  <2>2. Taken' <= Issued'
    <3>1. made <= Taken
      BY <1>3 DEF Taken
    <3>2. Issued \in Nat
      <4>1. n \in Nat /\ reqs \in Seq(Requests)
        BY DEF CodeInv, CodeType
      <4> QED
        BY <4>1 DEF Issued
    <3> QED
      BY <1>2, <1>3, <2>1, <3>1, <3>2 DEF OwnedInv, OwnInv
  <2>3. OwnInv'
    BY <1>0, <2>1, <2>2 DEF OwnedInv, OwnInv
  <2>4. CountInv'
    <3>1. CASE AccessFails
      <4>1. sticky' # ResultDone
        BY <3>1 DEF AccessFails, RequestFails, ResultFail, ResultDone
      <4> QED
        BY <4>1 DEF CountInv
    <3>2. CASE LosePower
      <4>1. line' = "rest" /\ tap' = "TestLogicReset" /\ trusted' = FALSE
        BY <1>0, <3>2 DEF LosePower, PowerCycle
      <4>2. ~ OnTrack'
        BY <4>1 DEF OnTrack, TapAt
      <4> QED
        BY <4>1, <4>2 DEF CountInv
    <3> QED
      BY <1>5, <3>1, <3>2
  <2> QED
    BY <1>1, <2>3, <2>4 DEF OwnedInv
<1> QED
  BY <1>4, <1>5

LEMMA OwnedStep ==
  IInv /\ PosInv /\ CodeInv /\ TypeInv /\ SelectInv /\ PathInv /\ WindowInv /\ OwnedInv /\ [Next]_vars
    => OwnedInv'
<1> SUFFICES ASSUME IInv, PosInv, CodeInv, TypeInv, SelectInv, PathInv, WindowInv, OwnedInv, [Next]_vars
             PROVE  OwnedInv'
  OBVIOUS
<1>1. CASE CallNop \/ CallRead \/ CallWrite \/ CallReadVector \/ CallWriteVector \/ Connect
  BY <1>1, CallOwned
<1>2. CASE /\ DtmStep /\ UNCHANGED <<callVars, trusted, cycles>>
           /\ IF request' # request THEN mine' = TRUE /\ UNCHANGED <<made, got>>
                                    ELSE UNCHANGED historyVars
  <2>1. CASE TapTick /\ UNCHANGED dtmVars
    <3>1. UNCHANGED <<dtmVars, callVars, trusted>>
      BY <1>2, <2>1
    <3> QED
      BY <1>2, <2>1, <3>1, TickOwned
  <2>2. CASE Selected \/ ScannedWait \/ Scanned \/ Waited
    <3>1. request' = request
      BY <2>2 DEF Selected, ScannedWait, Scanned, Waited, targetVars
    <3>2. UNCHANGED <<callVars, historyVars, trusted>>
      BY <1>2, <3>1
    <3> QED
      BY <2>2, <3>2, DtmOwned
  <2> QED
    BY <1>2, <2>1, <2>2 DEF DtmStep
<1>3. CASE \/ InitIdcode \/ InitDtmcs \/ OpNext \/ OpLast
           \/ ReadBusy \/ ReadAgain \/ ReadGivesUp \/ NotOk
  BY <1>3, GoesOnOwned
<1>4. CASE ReturnDone \/ ReturnFailed \/ ReturnNone
  BY <1>4, ReturnOwned
<1>5. CASE AccessDone \/ AccessFails \/ LosePower
  BY <1>5, OutsideOwned
<1>6. CASE UNCHANGED vars
  <2>1. /\ UNCHANGED <<request, sticky, historyVars, kind, reqs, pc, n, dtmPc, line, tap, ir, trusted, which>>
    BY <1>6 DEF vars, targetVars, historyVars, callVars, dtmVars, tapVars
  <2>2. Issued' = Issued /\ Taken' = Taken /\ (Busy' <=> Busy)
    BY <2>1 DEF Issued, Passed, Taken, historyVars, Busy
  <2>3. (OnTrack' <=> OnTrack) /\ (Through' <=> Through)
    BY <2>1 DEF OnTrack, TapAt, Through
  <2>4. LateInv'
    BY <2>1, <2>2, <2>3 DEF OwnedInv, LateInv
  <2>5. CountInv'
    BY <2>1, <2>2, <2>3 DEF OwnedInv, CountInv
  <2>6. OwnInv'
    BY <2>1, <2>2 DEF OwnedInv, OwnInv, historyVars
  <2> QED
    BY <2>4, <2>5, <2>6 DEF OwnedInv
<1> QED
  BY <1>1, <1>2, <1>3, <1>4, <1>5, <1>6, Zenon DEF Next, Host

LEMMA InitOwned == Init => OwnedInv
<1> SUFFICES ASSUME Init PROVE OwnedInv
  OBVIOUS
<1>1. /\ pc = "idle" /\ kind = "nop" /\ reqs = <<>> /\ made = 0 /\ mine = FALSE /\ got = <<>>
      /\ line = "rest" /\ request = NoRequest
  BY DEF Init, TapInit, TargetInit
<1>2. Taken = 0 /\ Issued = 0 /\ ~ Busy
  BY <1>1 DEF Taken, Issued, Busy
<1>3. OwnInv /\ LateInv /\ CountInv
  BY <1>1, <1>2 DEF OwnInv, LateInv, CountInv, ReadKinds
<1> QED
  BY <1>3 DEF OwnedInv

-----------------------------------------------------------------------------
(***************************************************************************)
(* The seventh layer: what comes out of the DMI register, and what dmi.c   *)
(* concludes from it.                                                      *)
(***************************************************************************)
\* Bit m of the register, wherever it is since it was captured.
OutBit(m) == IF m <= Len(old) THEN old[m] ELSE sr[DrPre + m - i]

\* The register has been captured for the scan of this step of the call.
After == (dtmPc = "dr" /\ line \in {"shift", "update", "idle", "rest"}) \/ dtmPc \in {"run", "rest"}

LastRead == kind \in ReadKinds /\ made > 0 => response = got[made]

\* The second scan of a pair of reads brings the result of the first.
FirstRead ==
  pc = "op" /\ kind = "read_vector" /\ n = 1 /\ After /\ sticky = ResultDone =>
    made >= 1 /\ \A m \in 1 .. DataBits : OutBit(2 + m) = got[1][m]

FirstKept == pc = "nop" /\ kind = "read_vector" /\ sticky = ResultDone => made >= 1 /\ buffer = <<got[1]>>

\* A NOP that brings DONE brings it for everything that was asked.
DoneIsDone ==
  pc = "nop" /\ kind # "nop" /\ After /\ OutBit(1) = 0 /\ OutBit(2) = 0 =>
    /\ sticky = ResultDone /\ ~ Busy /\ made = Len(reqs)
    /\ kind \in ReadKinds => \A m \in 1 .. DataBits : OutBit(2 + m) = got[made][m]

ResultInv == trusted => LastRead /\ FirstRead /\ FirstKept /\ DoneIsDone

\* The whole inductive invariant.
PortInv ==
  /\ IInv /\ PosInv /\ CodeInv /\ TypeInv /\ SelectInv /\ PathInv /\ WindowInv
  /\ OwnedInv /\ ResultInv

LEMMA TrustedScan ==
  ASSUME IInv, CodeInv, trusted, pc \in {"op", "nop"}
  PROVE  reg = DMI /\ OnTrack /\ Through /\ (dtmPc # "ir" => ir = DMI)
<1>1. reg = DMI /\ DMI # NoReg /\ line # "go_idle"
  BY DEF CodeInv, CallOrder, DMI, NoReg
<1>2. OnTrack /\ (dtmPc # "ir" => ir = DMI)
  BY <1>1 DEF IInv, StepInv, CachedInv, OnTrack
<1> QED
  BY <1>1, <1>2 DEF Through

\* The tick that captures the register.
LEMMA OutCaptured ==
  ASSUME IInv, CodeInv, TypeInv, OnTrack, dtmPc = "dr", ir = DMI, line = "enter", TapTick
  PROVE  /\ \A m \in 1 .. 2 : OutBit(m)' = (IF Busy THEN ResultBusy ELSE sticky)[m]
         /\ \A m \in 1 .. DataBits : OutBit(2 + m)' = response[m]
         /\ tap = "CaptureDR"
<1>1. which = "dr" /\ i = 0 /\ Len(old) = 0 /\ old = <<>>
  <2>1. old = <<>> /\ i = 0 /\ which = "dr"
    BY DEF IInv, ScanInv, CodeInv, ScanWords, TypeInv, OldInv
  <2> QED
    BY <2>1
<1>2. tap = "CaptureDR"
  BY <1>1 DEF OnTrack, TapAt
<1>3. Edge(0, 1) /\ i' = i /\ old' = old
  BY DEF TapTick, TickSelectDr, TickSelectIr, TickCapture, TickEnter, TickBypass,
         TickBit, TickUpdate, TickIdle, TickGoIdle, TickRun, Tick, ShiftLoop
<1>4. \A m \in 1 .. DrLen : sr'[DrPre + m] = DrCaptured[m]
  <2>1. sr' = ShiftRegister(1) /\ TargetTypeOK
    BY <1>3 DEF Edge, TypeInv, TargetInv
  <2> QED
    BY <1>2, <2>1, CapturedDr
<1>5. DrLen = DmiBits
  BY DEF DrLen, DMI, IDCODE, DTMCS
<1>6. \A m \in 1 .. DmiBits : OutBit(m)' = DrCaptured[m]
  <2> SUFFICES ASSUME NEW m \in 1 .. DmiBits PROVE OutBit(m)' = DrCaptured[m]
    OBVIOUS
  <2>1. i' = 0 /\ Len(old') = 0
    BY <1>1, <1>3
  <2>2. OutBit(m)' = sr'[DrPre + m - 0]
    BY <2>1, Widths DEF OutBit
  <2> QED
    BY <1>4, <1>5, <2>2, Widths
<1> DEFINE st == IF Busy THEN ResultBusy ELSE sticky
           a == Zeros(AddrBits)
           r == response
           w == st \o r \o a
<1>7. st \in Seq(Bit) /\ Len(st) = 2 /\ r \in Seq(Bit) /\ Len(r) = DataBits /\ a \in Seq(Bit)
  <2>1. st \in {ResultDone, ResultFail, ResultBusy} /\ r \in Word(DataBits)
    BY DEF TypeInv, TargetInv, TargetTypeOK
  <2>2. \A s \in {ResultDone, ResultFail, ResultBusy} : s \in Seq(Bit) /\ Len(s) = 2
    <3>1. ResultDone \in Seq(Bit) /\ Len(ResultDone) = 2
      BY DEF ResultDone, Bit
    <3>2. ResultFail \in Seq(Bit) /\ Len(ResultFail) = 2
      BY DEF ResultFail, Bit
    <3>3. ResultBusy \in Seq(Bit) /\ Len(ResultBusy) = 2
      BY DEF ResultBusy, Bit
    <3> QED
      BY <3>1, <3>2, <3>3
  <2>3. r \in Seq(Bit) /\ Len(r) = DataBits
    BY <2>1, Widths, WordIsSeq
  <2> QED
    BY <2>1, <2>2, <2>3, Widths, ZerosType
<1>8. DrCaptured = w
  BY DEF DrCaptured, DMI, IDCODE, DTMCS
<1> HIDE DEF st, a, r
<1>9. /\ \A m \in 1 .. Len(st) : w[m] = st[m]
      /\ \A m \in 1 .. Len(r) : w[Len(st) + m] = r[m]
  BY <1>7, ConcatThree, ZenonT(60)
<1> HIDE DEF w
<1>10. \A m \in 1 .. 2 : OutBit(m)' = st[m]
  BY <1>6, <1>7, <1>8, <1>9, Widths
<1>11. \A m \in 1 .. DataBits : OutBit(2 + m)' = r[m]
  <2> SUFFICES ASSUME NEW m \in 1 .. DataBits PROVE OutBit(2 + m)' = r[m]
    OBVIOUS
  <2>1. 2 + m \in 1 .. DmiBits
    BY Widths
  <2>2. OutBit(2 + m)' = DrCaptured[2 + m]
    BY <1>6, <2>1
  <2> QED
    BY <1>7, <1>8, <1>9, <2>2
<1> QED
  BY <1>2, <1>10, <1>11 DEF st, r

\* Every later tick moves the bits, and loses none of them.
LEMMA OutKept ==
  ASSUME IInv, CodeInv, TypeInv, SelectInv, OnTrack, Through, dtmPc \in {"dr", "run"}, pc \in {"op", "nop"},
         dtmPc = "dr" => line \in {"shift", "update", "idle"}, TapTick, UNCHANGED dtmVars,
         NEW m \in 1 .. DmiBits
  PROVE  OutBit(m)' = OutBit(m)
<1>0. m \in Nat /\ m >= 1 /\ m <= DmiBits
  BY Widths
<1>1. CASE line = "shift" /\ dtmPc = "dr"
  <2>1. /\ Len(sr) = Total /\ sr \in Seq(Bit) /\ Len(new) = DmiBits
        /\ tap = IF which = "ir" THEN "ShiftIR" ELSE "ShiftDR"
    BY <1>1, OnTrackLength
  <2>2. which = "dr" /\ Pre = DrPre /\ Total \in Nat /\ Total = DrPre + DmiBits + DrPost
    BY <1>1, <2>1, ScanLengths
  <2>3. tap = "ShiftDR"
    BY <2>1, <2>2
  <2>4. PICK tdi \in Bit : Edge(LeaveShift, tdi)
    BY <1>1, ShiftTick
  <2>5. \A k \in 1 .. Total - 1 : sr'[k] = sr[k + 1]
    <3>1. Len(sr) > 0
      BY DEF TypeInv, TargetInv
    <3> QED
      BY <2>1, <2>3, <2>4, <3>1, ShiftedBits
  <2>6. /\ i' = i + 1 /\ i \in Nat
        /\ \/ (i < DrPre \/ i >= DrPre + DmiBits) /\ old' = old
           \/ i >= DrPre /\ i < DrPre + DmiBits /\ old' = Append(old, Tdo)
    <3>1. i \in Nat
      BY DEF CodeInv, CodeType
    <3> QED
      BY <1>1, <2>1, <2>2, <3>1, ShiftStep
  <2>7. old \in Seq(Bit) /\ Len(old) = IF i < DrPre THEN 0 ELSE IF i > DrPre + DmiBits THEN DmiBits ELSE i - DrPre
    BY <1>1, <2>1, <2>2 DEF TypeInv, OldInv, CameOut
  <2>8. Tdo = sr[1]
    <3>1. Len(sr) > 0 /\ sr \in Seq(Bit)
      BY DEF TypeInv, TargetInv, TargetTypeOK
    <3> QED
      BY <2>3, <3>1 DEF Tdo
  <2>9. CASE i < DrPre
    <3>1. Len(old) = 0 /\ old' = old
      BY <2>6, <2>7, <2>9, Widths
    <3>2. DrPre + m - (i + 1) \in 1 .. Total - 1
      BY <1>0, <2>2, <2>6, <2>9, Widths
    <3>3. sr'[DrPre + m - (i + 1)] = sr[DrPre + m - i]
      BY <1>0, <2>5, <2>6, <3>2, Widths
    <3> QED
      BY <1>0, <2>6, <3>1, <3>3 DEF OutBit
  <2>10. CASE i >= DrPre + DmiBits
    <3>1. Len(old) = DmiBits /\ old' = old
      BY <2>6, <2>7, <2>10, Widths
    <3> QED
      BY <1>0, <3>1 DEF OutBit
  <2>11. CASE i >= DrPre /\ i < DrPre + DmiBits
    <3>1. Len(old) = i - DrPre /\ old' = Append(old, sr[1])
      BY <2>6, <2>7, <2>8, <2>11, Widths
    <3>2. /\ Len(old') = Len(old) + 1 /\ old'[Len(old) + 1] = sr[1]
          /\ \A k \in 1 .. Len(old) : old'[k] = old[k]
      BY <2>7, <3>1
    <3>3. CASE m <= Len(old)
      <4>1. OutBit(m) = old[m]
        BY <3>3 DEF OutBit
      <4>2. m <= Len(old') /\ m \in 1 .. Len(old)
        BY <1>0, <2>7, <3>2, <3>3
      <4>3. OutBit(m)' = old'[m]
        BY <4>2 DEF OutBit
      <4> QED
        BY <3>2, <4>1, <4>2, <4>3
    <3>4. CASE m = Len(old) + 1
      <4>1. OutBit(m) = sr[DrPre + m - i] /\ DrPre + m - i = 1
        BY <1>0, <2>6, <3>1, <3>4, Widths DEF OutBit
      <4>2. OutBit(m)' = old'[m]
        BY <1>0, <3>2, <3>4 DEF OutBit
      <4> QED
        BY <3>2, <3>4, <4>1, <4>2
    <3>5. CASE m > Len(old) + 1
      <4>1. DrPre + m - (i + 1) \in 1 .. Total - 1
        BY <1>0, <2>2, <2>6, <3>1, <3>5, Widths
      <4>2. sr'[DrPre + m - (i + 1)] = sr[DrPre + m - i]
        BY <1>0, <2>5, <2>6, <4>1, Widths
      <4>3. OutBit(m)' = sr'[DrPre + m - (i + 1)] /\ OutBit(m) = sr[DrPre + m - i]
        BY <1>0, <2>6, <3>1, <3>2, <3>5, Widths DEF OutBit
      <4> QED
        BY <4>2, <4>3
    <3> QED
      BY <1>0, <2>6, <3>1, <3>3, <3>4, <3>5, Widths
  <2> QED
    BY <2>6, <2>9, <2>10, <2>11, Widths
<1>2. CASE ~ (line = "shift" /\ dtmPc = "dr")
  <2>1. line # "shift"
    BY <1>2 DEF IInv, ScanInv
  <2>2. old' = old
    BY <2>1 DEF TapTick, TickSelectDr, TickSelectIr, TickCapture, TickEnter, TickBypass,
         TickBit, TickUpdate, TickIdle, TickGoIdle, TickRun, Tick, ShiftLoop
  <2>3. Len(old) = DmiBits
    <3>1. CASE dtmPc = "run"
      BY <3>1 DEF TypeInv, OldInv
    <3>2. CASE dtmPc = "dr"
      <4>1. Len(old) = Len(in) /\ line # "rest"
        BY <2>1, <3>2 DEF TypeInv, OldInv
      <4>2. fn = "dmi"
        BY DEF CodeInv, CallOrder
      <4> QED
        BY <3>2, <4>1, <4>2 DEF CodeInv, ScanWords, FnBits
    <3> QED
      BY <3>1, <3>2
  <2> QED
    BY <1>0, <2>2, <2>3 DEF OutBit
<1> QED
  BY <1>1, <1>2

\* No tick after the capture changes the error or begins an access of a NOP.
LEMMA AfterTick ==
  ASSUME IInv, PosInv, CodeInv, trusted, pc \in {"op", "nop"}, After, TapTick
  PROVE  /\ sticky' = sticky /\ (dtmPc = "dr" => line \in {"shift", "update", "idle"})
         /\ dtmPc \in {"dr", "run"}
<1>1. /\ line # "rest" /\ ir = DMI /\ OnTrack /\ dtmPc \in {"dr", "run"}
  <2>1. line # "rest"
    BY DEF TapTick, TickSelectDr, TickSelectIr, TickCapture, TickEnter, TickBypass,
         TickBit, TickUpdate, TickIdle, TickGoIdle, TickRun, Tick, ShiftLoop
  <2>2. dtmPc \in {"dr", "run"}
    BY <2>1 DEF After, IInv, ScanInv
  <2> QED
    BY <2>1, <2>2, TrustedScan
<1>2. dtmPc = "dr" => line \in {"shift", "update", "idle"}
  BY <1>1 DEF After
<1>3. tap # "CaptureDR" /\ ir # DTMCS
  <2>1. which = "dr" \/ line = "run"
    BY <1>1, <1>2 DEF IInv, ScanInv, CodeInv, CallOrder
  <2>2. line \in {"shift", "update", "idle", "run"}
    BY <1>1, <1>2 DEF CodeInv, CallOrder, IInv, ScanInv
  <2> QED
    BY <1>1, <2>1, <2>2 DEF OnTrack, TapAt, DMI, DTMCS
<1>4. sticky' = sticky
  <2>1. CASE UNCHANGED targetVars
    BY <2>1 DEF targetVars
  <2>2. CASE \E tms \in {0, 1}, tdi \in Bit : Edge(tms, tdi)
    BY <1>3, <2>2 DEF Edge, Sticky
  <2> QED
    BY <2>1, <2>2, TickEdge
<1> QED
  BY <1>1, <1>2, <1>4

\* The scan of this step is captured by this tick, or was before.
LEMMA BecomesAfter ==
  ASSUME IInv, CodeInv, TapTick, UNCHANGED dtmVars, pc \in {"op", "nop"}, After'
  PROVE  After \/ (line = "enter" /\ dtmPc = "dr")
BY DEF After, dtmVars, IInv, ScanInv, CodeInv, CallOrder, TapTick, TickSelectDr, TickSelectIr, TickCapture,
       TickEnter, TickBypass, TickBit, TickUpdate, TickIdle, TickGoIdle, TickRun, Tick, ShiftLoop

\* A quiet bus at the capture: all that was asked before has been made.
LEMMA QuietCapture ==
  ASSUME IInv, CodeInv, TypeInv, OwnedInv, trusted, pc \in {"op", "nop"}, sticky = ResultDone, ~ Busy
  PROVE  made = Issued
<1>1. OnTrack /\ Through
  BY TrustedScan
<1>2. Taken = Issued
  BY <1>1 DEF OwnedInv, CountInv
<1> QED
  BY <1>2 DEF OwnedInv, OwnInv, Taken

LEMMA StatusBits ==
  ASSUME NEW s \in {ResultDone, ResultFail, ResultBusy}, s[1] = 0, s[2] = 0
  PROVE  s = ResultDone
BY DEF ResultDone, ResultFail, ResultBusy

LEMMA TickResult ==
  ASSUME PortInv, TapTick, UNCHANGED <<dtmVars, callVars, trusted>>,
         IF request' # request THEN mine' = TRUE /\ UNCHANGED <<made, got>> ELSE UNCHANGED historyVars
  PROVE  ResultInv'
<1> SUFFICES ASSUME trusted' PROVE LastRead' /\ FirstRead' /\ FirstKept' /\ DoneIsDone'
  BY DEF ResultInv
<1>0. /\ trusted /\ pc' = pc /\ kind' = kind /\ n' = n /\ reqs' = reqs /\ buffer' = buffer
      /\ made' = made /\ got' = got /\ response' = response
  <2>1. response' = response
    <3>1. UNCHANGED targetVars \/ \E tms \in {0, 1}, tdi \in Bit : Edge(tms, tdi)
      BY TickEdge DEF PortInv
    <3> QED
      BY <3>1 DEF Edge, targetVars
  <2> QED
    BY <2>1 DEF callVars, historyVars
<1>1. /\ IInv /\ PosInv /\ CodeInv /\ TypeInv /\ SelectInv /\ PathInv /\ WindowInv /\ OwnedInv
      /\ LastRead /\ FirstRead /\ FirstKept /\ DoneIsDone
  BY <1>0 DEF PortInv, ResultInv
<1>2. LastRead'
  BY <1>0, <1>1 DEF LastRead
<1>3. pc \in {"op", "nop"} /\ After' => After \/ (line = "enter" /\ dtmPc = "dr")
  BY <1>1, BecomesAfter
<1>4. pc \in {"op", "nop"} => reg = DMI /\ OnTrack /\ Through /\ (dtmPc # "ir" => ir = DMI)
  BY <1>0, <1>1, TrustedScan
<1>5. ASSUME pc \in {"op", "nop"}, sticky' = ResultDone
      PROVE  sticky = ResultDone
  <2>1. DTMCS # DMI
    BY DEF DTMCS, DMI
  <2> QED
    BY <1>1, <1>4, <1>5, <2>1, StickyTick
<1>6. ASSUME pc \in {"op", "nop"}, After
      PROVE  /\ sticky' = sticky
             /\ \A m \in 1 .. DmiBits : OutBit(m)' = OutBit(m)
  <2>1. /\ sticky' = sticky /\ (dtmPc = "dr" => line \in {"shift", "update", "idle"})
        /\ dtmPc \in {"dr", "run"}
    BY <1>0, <1>1, <1>6, AfterTick
  <2>2. ASSUME NEW m \in 1 .. DmiBits PROVE OutBit(m)' = OutBit(m)
    BY <1>1, <1>4, <1>6, <2>1, <2>2, OutKept
  <2> QED
    BY <2>1, <2>2
<1>7. ASSUME pc \in {"op", "nop"}, line = "enter", dtmPc = "dr"
      PROVE  /\ \A m \in 1 .. 2 : OutBit(m)' = (IF Busy THEN ResultBusy ELSE sticky)[m]
             /\ \A m \in 1 .. DataBits : OutBit(2 + m)' = response[m]
             /\ tap = "CaptureDR" /\ ir = DMI
  <2>1. OnTrack /\ ir = DMI
    BY <1>4, <1>7
  <2> QED
    BY <1>1, <1>7, <2>1, OutCaptured
<1>8. \A m \in 1 .. DataBits : 2 + m \in 1 .. DmiBits
  BY Widths
<1>9. 1 \in 1 .. DmiBits /\ 2 \in 1 .. DmiBits
  BY Widths
<1>10. FirstRead'
  <2> SUFFICES ASSUME pc = "op", kind = "read_vector", n = 1, After', sticky' = ResultDone
               PROVE  made >= 1 /\ \A m \in 1 .. DataBits : OutBit(2 + m)' = got[1][m]
    BY <1>0 DEF FirstRead
  <2>1. CASE After
    <3>1. sticky = ResultDone /\ \A m \in 1 .. DmiBits : OutBit(m)' = OutBit(m)
      BY <1>6, <2>1
    <3>2. made >= 1 /\ \A m \in 1 .. DataBits : OutBit(2 + m) = got[1][m]
      BY <1>1, <2>1, <3>1 DEF FirstRead
    <3> QED
      BY <1>8, <3>1, <3>2
  <2>2. CASE ~ After
    <3>1. line = "enter" /\ dtmPc = "dr"
      BY <1>3, <2>2
    <3>2. /\ \A m \in 1 .. DataBits : OutBit(2 + m)' = response[m]
          /\ tap = "CaptureDR" /\ ir = DMI
      BY <1>7, <3>1
    <3>3. sticky = ResultDone
      BY <1>5
    <3>4. ~ Busy
      <4>1. Edge(0, 1)
        BY <3>1 DEF TapTick, TickSelectDr, TickSelectIr, TickCapture, TickEnter, TickBypass,
           TickBit, TickUpdate, TickIdle, TickGoIdle, TickRun, Tick, ShiftLoop
      <4>2. sticky' = Sticky
        BY <4>1 DEF Edge
      <4> QED
        BY <3>2, <3>3, <4>2 DEF Sticky, ResultBusy, ResultDone
    <3>5. made = Issued
      BY <1>0, <1>1, <3>3, <3>4, QuietCapture
    <3>6. made = 1
      BY <2>2, <3>1, <3>5 DEF Issued, Passed
    <3>7. response = got[1]
      BY <1>1, <3>6 DEF LastRead, ReadKinds
    <3> QED
      BY <3>2, <3>6, <3>7
  <2> QED
    BY <2>1, <2>2
<1>11. FirstKept'
  <2> SUFFICES ASSUME pc = "nop", kind = "read_vector", sticky' = ResultDone
               PROVE  made >= 1 /\ buffer = <<got[1]>>
    BY <1>0 DEF FirstKept
  <2>1. sticky = ResultDone
    BY <1>5
  <2> QED
    BY <1>1, <2>1 DEF FirstKept
<1>12. DoneIsDone'
  <2> SUFFICES ASSUME pc = "nop", kind # "nop", After', OutBit(1)' = 0, OutBit(2)' = 0
               PROVE  /\ sticky' = ResultDone /\ ~ Busy' /\ made = Len(reqs)
                      /\ kind \in ReadKinds => \A m \in 1 .. DataBits : OutBit(2 + m)' = got[made][m]
    BY <1>0 DEF DoneIsDone
  <2>1. request' = request
    BY <1>1, TickBeginsNone
  <2>2. CASE After
    <3>1. sticky' = sticky /\ \A m \in 1 .. DmiBits : OutBit(m)' = OutBit(m)
      BY <1>6, <2>2
    <3>2. OutBit(1) = 0 /\ OutBit(2) = 0
      BY <1>9, <3>1
    <3>3. /\ sticky = ResultDone /\ ~ Busy /\ made = Len(reqs)
          /\ kind \in ReadKinds => \A m \in 1 .. DataBits : OutBit(2 + m) = got[made][m]
      BY <1>1, <2>2, <3>2 DEF DoneIsDone
    <3> QED
      BY <1>8, <2>1, <3>1, <3>3 DEF Busy
  <2>3. CASE ~ After
    <3>1. line = "enter" /\ dtmPc = "dr"
      BY <1>3, <2>3
    <3> DEFINE st == IF Busy THEN ResultBusy ELSE sticky
    <3>2. /\ \A m \in 1 .. 2 : OutBit(m)' = st[m]
          /\ \A m \in 1 .. DataBits : OutBit(2 + m)' = response[m]
          /\ tap = "CaptureDR" /\ ir = DMI
      BY <1>7, <3>1
    <3>3. st \in {ResultDone, ResultFail, ResultBusy}
      BY <1>1 DEF TypeInv, TargetInv, TargetTypeOK
    <3>4. st = (IF Busy THEN ResultBusy ELSE sticky)
      OBVIOUS
    <3> HIDE DEF st
    <3>5. st[1] = 0 /\ st[2] = 0
      BY <3>2
    <3>6. st = ResultDone
      BY <3>3, <3>5, StatusBits
    <3>7. ~ Busy /\ sticky = ResultDone
      BY <3>4, <3>6 DEF ResultBusy, ResultDone
    <3>8. made = Len(reqs)
      <4>1. made = Issued
        BY <1>0, <1>1, <3>7, QuietCapture
      <4> QED
        BY <4>1 DEF Issued
    <3>9. sticky' = ResultDone
      <4>1. Edge(0, 1)
        BY <3>1 DEF TapTick, TickSelectDr, TickSelectIr, TickCapture, TickEnter, TickBypass,
           TickBit, TickUpdate, TickIdle, TickGoIdle, TickRun, Tick, ShiftLoop
      <4> QED
        BY <3>2, <3>7, <4>1 DEF Edge, Sticky
    <3>10. kind \in ReadKinds => response = got[made]
      <4>1. kind \in ReadKinds => Len(reqs) > 0
        BY <1>1 DEF CodeInv, CallShape, ReadKinds
      <4> QED
        BY <1>1, <3>8, <4>1 DEF LastRead
    <3> QED
      BY <2>1, <3>2, <3>7, <3>8, <3>9, <3>10 DEF Busy
  <2> QED
    BY <2>2, <2>3
<1> QED
  BY <1>2, <1>10, <1>11, <1>12

\* A step that leaves the register and the history as they are.
LEMMA ResultKept ==
  ASSUME ResultInv, trusted, UNCHANGED <<kind, made, got, reqs, request, response, sticky, sr, old, i, buffer>>,
         pc' = "op" => ~ After' \/ (pc = "op" /\ n' = n /\ After),
         pc' = "nop" => (kind = "read_vector" => pc = "nop") /\ (~ After' \/ (pc = "nop" /\ After))
  PROVE  ResultInv'
<1>1. LastRead /\ FirstRead /\ FirstKept /\ DoneIsDone
  BY DEF ResultInv
<1>2. \A m : OutBit(m)' = OutBit(m)
  BY DEF OutBit
<1>3. LastRead'
  BY <1>1 DEF LastRead
<1>4. FirstRead'
  BY <1>1, <1>2 DEF FirstRead
<1>5. FirstKept'
  BY <1>1 DEF FirstKept
<1>6. DoneIsDone'
  BY <1>1, <1>2 DEF DoneIsDone, Busy
<1> QED
  BY <1>3, <1>4, <1>5, <1>6 DEF ResultInv

LEMMA CallResult ==
  ASSUME CallNop \/ CallRead \/ CallWrite \/ CallReadVector \/ CallWriteVector \/ Connect
  PROVE  ResultInv'
<1>1. /\ made' = 0 /\ n' = 0
      /\ \/ pc' = "op"
         \/ pc' = "init"
         \/ pc' = "nop" /\ kind' = "nop"
  <2>1. CASE CallNop
    BY <2>1 DEF CallNop, Call
  <2>2. CASE Connect
    BY <2>2 DEF Connect, Call
  <2>3. ASSUME NEW k, NEW accesses, CallAccess(k, accesses)
        PROVE  made' = 0 /\ n' = 0 /\ pc' = "op"
    BY <2>3 DEF CallAccess, Call
  <2>4. CASE CallRead \/ CallWrite \/ CallReadVector \/ CallWriteVector
    BY <2>3, <2>4, Zenon DEF CallRead, CallWrite, CallReadVector, CallWriteVector
  <2> QED
    BY <2>1, <2>2, <2>4
<1> QED
  BY <1>1 DEF ResultInv, LastRead, FirstRead, FirstKept, DoneIsDone

\* The second read of a pair: what its scan has brought is what the first read.
LEMMA SecondScanned ==
  ASSUME PortInv, trusted, OpLast, kind = "read_vector", sticky = ResultDone
  PROVE  made >= 1 /\ buffer' = <<got[1]>>
<1>1. /\ pc = "op" /\ dtmPc = "rest" /\ n + 1 = Len(reqs) /\ CodeInv /\ TypeInv /\ FirstRead /\ OwnInv
      /\ buffer' = IF n > 0 THEN Append(buffer, DataOut) ELSE buffer
  BY DEF OpLast, Returned, PortInv, ResultInv, OwnedInv
<1>2. n = 1
  <2>1. n \in Nat
    BY <1>1 DEF CodeInv, CodeType
  <2>2. Len(reqs) = 2
    BY <1>1 DEF CodeInv, CallShape
  <2> QED
    BY <1>1, <2>1, <2>2
<1>3. made >= 1 /\ \A m \in 1 .. DataBits : OutBit(2 + m) = got[1][m]
  BY <1>1, <1>2 DEF FirstRead, After
<1>4. old \in Seq(Bit) /\ Len(old) = DmiBits
  BY <1>1 DEF TypeInv, OldInv
<1>5. \A m \in 1 .. DataBits : OutBit(2 + m) = old[2 + m]
  BY <1>4, Widths DEF OutBit
<1>6. DataOut \in Word(DataBits) /\ \A m \in 1 .. DataBits : DataOut[m] = old[2 + m]
  BY <1>4, DataOutType
<1>7. got[1] \in Word(DataBits)
  <2>1. got \in Seq(Word(DataBits)) /\ made \in Nat
    BY <1>1 DEF TypeInv, CallTypes
  <2>2. Len(got) = made
    BY <1>1 DEF OwnInv, ReadKinds
  <2> QED
    BY <1>3, <2>1, <2>2
<1> HIDE DEF DataOut
<1>8. \A m \in 1 .. DataBits : DataOut[m] = got[1][m]
  BY <1>3, <1>5, <1>6
<1>9. DataOut = got[1]
  BY <1>6, <1>7, <1>8, WordEqual
<1>10. buffer = <<>>
  BY <1>1 DEF TypeInv, CallTypes
<1> QED
  BY <1>1, <1>2, <1>3, <1>9, <1>10

LEMMA GoesOnResult ==
  ASSUME PortInv,
         \/ InitIdcode \/ InitDtmcs \/ OpNext \/ OpLast
         \/ ReadBusy \/ ReadAgain \/ ReadGivesUp \/ NotOk
  PROVE  ResultInv'
<1> SUFFICES ASSUME trusted' PROVE LastRead' /\ FirstRead' /\ FirstKept' /\ DoneIsDone'
  BY DEF ResultInv
<1>1. /\ trusted /\ UNCHANGED <<kind, made, got, reqs, response>>
      /\ pc' = "op" => line' = "select_dr" /\ dtmPc' \in {"ir", "dr"}
      /\ pc' = "nop" => line' = "select_dr" /\ dtmPc' \in {"ir", "dr"}
  BY DEF InitIdcode, InitDtmcs, OpNext, OpLast, ReadBusy, ReadAgain, ReadGivesUp, NotOk, Reset, Nop, Keep,
         Scan, Returned, BeginScan, BeginShift, BeginIdle, BeginRun, historyVars, targetVars
<1>2. LastRead'
  BY <1>1 DEF PortInv, ResultInv, LastRead
<1>3. FirstRead' /\ DoneIsDone'
  BY <1>1 DEF FirstRead, DoneIsDone, After
<1>4. FirstKept'
  <2> SUFFICES ASSUME pc' = "nop", kind = "read_vector", sticky' = ResultDone
               PROVE  made >= 1 /\ buffer' = <<got[1]>>
    BY <1>1 DEF FirstKept
  <2>1. pc = "pause" => kind = "read"
    BY DEF PortInv, CodeInv, CallShape
  <2>2. OpLast
    BY <2>1 DEF InitIdcode, InitDtmcs, OpNext, ReadBusy, ReadAgain, ReadGivesUp, NotOk, Reset, Returned
  <2>3. sticky = ResultDone
    BY <2>2 DEF OpLast, Nop, BeginScan, targetVars
  <2> QED
    BY <1>1, <2>2, <2>3, SecondScanned
<1> QED
  BY <1>2, <1>3, <1>4

LEMMA DtmResult ==
  ASSUME PortInv, Selected \/ ScannedWait \/ Scanned \/ Waited,
         UNCHANGED <<callVars, historyVars, trusted>>
  PROVE  ResultInv'
<1> SUFFICES ASSUME trusted' PROVE LastRead' /\ FirstRead' /\ FirstKept' /\ DoneIsDone'
  BY DEF ResultInv
<1>1. /\ UNCHANGED targetVars /\ line = "rest" /\ line' \in {"select_dr", "run", "rest"}
      /\ \/ dtmPc = "ir" /\ dtmPc' = "dr" /\ line' = "select_dr"
         \/ dtmPc \in {"dr", "run"} /\ dtmPc' = "run" /\ line' = "run" /\ old' = old
         \/ dtmPc \in {"dr", "run"} /\ dtmPc' = "rest" /\ line' = "rest" /\ old' = old
  BY DEF Selected, ScannedWait, Scanned, Waited, BeginShift, BeginRun, tapVars
<1>2. /\ trusted /\ pc' = pc /\ UNCHANGED <<n, reqs, kind, made, got, buffer, request, response, sticky>>
  BY <1>1 DEF callVars, historyVars, targetVars
<1>3. LastRead /\ FirstRead /\ FirstKept /\ DoneIsDone /\ CodeInv /\ TypeInv
  BY <1>2 DEF PortInv, ResultInv
<1>4. LastRead' /\ FirstKept'
  BY <1>2, <1>3 DEF LastRead, FirstKept
<1>5. After' => After /\ old' = old
  BY <1>1 DEF After
<1>6. ASSUME pc \in {"op", "nop"}, After'
      PROVE  \A m \in 1 .. DmiBits : OutBit(m)' = OutBit(m)
  <2>1. Len(old) = DmiBits
    <3>1. dtmPc # "dr" => dtmPc \in {"run", "rest"}
      BY <1>1, <1>6 DEF After
    <3>2. CASE dtmPc = "dr"
      <4>1. fn = "dmi" /\ Len(in) = FnBits
        BY <1>3, <1>6, <3>2 DEF CodeInv, CallOrder, ScanWords
      <4> QED
        BY <1>1, <1>3, <3>2, <4>1 DEF TypeInv, OldInv, FnBits
    <3> QED
      BY <1>3, <1>6, <3>1, <3>2 DEF TypeInv, OldInv
  <2> QED
    BY <1>5, <1>6, <2>1, Widths DEF OutBit
<1>7. /\ 1 \in 1 .. DmiBits /\ 2 \in 1 .. DmiBits
      /\ \A m \in 1 .. DataBits : 2 + m \in 1 .. DmiBits
  BY Widths
<1>8. FirstRead'
  <2> SUFFICES ASSUME pc = "op", kind = "read_vector", n = 1, After', sticky = ResultDone
               PROVE  made >= 1 /\ \A m \in 1 .. DataBits : OutBit(2 + m)' = got[1][m]
    BY <1>2 DEF FirstRead
  <2>1. made >= 1 /\ \A m \in 1 .. DataBits : OutBit(2 + m) = got[1][m]
    BY <1>3, <1>5 DEF FirstRead
  <2> QED
    BY <1>6, <1>7, <2>1
<1>9. DoneIsDone'
  <2> SUFFICES ASSUME pc = "nop", kind # "nop", After', OutBit(1)' = 0, OutBit(2)' = 0
               PROVE  /\ sticky = ResultDone /\ ~ Busy /\ made = Len(reqs)
                      /\ kind \in ReadKinds => \A m \in 1 .. DataBits : OutBit(2 + m)' = got[made][m]
    BY <1>2 DEF DoneIsDone, Busy
  <2>1. OutBit(1) = 0 /\ OutBit(2) = 0
    BY <1>6, <1>7
  <2>2. /\ sticky = ResultDone /\ ~ Busy /\ made = Len(reqs)
        /\ kind \in ReadKinds => \A m \in 1 .. DataBits : OutBit(2 + m) = got[made][m]
    BY <1>3, <1>5, <2>1 DEF DoneIsDone
  <2> QED
    BY <1>6, <1>7, <2>2
<1> QED
  BY <1>4, <1>8, <1>9

LEMMA ReturnResult ==
  ASSUME ReturnDone \/ ReturnFailed \/ ReturnNone
  PROVE  ResultInv'
<1>1. made' = 0 /\ pc' = "idle"
  BY DEF ReturnDone, ReturnFailed, ReturnNone, Return
<1> QED
  BY <1>1 DEF ResultInv, LastRead, FirstRead, FirstKept, DoneIsDone

LEMMA OutsideResult ==
  ASSUME PortInv, AccessDone \/ AccessFails \/ LosePower
  PROVE  ResultInv'
<1> SUFFICES ASSUME trusted' PROVE LastRead' /\ FirstRead' /\ FirstKept' /\ DoneIsDone'
  BY DEF ResultInv
<1>1. /\ trusted /\ (AccessDone \/ AccessFails)
      /\ UNCHANGED <<pc, kind, reqs, n, buffer, sr, old, i, line, dtmPc>> /\ Busy
  BY DEF AccessDone, AccessFails, LosePower, RequestDone, RequestFails, callVars, tapVars, dtmVars
<1>2. /\ LastRead /\ FirstRead /\ FirstKept /\ DoneIsDone /\ CodeInv /\ TypeInv /\ OwnedInv
  BY <1>1 DEF PortInv, ResultInv
<1>3. DoneIsDone'
  <2>1. \A m : OutBit(m)' = OutBit(m)
    BY <1>1 DEF OutBit
  <2>2. After' <=> After
    BY <1>1 DEF After
  <2> QED
    BY <1>1, <1>2, <2>1, <2>2 DEF DoneIsDone
<1>4. made \in Nat /\ got \in Seq(Word(DataBits)) /\ (kind \in ReadKinds => Len(got) = made)
  BY <1>2 DEF TypeInv, CallTypes, OwnedInv, OwnInv
<1>5. CASE AccessDone
  <2>1. /\ IF mine THEN made' = made + 1 /\ got' = (IF request.op = OpRead THEN Append(got, response') ELSE got)
                   ELSE made' = made /\ got' = got
        /\ sticky' = sticky
    BY <1>5 DEF AccessDone, RequestDone
  <2>2. ~ mine => made = 0
    BY <1>1, <1>2, <1>4 DEF OwnedInv, OwnInv, Taken
  <2>3. mine /\ kind \in ReadKinds => request.op = OpRead
    BY <1>2, OwnAccess
  <2>4. LastRead'
    <3> SUFFICES ASSUME kind \in ReadKinds, made' > 0 PROVE response' = got'[made']
      BY <1>1 DEF LastRead
    <3>1. mine
      BY <2>1, <2>2
    <3>2. made' = made + 1 /\ got' = Append(got, response')
      BY <2>1, <2>3, <3>1
    <3> QED
      BY <1>4, <3>2
  <2>5. kind = "read_vector" /\ made >= 1 => made' >= 1 /\ got'[1] = got[1]
    <3> SUFFICES ASSUME kind = "read_vector", made >= 1 PROVE made' >= 1 /\ got'[1] = got[1]
      OBVIOUS
    <3>1. mine /\ kind \in ReadKinds
      BY <1>4, <2>2 DEF ReadKinds
    <3>2. made' = made + 1 /\ got' = Append(got, response')
      BY <2>1, <2>3, <3>1
    <3> QED
      BY <1>4, <3>1, <3>2
  <2>6. FirstRead'
    <3> SUFFICES ASSUME pc = "op", kind = "read_vector", n = 1, After, sticky = ResultDone
                 PROVE  made' >= 1 /\ \A m \in 1 .. DataBits : OutBit(2 + m)' = got'[1][m]
      BY <1>1, <2>1 DEF FirstRead, After
    <3>1. made >= 1 /\ \A m \in 1 .. DataBits : OutBit(2 + m) = got[1][m]
      BY <1>2 DEF FirstRead
    <3>2. \A m : OutBit(m)' = OutBit(m)
      BY <1>1 DEF OutBit
    <3> QED
      BY <2>5, <3>1, <3>2
  <2>7. FirstKept'
    BY <1>1, <1>2, <2>1, <2>5 DEF FirstKept
  <2> QED
    BY <1>3, <2>4, <2>6, <2>7
<1>6. CASE AccessFails
  <2>1. made' = made /\ got' = got /\ response' = response /\ sticky' # ResultDone
    BY <1>2, <1>6 DEF AccessFails, RequestFails, ResultFail, ResultDone
  <2>2. LastRead'
    BY <1>1, <1>2, <2>1 DEF LastRead
  <2>3. FirstRead' /\ FirstKept'
    BY <2>1 DEF FirstRead, FirstKept
  <2> QED
    BY <1>3, <2>2, <2>3
<1> QED
  BY <1>1, <1>5, <1>6

LEMMA ResultStep == PortInv /\ [Next]_vars => ResultInv'
<1> SUFFICES ASSUME PortInv, [Next]_vars PROVE ResultInv'
  OBVIOUS
<1>1. CASE CallNop \/ CallRead \/ CallWrite \/ CallReadVector \/ CallWriteVector \/ Connect
  BY <1>1, CallResult
<1>2. CASE /\ DtmStep /\ UNCHANGED <<callVars, trusted, cycles>>
           /\ IF request' # request THEN mine' = TRUE /\ UNCHANGED <<made, got>>
                                    ELSE UNCHANGED historyVars
  <2>1. CASE TapTick /\ UNCHANGED dtmVars
    <3>1. UNCHANGED <<dtmVars, callVars, trusted>>
      BY <1>2, <2>1
    <3> QED
      BY <1>2, <2>1, <3>1, TickResult
  <2>2. CASE Selected \/ ScannedWait \/ Scanned \/ Waited
    <3>1. request' = request
      BY <2>2 DEF Selected, ScannedWait, Scanned, Waited, targetVars
    <3>2. UNCHANGED <<callVars, historyVars, trusted>>
      BY <1>2, <3>1
    <3> QED
      BY <2>2, <3>2, DtmResult
  <2> QED
    BY <1>2, <2>1, <2>2 DEF DtmStep
<1>3. CASE \/ InitIdcode \/ InitDtmcs \/ OpNext \/ OpLast
           \/ ReadBusy \/ ReadAgain \/ ReadGivesUp \/ NotOk
  BY <1>3, GoesOnResult
<1>4. CASE ReturnDone \/ ReturnFailed \/ ReturnNone
  BY <1>4, ReturnResult
<1>5. CASE AccessDone \/ AccessFails \/ LosePower
  BY <1>5, OutsideResult
<1>6. CASE UNCHANGED vars
  <2>1. UNCHANGED <<kind, made, got, reqs, request, response, sticky, sr, old, i, buffer, pc, n, dtmPc, line, trusted>>
    BY <1>6 DEF vars, targetVars, historyVars, callVars, dtmVars, tapVars
  <2>2. After' <=> After
    BY <2>1 DEF After
  <2>3. ResultInv
    BY DEF PortInv
  <2> QED
    BY <2>1, <2>2, <2>3, ResultKept DEF ResultInv
<1> QED
  BY <1>1, <1>2, <1>3, <1>4, <1>5, <1>6, Zenon DEF Next, Host

LEMMA InitResult == Init => ResultInv
BY DEF Init, ResultInv

LEMMA PortStep == PortInv /\ [Next]_vars => PortInv'
<1> SUFFICES ASSUME PortInv, [Next]_vars PROVE PortInv'
  OBVIOUS
<1>1. IInv' /\ PosInv' /\ CodeInv' /\ TypeInv'
  BY StepKeeps, PosStep, CodeStep, TypeStep DEF PortInv
<1>2. SelectInv' /\ PathInv' /\ WindowInv' /\ OwnedInv' /\ ResultInv'
  BY PathStep, WindowStep, OwnedStep, ResultStep DEF PortInv
<1> QED
  BY <1>1, <1>2 DEF PortInv

LEMMA InitPort == Init => PortInv
BY InitHolds, InitPos, InitCode, InitTypes, InitPath, InitWindow, InitOwned, InitResult DEF PortInv

\* The whole invariant of the stack: the scans stay in step or go astray only
\* where they do no harm, every access of a call is made once and in order, and
\* what comes out of the DMI register is what the debug module has answered.
THEOREM PortInvariant == Spec => []PortInv
<1>1. Init => PortInv
  BY InitPort
<1>2. PortInv /\ [Next]_vars => PortInv'
  BY PortStep
<1> QED
  BY <1>1, <1>2, PTL DEF Spec

-----------------------------------------------------------------------------
(***************************************************************************)
(* The refinement: what the abstract port sees of a state.                 *)
(***************************************************************************)
AccessOf(r) == [write |-> r.op = OpWrite, addr |-> r.addr, data |-> r.data]
Todo == Accesses(SubSeq(reqs, made + 1, Len(reqs)))
Loose == IF Busy /\ ~ mine THEN Accesses(<<request>>) ELSE <<>>

LEMMA AccessType ==
  ASSUME NEW r \in Requests
  PROVE  /\ AccessOf(r) \in Port!Access
         /\ AccessOf(r).write = (r.op = OpWrite) /\ AccessOf(r).addr = r.addr /\ AccessOf(r).data = r.data
         /\ r.addr \in Word(AddrBits) /\ r.data \in Word(DataBits) /\ r.op \in {OpRead, OpWrite}
<1>1. r.addr \in Word(AddrBits) /\ r.data \in Word(DataBits) /\ r.op \in {OpRead, OpWrite}
  BY DEF Requests
<1>2. (r.op = OpWrite) \in BOOLEAN
  OBVIOUS
<1> QED
  BY <1>1, <1>2 DEF AccessOf, Port!Access

LEMMA AccessesAre ==
  ASSUME NEW rs \in Seq(Requests)
  PROVE  /\ Accesses(rs) \in Seq(Port!Access) /\ Len(Accesses(rs)) = Len(rs)
         /\ \A j \in 1 .. Len(rs) : Accesses(rs)[j] = AccessOf(rs[j])
         /\ Accesses(rs) \in [1 .. Len(rs) -> Port!Access]
<1>1. Accesses(rs) = [j \in 1 .. Len(rs) |-> AccessOf(rs[j])]
  BY DEF Accesses, AccessOf
<1>2. \A j \in 1 .. Len(rs) : AccessOf(rs[j]) \in Port!Access
  BY AccessType
<1> HIDE DEF AccessOf
<1> QED
  BY <1>1, <1>2

LEMMA SeqParts ==
  ASSUME NEW S, NEW s \in Seq(S), Len(s) > 0
  PROVE  /\ s # <<>> /\ Head(s) = s[1]
         /\ Tail(s) \in Seq(S) /\ Len(Tail(s)) = Len(s) - 1
         /\ \A j \in 1 .. Len(s) - 1 : Tail(s)[j] = s[j + 1]
OBVIOUS

LEMMA SeqSingle ==
  ASSUME NEW S, NEW s \in Seq(S), Len(s) = 1
  PROVE  s = <<s[1]>> /\ s # <<>> /\ Head(s) = s[1]
OBVIOUS

\* The accesses that are left: none of them, or the next one and the rest.
LEMMA TodoNone ==
  ASSUME NEW rs \in Seq(Requests)
  PROVE  Accesses(SubSeq(rs, Len(rs) + 1, Len(rs))) = <<>>
<1> DEFINE s == SubSeq(rs, Len(rs) + 1, Len(rs))
<1>1. s \in Seq(Requests) /\ Len(s) = 0
  OBVIOUS
<1> HIDE DEF s
<1>2. Accesses(s) \in Seq(Port!Access) /\ Len(Accesses(s)) = 0
  BY <1>1, AccessesAre
<1>3. Accesses(s) = <<>>
  BY <1>2
<1> QED
  BY <1>3 DEF s

LEMMA TodoAll ==
  ASSUME NEW rs \in Seq(Requests)
  PROVE  Accesses(SubSeq(rs, 0 + 1, Len(rs))) = Accesses(rs)
<1>1. SubSeq(rs, 0 + 1, Len(rs)) = rs
  OBVIOUS
<1> QED
  BY <1>1

LEMMA TodoNext ==
  ASSUME NEW rs \in Seq(Requests), NEW k \in Nat, k < Len(rs)
  PROVE  /\ Accesses(SubSeq(rs, k + 1, Len(rs))) # <<>>
         /\ Head(Accesses(SubSeq(rs, k + 1, Len(rs)))) = AccessOf(rs[k + 1])
         /\ Tail(Accesses(SubSeq(rs, k + 1, Len(rs)))) = Accesses(SubSeq(rs, k + 1 + 1, Len(rs)))
<1> DEFINE s == SubSeq(rs, k + 1, Len(rs))
           t == SubSeq(rs, k + 1 + 1, Len(rs))
           as == Accesses(s)
           at == Accesses(t)
<1>1. /\ s \in Seq(Requests) /\ Len(s) = Len(rs) - k
      /\ \A j \in 1 .. Len(rs) - k : s[j] = rs[k + j]
  OBVIOUS
<1>2. /\ t \in Seq(Requests) /\ Len(t) = Len(rs) - k - 1
      /\ \A j \in 1 .. Len(rs) - k - 1 : t[j] = rs[k + 1 + j]
  OBVIOUS
<1> HIDE DEF s, t
<1>3. /\ as \in Seq(Port!Access) /\ Len(as) = Len(s)
      /\ \A j \in 1 .. Len(s) : as[j] = AccessOf(s[j])
  BY <1>1, AccessesAre
<1>4. /\ at \in Seq(Port!Access) /\ Len(at) = Len(t)
      /\ \A j \in 1 .. Len(t) : at[j] = AccessOf(t[j])
  BY <1>2, AccessesAre
<1>5. Len(rs) \in Nat
  OBVIOUS
<1> HIDE DEF as, at, AccessOf
<1>6. Len(as) > 0 /\ as[1] = AccessOf(rs[k + 1])
  <2>1. 1 \in 1 .. Len(s)
    BY <1>1, <1>5
  <2>2. as[1] = AccessOf(s[1]) /\ s[1] = rs[k + 1]
    BY <1>1, <1>3, <2>1
  <2> QED
    BY <1>3, <2>1, <2>2
<1>7. /\ as # <<>> /\ Head(as) = as[1]
      /\ Tail(as) \in Seq(Port!Access) /\ Len(Tail(as)) = Len(as) - 1
      /\ \A j \in 1 .. Len(as) - 1 : Tail(as)[j] = as[j + 1]
  BY <1>3, <1>6, SeqParts
<1>8. Len(Tail(as)) = Len(at)
  BY <1>1, <1>2, <1>3, <1>4, <1>5, <1>7
<1>9. \A j \in 1 .. Len(at) : Tail(as)[j] = at[j]
  <2> SUFFICES ASSUME NEW j \in 1 .. Len(at) PROVE Tail(as)[j] = at[j]
    OBVIOUS
  <2>1. at[j] = AccessOf(rs[k + 1 + j])
    BY <1>2, <1>4, <1>5
  <2>2. j \in 1 .. Len(as) - 1 /\ j + 1 \in 1 .. Len(s)
    BY <1>1, <1>2, <1>3, <1>4, <1>5
  <2>3. Tail(as)[j] = as[j + 1]
    BY <1>7, <2>2
  <2>4. as[j + 1] = AccessOf(s[j + 1])
    BY <1>3, <2>2
  <2>5. s[j + 1] = rs[k + (j + 1)] /\ k + (j + 1) = k + 1 + j
    BY <1>1, <2>2
  <2> QED
    BY <2>1, <2>3, <2>4, <2>5
<1>10. Tail(as) = at
  BY <1>4, <1>7, <1>8, <1>9, SeqEqual
<1> QED
  BY <1>6, <1>7, <1>10 DEF as, at, s, t

\* The access that is under way without being the call's.
LEMMA LooseOne ==
  ASSUME NEW r \in Requests
  PROVE  /\ Accesses(<<r>>) = <<AccessOf(r)>> /\ Accesses(<<r>>) # <<>>
         /\ Head(Accesses(<<r>>)) = AccessOf(r)
<1> DEFINE s == <<r>>
<1>1. s \in Seq(Requests) /\ Len(s) = 1 /\ s[1] = r
  OBVIOUS
<1> HIDE DEF s, AccessOf
<1>2. /\ Accesses(s) \in Seq(Port!Access) /\ Len(Accesses(s)) = 1
      /\ Accesses(s)[1] = AccessOf(r)
  BY <1>1, AccessesAre
<1>3. Accesses(s) = <<Accesses(s)[1]>> /\ Accesses(s) # <<>> /\ Head(Accesses(s)) = Accesses(s)[1]
  BY <1>2, SeqSingle
<1> QED
  BY <1>2, <1>3 DEF s

\* What the history says of the accesses that are left.
LEMMA TodoIs ==
  ASSUME PortInv
  PROVE  /\ made \in Nat /\ reqs \in Seq(Requests) /\ made <= Len(reqs)
         /\ made = Len(reqs) => Todo = <<>>
         /\ reqs = <<>> => made = 0 /\ ~ mine
         /\ mine => /\ Todo # <<>> /\ Head(Todo) = AccessOf(request) /\ request \in Requests
                    /\ Tail(Todo) = Accesses(SubSeq(reqs, made + 1 + 1, Len(reqs))) /\ Loose = <<>>
         /\ Busy => request \in Requests
         /\ Busy /\ ~ mine => /\ Loose # <<>> /\ Loose = <<AccessOf(request)>>
                              /\ Head(Loose) = AccessOf(request)
         /\ ~ Busy => Loose = <<>>
<1>1. made \in Nat /\ reqs \in Seq(Requests) /\ n \in Nat /\ Len(reqs) \in Nat /\ (pc = "op" => n < Len(reqs))
  <2>1. made \in Nat /\ reqs \in Seq(Requests) /\ n \in Nat /\ (pc = "op" => n < Len(reqs))
    BY DEF PortInv, CodeInv, CodeType, CallShape, TypeInv, CallTypes
  <2> QED
    BY <2>1
<1>2. Taken <= Len(reqs)
  BY <1>1 DEF PortInv, OwnedInv, OwnInv, Issued, Taken
<1>3. made <= Len(reqs) /\ (mine => made < Len(reqs))
  BY <1>1, <1>2 DEF Taken
<1>4. made = Len(reqs) => Todo = <<>>
  BY <1>1, TodoNone DEF Todo
<1>5. reqs = <<>> => made = 0 /\ ~ mine
  BY <1>1, <1>3
<1>6. Busy => request \in Requests
  BY DEF PortInv, TypeInv, TargetInv, TargetTypeOK, Busy
<1>7. mine => request = reqs[made + 1] /\ Busy
  BY DEF PortInv, OwnedInv, OwnInv
<1>8. mine => /\ Todo # <<>> /\ Head(Todo) = AccessOf(request) /\ request \in Requests
              /\ Tail(Todo) = Accesses(SubSeq(reqs, made + 1 + 1, Len(reqs))) /\ Loose = <<>>
  <2> SUFFICES ASSUME mine
               PROVE  /\ Todo # <<>> /\ Head(Todo) = AccessOf(request) /\ request \in Requests
                      /\ Tail(Todo) = Accesses(SubSeq(reqs, made + 1 + 1, Len(reqs))) /\ Loose = <<>>
    OBVIOUS
  <2>1. /\ Todo # <<>> /\ Head(Todo) = AccessOf(reqs[made + 1])
        /\ Tail(Todo) = Accesses(SubSeq(reqs, made + 1 + 1, Len(reqs)))
    BY <1>1, <1>3, TodoNext DEF Todo
  <2>2. Loose = <<>>
    BY DEF Loose
  <2> QED
    BY <1>6, <1>7, <2>1, <2>2
<1>9. Busy /\ ~ mine => Loose # <<>> /\ Loose = <<AccessOf(request)>> /\ Head(Loose) = AccessOf(request)
  BY <1>6, LooseOne DEF Loose
<1>10. ~ Busy => Loose = <<>>
  BY DEF Loose
<1> QED
  BY <1>1, <1>3, <1>4, <1>5, <1>6, <1>8, <1>9, <1>10

\* A step that the port does not see.
LEMMA Unseen ==
  ASSUME dm' = dm, (pc' = "idle") = (pc = "idle"), Todo' = Todo, got' = got, trusted' = trusted,
         Loose' = Loose, answer' = answer
  PROVE  UNCHANGED Port!vars
BY DEF Port!vars, Todo, Loose

LEMMA UpToTwo ==
  ASSUME NEW k \in Nat, k <= 2
  PROVE  k \in 0 .. 2
OBVIOUS

LEMMA CallStart ==
  ASSUME PortInv, NEW k, NEW accesses \in Seq(Requests), Len(accesses) <= 2, Call(k, accesses),
         UNCHANGED targetVars, pc' # "idle", trusted' = trusted \/ (trusted' = TRUE /\ accesses = <<>>)
  PROVE  Port!Next
<1>1. /\ pc = "idle" /\ reqs' = accesses /\ made' = 0 /\ got' = <<>> /\ mine' = FALSE /\ answer' = Failed
      /\ dm' = dm /\ request' = request
  BY DEF Call, Idle, targetVars
<1>2. reqs = <<>> /\ ~ mine
  <2>1. reqs = <<>>
    BY <1>1 DEF PortInv, CodeInv, CallShape
  <2> QED
    BY <2>1, TodoIs
<1>3. Todo' = Accesses(accesses)
  <2>1. Todo' = Accesses(SubSeq(accesses, 0 + 1, Len(accesses)))
    BY <1>1 DEF Todo
  <2> QED
    BY <2>1, TodoAll
<1>4. Loose' = Loose
  BY <1>1, <1>2 DEF Loose, Busy
<1>5. accesses = <<>> => Accesses(accesses) = <<>>
  <2> SUFFICES ASSUME accesses = <<>> PROVE Accesses(accesses) = <<>>
    OBVIOUS
  <2>1. Accesses(accesses) \in Seq(Port!Access) /\ Len(Accesses(accesses)) = 0
    BY AccessesAre
  <2> QED
    BY <2>1
<1>6. Accesses(accesses) \in [1 .. Len(accesses) -> Port!Access] /\ Len(accesses) \in 0 .. 2
  <2>1. Accesses(accesses) \in [1 .. Len(accesses) -> Port!Access]
    BY AccessesAre
  <2>2. Len(accesses) \in 0 .. 2
    <3>1. Len(accesses) \in Nat
      BY LenProperties
    <3> QED
      BY <3>1, UpToTwo, Zenon
  <2> QED
    BY <2>1, <2>2
<1>7. (pc' # "idle") = TRUE /\ ~ (pc # "idle")
  BY <1>1
<1> DEFINE a == Accesses(accesses)
<1>8. Port!Begin(a)
  <2>1. trusted' = trusted \/ (trusted' = TRUE /\ a = <<>>)
    BY <1>5
  <2>2. Todo' = a
    BY <1>3
  <2>3. answer' = Port!NoAnswer
    BY <1>1 DEF Failed, Port!NoAnswer
  <2> HIDE DEF a
  <2> QED
    BY <1>1, <1>4, <1>7, <2>1, <2>2, <2>3 DEF Port!Begin, Todo, Loose
<1> HIDE DEF a
<1>9. \E m \in 0 .. 2 : \E x \in [1 .. m -> Port!Access] : Port!Begin(x)
  BY <1>6, <1>8 DEF a
<1> QED
  BY <1>9 DEF Port!Next

LEMMA CallImplements ==
  ASSUME PortInv, CallNop \/ CallRead \/ CallWrite \/ CallReadVector \/ CallWriteVector \/ Connect
  PROVE  Port!Next
<1>1. ASSUME NEW f, NEW bits, BeginScan(f, bits) PROVE UNCHANGED targetVars
  BY <1>1 DEF BeginScan
<1>2. ASSUME NEW k \in {"read", "write", "read_vector", "write_vector"}, NEW accesses \in Seq(Requests),
             Len(accesses) <= 2, CallAccess(k, accesses)
      PROVE  Port!Next
  <2>1. Call(k, accesses) /\ pc' = "op" /\ trusted' = trusted
    BY <1>2 DEF CallAccess, Call
  <2>2. UNCHANGED targetVars
    BY <1>1, <1>2, Zenon DEF CallAccess, Scan
  <2> QED
    BY <1>2, <2>1, <2>2, CallStart
<1>3. <<>> \in Seq(Requests) /\ Len(<<>>) <= 2
  OBVIOUS
<1>4. CASE CallNop
  <2>1. Call("nop", <<>>) /\ pc' = "nop" /\ trusted' = trusted
    BY <1>4 DEF CallNop, Call
  <2>2. UNCHANGED targetVars
    BY <1>1, <1>4, Zenon DEF CallNop, Nop
  <2> QED
    BY <1>3, <2>1, <2>2, CallStart
<1>5. CASE Connect
  <2>1. Call("connect", <<>>) /\ pc' = "init" /\ trusted' = TRUE /\ UNCHANGED targetVars
    BY <1>5 DEF Connect, BeginInit
  <2> QED
    BY <1>3, <2>1, CallStart
<1>6. CASE CallRead
  <2>1. PICK a \in Word(AddrBits) : CallAccess("read", <<Read(a)>>)
    BY <1>6 DEF CallRead
  <2>2. Read(a) \in Requests
    BY RequestsMade
  <2>3. <<Read(a)>> \in Seq(Requests) /\ Len(<<Read(a)>>) <= 2
    BY <2>2
  <2> QED
    BY <1>2, <2>1, <2>3
<1>7. CASE CallWrite
  <2>1. PICK a \in Word(AddrBits), d \in Word(DataBits) : CallAccess("write", <<Write(a, d)>>)
    BY <1>7 DEF CallWrite
  <2>2. Write(a, d) \in Requests
    BY RequestsMade
  <2>3. <<Write(a, d)>> \in Seq(Requests) /\ Len(<<Write(a, d)>>) <= 2
    BY <2>2
  <2> QED
    BY <1>2, <2>1, <2>3
<1>8. CASE CallReadVector
  <2>1. Read(Zeros(AddrBits)) \in Requests /\ Read(Second) \in Requests
    BY RequestsMade
  <2>2. /\ <<Read(Zeros(AddrBits)), Read(Second)>> \in Seq(Requests)
        /\ Len(<<Read(Zeros(AddrBits)), Read(Second)>>) <= 2
    BY <2>1
  <2> QED
    BY <1>2, <1>8, <2>2 DEF CallReadVector
<1>9. CASE CallWriteVector
  <2>1. PICK d1, d2 \in Word(DataBits) :
           CallAccess("write_vector", <<Write(Zeros(AddrBits), d1), Write(Second, d2)>>)
    BY <1>9 DEF CallWriteVector
  <2>2. Write(Zeros(AddrBits), d1) \in Requests /\ Write(Second, d2) \in Requests
    BY RequestsMade
  <2>3. /\ <<Write(Zeros(AddrBits), d1), Write(Second, d2)>> \in Seq(Requests)
        /\ Len(<<Write(Zeros(AddrBits), d1), Write(Second, d2)>>) <= 2
    BY <2>2
  <2> QED
    BY <1>2, <2>1, <2>3
<1> QED
  BY <1>4, <1>5, <1>6, <1>7, <1>8, <1>9

\* The scans of a call: none of them is seen, not even the one that hands an
\* access to the debug module.
LEMMA ScanUnseen ==
  ASSUME PortInv, DtmStep, UNCHANGED <<callVars, trusted, cycles>>,
         IF request' # request THEN mine' = TRUE /\ UNCHANGED <<made, got>> ELSE UNCHANGED historyVars
  PROVE  UNCHANGED Port!vars
<1>1. /\ pc' = pc /\ reqs' = reqs /\ answer' = answer /\ trusted' = trusted /\ made' = made /\ got' = got
  BY DEF callVars, historyVars
<1>2. dm' = dm
  <2>1. CASE TapTick
    <3>1. UNCHANGED targetVars \/ \E tms \in {0, 1}, tdi \in Bit : Edge(tms, tdi)
      BY <2>1, TickEdge DEF PortInv
    <3> QED
      BY <3>1 DEF Edge, targetVars
  <2>2. CASE Selected \/ ScannedWait \/ Scanned \/ Waited
    BY <2>2 DEF Selected, ScannedWait, Scanned, Waited, targetVars
  <2> QED
    BY <2>1, <2>2 DEF DtmStep
<1>3. Loose' = Loose
  <2>1. CASE request' = request
    BY <2>1 DEF Loose, Busy, historyVars
  <2>2. CASE request' # request
    <3>1. TapTick /\ UNCHANGED dtmVars
      BY <2>2 DEF DtmStep, Selected, ScannedWait, Scanned, Waited, targetVars
    <3>2. ~ Busy
      BY <2>2, <3>1, TickBeginsNone DEF PortInv
    <3> QED
      BY <2>2, <3>2 DEF Loose
  <2> QED
    BY <2>1, <2>2
<1>4. Todo' = Todo
  BY <1>1 DEF Todo
<1> QED
  BY <1>1, <1>2, <1>3, <1>4, Unseen

LEMMA StepUnseen ==
  ASSUME PortInv,
         \/ InitIdcode \/ InitDtmcs \/ OpNext \/ OpLast
         \/ ReadBusy \/ ReadAgain \/ ReadGivesUp \/ NotOk
  PROVE  UNCHANGED Port!vars
<1>1. /\ UNCHANGED <<reqs, answer, trusted, historyVars, targetVars>> /\ pc # "idle" /\ pc' # "idle"
  BY DEF InitIdcode, InitDtmcs, OpNext, OpLast, ReadBusy, ReadAgain, ReadGivesUp, NotOk, Reset, Nop, Keep,
         Scan, Returned, BeginScan, BeginIdle
<1>2. /\ UNCHANGED <<dm, got, made, mine, request>>
  BY <1>1 DEF historyVars, targetVars
<1>3. Todo' = Todo /\ Loose' = Loose
  BY <1>1, <1>2 DEF Todo, Loose, Busy
<1> QED
  BY <1>1, <1>2, <1>3, Unseen

LEMMA SeqPair ==
  ASSUME NEW S, NEW s \in Seq(S), Len(s) = 2
  PROVE  s = <<s[1], s[2]>>
OBVIOUS

LEMMA AppendLength ==
  ASSUME NEW S, NEW s \in Seq(S), NEW y \in S
  PROVE  Append(s, y) \in Seq(S) /\ Len(Append(s, y)) = Len(s) + 1
OBVIOUS

LEMMA AppendLast ==
  ASSUME NEW S, NEW s \in Seq(S), NEW y \in S
  PROVE  Append(s, y)[Len(s) + 1] = y
OBVIOUS

LEMMA AppendToOne ==
  ASSUME NEW S, NEW s \in Seq(S), NEW y \in S, Len(s) = 1
  PROVE  Append(s, y) = <<s[1], y>>
<1> DEFINE t == Append(s, y)
<1>1. t \in Seq(S) /\ Len(t) = Len(s) + 1
  BY AppendLength
<1>2. t[Len(s) + 1] = y
  BY AppendLast
<1>3. \A j \in 1 .. Len(s) : t[j] = s[j]
  OBVIOUS
<1> HIDE DEF t
<1>4. t[1] = s[1] /\ t[2] = y /\ Len(t) = 2
  BY <1>1, <1>2, <1>3
<1>5. t = <<t[1], t[2]>>
  BY <1>1, <1>4, SeqPair
<1> QED
  BY <1>4, <1>5 DEF t

\* What a call that returns DONE returns is what its accesses have read.
LEMMA AnswerIsGot ==
  ASSUME PortInv, trusted, pc = "nop", dtmPc = "rest", kind # "nop", Ok
  PROVE  /\ ~ Busy /\ made = Len(reqs)
         /\ (IF kind \in ReadKinds THEN Append(buffer, DataOut) ELSE <<>>) = got
<1>1. /\ CodeInv /\ TypeInv /\ OwnInv /\ FirstKept /\ DoneIsDone /\ After
  BY DEF PortInv, ResultInv, OwnedInv, After
<1>2. old \in Seq(Bit) /\ Len(old) = DmiBits
  BY <1>1 DEF TypeInv, OldInv
<1>3. /\ DataOut \in Word(DataBits) /\ \A m \in 1 .. DataBits : DataOut[m] = old[2 + m]
      /\ OpOut = <<old[1], old[2]>>
  BY <1>2, DataOutType
<1>4. \A m \in 1 .. DmiBits : OutBit(m) = old[m]
  BY <1>2, Widths DEF OutBit
<1>5. OutBit(1) = 0 /\ OutBit(2) = 0
  <2>1. old[1] = 0 /\ old[2] = 0
    BY <1>3 DEF Ok, ResultDone
  <2> QED
    BY <1>4, <2>1, Widths
<1>6. /\ sticky = ResultDone /\ ~ Busy /\ made = Len(reqs)
      /\ kind \in ReadKinds => \A m \in 1 .. DataBits : OutBit(2 + m) = got[made][m]
  BY <1>1, <1>5 DEF DoneIsDone
<1>7. got \in Seq(Word(DataBits)) /\ Len(got) = IF kind \in ReadKinds THEN made ELSE 0
  BY <1>1 DEF TypeInv, CallTypes, OwnInv
<1>8. CASE kind \notin ReadKinds
  <2>1. got = <<>>
    BY <1>7, <1>8
  <2> QED
    BY <1>6, <1>8, <2>1
<1>9. CASE kind \in ReadKinds
  <2>1. made = IF kind = "read" THEN 1 ELSE 2
    BY <1>1, <1>6, <1>9 DEF CodeInv, CallShape, ReadKinds
  <2>2. got[made] \in Word(DataBits)
    BY <1>7, <1>9, <2>1
  <2>3. DataOut = got[made]
    <3> HIDE DEF DataOut
    <3>1. \A m \in 1 .. DataBits : DataOut[m] = got[made][m]
      <4> SUFFICES ASSUME NEW m \in 1 .. DataBits PROVE DataOut[m] = got[made][m]
        OBVIOUS
      <4>1. 2 + m \in 1 .. DmiBits
        BY Widths
      <4> QED
        BY <1>3, <1>4, <1>6, <1>9, <4>1
    <3> QED
      BY <1>3, <2>2, <3>1, WordEqual
  <2> HIDE DEF DataOut
  <2>4. Append(buffer, DataOut) = got
    <3>1. CASE kind = "read"
      <4>1. buffer = <<>> /\ Len(got) = 1 /\ DataOut = got[1]
        BY <1>1, <1>7, <1>9, <2>1, <2>3, <3>1 DEF TypeInv, CallTypes
      <4>2. Append(<<>>, got[1]) = <<got[1]>>
        OBVIOUS
      <4> QED
        BY <1>7, <4>1, <4>2, SeqSingle
    <3>2. CASE kind = "read_vector"
      <4>1. buffer = <<got[1]>> /\ Len(got) = 2 /\ DataOut = got[2]
        BY <1>1, <1>6, <1>7, <1>9, <2>1, <2>3, <3>2 DEF FirstKept
      <4>2. got[1] \in Word(DataBits) /\ got[2] \in Word(DataBits)
        BY <1>7, <4>1
      <4>3. buffer \in Seq(Word(DataBits)) /\ Len(buffer) = 1 /\ buffer[1] = got[1]
        BY <4>1, <4>2
      <4>4. DataOut \in Word(DataBits)
        BY <1>3
      <4>5. Append(buffer, DataOut) = <<buffer[1], DataOut>>
        BY <4>3, <4>4, AppendToOne
      <4>6. got = <<got[1], got[2]>>
        BY <1>7, <4>1, SeqPair
      <4> QED
        BY <4>1, <4>3, <4>5, <4>6
    <3> QED
      BY <1>9, <3>1, <3>2 DEF ReadKinds
  <2> QED
    BY <1>6, <1>9, <2>4
<1> QED
  BY <1>8, <1>9

\* After a call has returned there is nothing left of it but, perhaps, the
\* access that is under way.
LEMMA Returning ==
  ASSUME PortInv, NEW result, Return(result)
  PROVE  /\ pc' = "idle" /\ Todo' = <<>> /\ got' = <<>> /\ dm' = dm /\ trusted' = trusted
         /\ answer' = result
         /\ \/ Loose' = Loose
            \/ Loose = <<>> /\ Todo # <<>> /\ Loose' = <<Head(Todo)>>
<1>1. /\ pc' = "idle" /\ reqs' = <<>> /\ made' = 0 /\ mine' = FALSE /\ got' = <<>> /\ dm' = dm
      /\ trusted' = trusted /\ answer' = result /\ request' = request
  BY DEF Return, targetVars
<1>2. Todo' = <<>>
  <2>1. <<>> \in Seq(Requests) /\ Len(<<>>) = 0
    OBVIOUS
  <2>2. Todo' = Accesses(SubSeq(<<>>, Len(<<>>) + 1, Len(<<>>)))
    BY <1>1, <2>1 DEF Todo
  <2> QED
    BY <2>1, <2>2, TodoNone
<1>3. CASE ~ mine
  BY <1>1, <1>2, <1>3 DEF Loose, Busy
<1>4. CASE mine
  <2>1. /\ Todo # <<>> /\ Head(Todo) = AccessOf(request) /\ request \in Requests /\ Loose = <<>>
    BY <1>4, TodoIs
  <2>2. Busy
    BY <1>4 DEF PortInv, OwnedInv, OwnInv
  <2>3. Loose' = Accesses(<<request>>)
    BY <1>1, <2>2 DEF Loose, Busy
  <2>4. Loose' = <<AccessOf(request)>>
    BY <2>1, <2>3, LooseOne
  <2> QED
    BY <1>1, <1>2, <2>1, <2>4
<1> QED
  BY <1>3, <1>4

LEMMA ReturnsOther ==
  ASSUME PortInv, NEW result, Return(result), pc # "idle", trusted => result = Failed
  PROVE  Port!Next
<1>1. /\ pc' = "idle" /\ Todo' = <<>> /\ got' = <<>> /\ dm' = dm /\ trusted' = trusted
      /\ answer' = result
      /\ \/ Loose' = Loose
         \/ Loose = <<>> /\ Todo # <<>> /\ Loose' = <<Head(Todo)>>
  BY Returning
<1>2. (pc' # "idle") = FALSE /\ pc # "idle"
  BY <1>1
<1>3. trusted => answer' = Port!NoAnswer
  BY <1>1 DEF Failed, Port!NoAnswer
<1>4. Port!ReturnOther
  BY <1>1, <1>2, <1>3 DEF Port!ReturnOther, Todo, Loose
<1> QED
  BY <1>4 DEF Port!Next

LEMMA ReturnImplements ==
  ASSUME PortInv, ReturnDone \/ ReturnFailed \/ ReturnNone
  PROVE  Port!Next
<1>1. CASE ReturnFailed \/ ReturnNone
  <2>1. Return(Failed) /\ pc # "idle"
    BY <1>1 DEF ReturnFailed, ReturnNone, Returned
  <2> QED
    BY <2>1, ReturnsOther
<1>2. CASE ReturnDone
  <2> DEFINE data == IF kind \in ReadKinds THEN Append(buffer, DataOut) ELSE <<>>
             result == [done |-> TRUE, data |-> data]
  <2>1. pc = "nop" /\ dtmPc = "rest" /\ kind # "nop" /\ Ok /\ Return(result)
    BY <1>2 DEF ReturnDone, Returned, ReadKinds
  <2>2. CASE ~ trusted
    <3> HIDE DEF data, result
    <3> QED
      BY <2>1, <2>2, ReturnsOther
  <2>3. CASE trusted
    <3>1. ~ Busy /\ made = Len(reqs) /\ data = got
      BY <2>1, <2>3, AnswerIsGot
    <3>2. Todo = <<>> /\ Loose = <<>>
      BY <3>1, TodoIs
    <3>3. result = [done |-> TRUE, data |-> got]
      BY <3>1
    <3> HIDE DEF data, result
    <3>4. /\ pc' = "idle" /\ Todo' = <<>> /\ got' = <<>> /\ dm' = dm /\ trusted' = trusted
          /\ answer' = result
          /\ \/ Loose' = Loose
             \/ Loose = <<>> /\ Todo # <<>> /\ Loose' = <<Head(Todo)>>
      BY <2>1, Returning
    <3>5. Loose' = Loose /\ Todo' = Todo
      BY <3>2, <3>4
    <3>6. (pc' # "idle") = FALSE /\ pc # "idle"
      BY <2>1, <3>4
    <3>7. Port!ReturnDone
      BY <2>3, <3>2, <3>3, <3>4, <3>5, <3>6 DEF Port!ReturnDone, Todo, Loose
    <3> QED
      BY <3>7 DEF Port!Next
  <2> QED
    BY <2>2, <2>3
<1> QED
  BY <1>1, <1>2

LEMMA OutsideImplements ==
  ASSUME PortInv, AccessDone \/ AccessFails \/ LosePower
  PROVE  Port!Next \/ UNCHANGED Port!vars
<1>1. /\ pc' = pc /\ reqs' = reqs /\ answer' = answer /\ mine' = FALSE /\ request' = NoRequest
      /\ Loose' = <<>>
  BY DEF AccessDone, AccessFails, LosePower, RequestDone, RequestFails, PowerCycle, callVars, Loose, Busy
<1>2. CASE AccessDone
  <2>1. /\ Busy /\ trusted' = trusted
        /\ \/ /\ request.op = OpWrite
              /\ dm' = [dm EXCEPT ![request.addr] = request.data]
           \/ /\ request.op = OpRead
              /\ response' = dm[request.addr] /\ dm' = dm
        /\ IF mine THEN made' = made + 1 /\ got' = (IF request.op = OpRead THEN Append(got, response') ELSE got)
                   ELSE made' = made /\ got' = got
    BY <1>2 DEF AccessDone, RequestDone
  <2>2. request \in Requests
    BY <2>1, TodoIs
  <2> DEFINE a == AccessOf(request)
  <2>3. /\ a.write = (request.op = OpWrite) /\ a.addr = request.addr /\ a.data = request.data
        /\ request.op \in {OpRead, OpWrite}
    BY <2>2, AccessType
  <2> HIDE DEF a
  <2>4. dm' = IF a.write THEN [dm EXCEPT ![a.addr] = a.data] ELSE dm
    BY <2>1, <2>3, OpType
  <2>5. CASE mine
    <3>1. /\ Todo # <<>> /\ Head(Todo) = a /\ Loose = <<>>
          /\ Tail(Todo) = Accesses(SubSeq(reqs, made + 1 + 1, Len(reqs)))
      BY <2>5, TodoIs DEF a
    <3>2. Todo' = Tail(Todo)
      BY <1>1, <2>1, <2>5, <3>1 DEF Todo
    <3>3. got' = IF a.write THEN got ELSE Append(got, dm[a.addr])
      BY <2>1, <2>3, <2>5, OpType
    <3>4. pc # "idle"
      <4>1. pc = "idle" => reqs = <<>>
        BY DEF PortInv, CodeInv, CallShape
      <4> QED
        BY <2>5, <4>1, TodoIs
    <3>5. Port!Made(a)
      BY <2>4 DEF Port!Made
    <3>6. Port!Make
      <4>1. Port!Made(Head(Todo)) /\ got' = (IF Head(Todo).write THEN got ELSE Append(got, dm[Head(Todo).addr]))
        BY <3>1, <3>3, <3>5
      <4>2. (pc' # "idle") = (pc # "idle")
        BY <1>1
      <4> QED
        BY <1>1, <2>1, <3>1, <3>2, <3>4, <4>1, <4>2 DEF Port!Make, Todo, Loose
    <3> QED
      BY <3>6 DEF Port!Next
  <2>6. CASE ~ mine
    <3>1. Loose # <<>> /\ Head(Loose) = a
      BY <2>1, <2>6, TodoIs DEF a
    <3>2. Todo' = Todo /\ got' = got
      BY <1>1, <2>1, <2>6 DEF Todo
    <3>3. Port!Made(a)
      BY <2>4 DEF Port!Made
    <3>4. Port!MakeLoose
      <4>1. (pc' # "idle") = (pc # "idle")
        BY <1>1
      <4>2. Port!Made(Head(Loose))
        BY <3>1, <3>3
      <4> QED
        BY <1>1, <2>1, <3>1, <3>2, <4>1, <4>2 DEF Port!MakeLoose, Todo, Loose
    <3> QED
      BY <3>4 DEF Port!Next
  <2> QED
    BY <2>5, <2>6
<1>3. CASE AccessFails
  <2>1. Busy /\ dm' = dm /\ made' = made /\ got' = got /\ trusted' = trusted
    BY <1>3 DEF AccessFails, RequestFails
  <2>2. Todo' = Todo /\ (pc' # "idle") = (pc # "idle") /\ (pc' = "idle") = (pc = "idle")
    BY <1>1, <2>1 DEF Todo
  <2>3. CASE mine
    <3>1. Loose' = Loose
      BY <1>1, <2>3, TodoIs
    <3> QED
      BY <1>1, <2>1, <2>2, <3>1, Unseen
  <2>4. CASE ~ mine
    <3>1. Loose # <<>>
      BY <2>1, <2>4, TodoIs
    <3>2. Port!MakeLoose
      BY <1>1, <2>1, <2>2, <3>1 DEF Port!MakeLoose, Todo, Loose
    <3> QED
      BY <3>2 DEF Port!Next
  <2> QED
    BY <2>3, <2>4
<1>4. CASE LosePower
  <2>1. dm' = Port!Blanks /\ trusted' = FALSE /\ made' = made /\ got' = got
    BY <1>4 DEF LosePower, PowerCycle, Port!Blanks
  <2>2. Todo' = Todo /\ (pc' # "idle") = (pc # "idle")
    BY <1>1, <2>1 DEF Todo
  <2>3. Port!LosePower
    BY <1>1, <2>1, <2>2 DEF Port!LosePower, Todo, Loose
  <2> QED
    BY <2>3 DEF Port!Next
<1> QED
  BY <1>2, <1>3, <1>4

LEMMA StepImplements == PortInv /\ [Next]_vars => [Port!Next]_(Port!vars)
<1> SUFFICES ASSUME PortInv, [Next]_vars PROVE Port!Next \/ UNCHANGED Port!vars
  OBVIOUS
<1>1. CASE CallNop \/ CallRead \/ CallWrite \/ CallReadVector \/ CallWriteVector \/ Connect
  BY <1>1, CallImplements
<1>2. CASE /\ DtmStep /\ UNCHANGED <<callVars, trusted, cycles>>
           /\ IF request' # request THEN mine' = TRUE /\ UNCHANGED <<made, got>>
                                    ELSE UNCHANGED historyVars
  BY <1>2, ScanUnseen
<1>3. CASE \/ InitIdcode \/ InitDtmcs \/ OpNext \/ OpLast
           \/ ReadBusy \/ ReadAgain \/ ReadGivesUp \/ NotOk
  BY <1>3, StepUnseen
<1>4. CASE ReturnDone \/ ReturnFailed \/ ReturnNone
  BY <1>4, ReturnImplements
<1>5. CASE AccessDone \/ AccessFails \/ LosePower
  BY <1>5, OutsideImplements
<1>6. CASE UNCHANGED vars
  <2>1. UNCHANGED <<dm, pc, reqs, made, mine, got, trusted, request, answer>>
    BY <1>6 DEF vars, targetVars, historyVars, callVars
  <2>2. Todo' = Todo /\ Loose' = Loose
    BY <2>1 DEF Todo, Loose, Busy
  <2> QED
    BY <2>1, <2>2, Unseen
<1> QED
  BY <1>1, <1>2, <1>3, <1>4, <1>5, <1>6, Zenon DEF Next, Host

LEMMA InitImplements == Init => Port!Init
<1> SUFFICES ASSUME Init PROVE Port!Init
  OBVIOUS
<1>1. /\ pc = "idle" /\ reqs = <<>> /\ made = 0 /\ mine = FALSE /\ got = <<>> /\ trusted = FALSE
      /\ answer = Failed /\ request = NoRequest /\ dm = [a \in Word(AddrBits) |-> Zeros(DataBits)]
  BY DEF Init, TargetInit
<1>2. Todo = <<>>
  <2>1. PortInv
    BY InitPort
  <2> QED
    BY <1>1, <2>1, TodoIs
<1>3. Loose = <<>>
  BY <1>1 DEF Loose, Busy
<1>4. (pc # "idle") = FALSE
  BY <1>1
<1> QED
  BY <1>1, <1>2, <1>3, <1>4 DEF Port!Init, Port!Blanks, Port!NoAnswer, Failed, Todo, Loose

\* dmi.c, dtm.c and tap.c together implement RegisterPort: a call that returns
\* DONE has made its accesses once each, in order, after whatever an earlier
\* call left behind, and returns what they read, as long as the target keeps
\* the power it had when it was connected; and whatever happens to the target,
\* no access is made but those that were asked for, in order and once each.
THEOREM PortRefined == Spec => PortSpec
BY PortInvariant, InitImplements, StepImplements, PTL DEF Spec, PortSpec, Port!Spec
=============================================================================
