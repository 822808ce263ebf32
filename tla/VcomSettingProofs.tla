------------------------- MODULE VcomSettingProofs -------------------------
(***************************************************************************)
(* Theorems about VcomSetting, for words of any number of bits.            *)
(***************************************************************************)
EXTENDS VcomSetting, TLAPS

(***************************************************************************)
(* What a page may hold, cut short or not: the complement is blank or that *)
(* of On, and then the first copy has at least the bit of On.  This is why *)
(* one complement per word is enough.                                      *)
(***************************************************************************)
PageSound(m, i) ==
  /\ m \in Word /\ i \in {Bits, Bits \ {0}}
  /\ i # Bits => 0 \in m

ReadsAs(m, i) == IF i = Bits \ m THEN m ELSE Off

\* A sound page is read as On only when it holds On whole.
LEMMA SoundReads ==
  ASSUME NEW m, NEW i, PageSound(m, i)
  PROVE  /\ ReadsAs(m, i) \in {On, Off}
         /\ ReadsAs(m, i) = On <=> m = {0} /\ i = Bits \ {0}
         /\ i = Bits => ReadsAs(m, i) = Off
BY BitsAssumption DEF PageSound, ReadsAs, On, Off, Word

\* Setting bits of both words leaves a sound page, which is read as before or as Off.
LEMMA ErasingIsSound ==
  ASSUME NEW m, NEW i, PageSound(m, i),
         NEW m2 \in PartlyErased(m), NEW i2 \in PartlyErased(i)
  PROVE  /\ PageSound(m2, i2)
         /\ ReadsAs(m2, i2) \in {Off, ReadsAs(m, i)}
<1>1. m2 \in Word /\ m \subseteq m2 /\ i2 \in Word /\ i \subseteq i2
  BY DEF PartlyErased
<1>2. i2 \in {Bits, Bits \ {0}} /\ (i2 # Bits => i = Bits \ {0})
  BY <1>1, BitsAssumption DEF PageSound, Word
<1>3. PageSound(m2, i2)
  BY <1>1, <1>2, BitsAssumption DEF PageSound, Word
<1>4. ASSUME ReadsAs(m2, i2) = On  PROVE  ReadsAs(m, i) = On
  <2>1. m2 = {0} /\ i2 = Bits \ {0}
    BY <1>3, <1>4, SoundReads
  <2>2. i = Bits \ {0} /\ 0 \in m
    BY <1>2, <2>1, BitsAssumption DEF PageSound
  <2>3. m = {0}
    BY <1>1, <2>1, <2>2
  <2> QED
    BY <2>2, <2>3, SoundReads
<1> QED
  BY <1>3, <1>4, SoundReads

\* While the complement is blank, the page is sound and read as Off.
LEMMA BlankIsSound ==
  ASSUME NEW m \in Word
  PROVE  PageSound(m, Bits) /\ ReadsAs(m, Bits) = Off
<1>1. PageSound(m, Bits)
  BY DEF PageSound
<1> QED
  BY <1>1, SoundReads

\* Programming the complement of a word that is stored leaves a page that is
\* read as Off or as that word, and as that word when it is complete.
LEMMA ComplementingIsSound ==
  ASSUME NEW w \in {On, Off}
  PROVE  /\ w \in Word /\ w \cap Bits = w
         /\ PageSound(w, Bits \ w) /\ ReadsAs(w, Bits \ w) = w
         /\ Bits \cap (Bits \ w) = Bits \ w
         /\ \A i \in PartlyWritten(Bits, Bits \ w) :
              PageSound(w, i) /\ ReadsAs(w, i) \in {Off, w}
<1>1. w \in Word /\ w \cap Bits = w /\ Bits \cap (Bits \ w) = Bits \ w
  BY BitsAssumption DEF On, Off, Word
<1>2. PageSound(w, Bits \ w)
  BY <1>1 DEF PageSound, On, Off
<1>3. ReadsAs(w, Bits \ w) = w
  BY DEF ReadsAs
<1>4. ASSUME NEW i \in PartlyWritten(Bits, Bits \ w)  PROVE  i \in {Bits, Bits \ w}
  <2>1. i \subseteq Bits /\ Bits \ w \subseteq i
    BY <1>1 DEF PartlyWritten, Word
  <2>2. CASE 0 \in i
    BY <2>1, <2>2 DEF On, Off
  <2>3. CASE 0 \notin i
    BY <2>1, <2>3 DEF On, Off
  <2> QED
    BY <2>2, <2>3
<1>5. PageSound(w, Bits) /\ ReadsAs(w, Bits) = Off
  BY <1>1, BlankIsSound
<1> QED
  BY <1>1, <1>2, <1>3, <1>4, <1>5

(***************************************************************************)
(* The inductive invariant.                                                *)
(***************************************************************************)
Sound == PageSound(main, inverse)

\* Where a write is, and what it has done to the page so far.
WriteSound ==
  /\ pc # "idle" => mode \in {"boot", "monitor"} /\ Off \in {prev, wanted}
  /\ mode \in {"boot", "monitor"} => wanted = ram
  /\ mode = "boot" => ram = Off /\ prev = Off
  /\ mode = "monitor" => promise = {} /\ ~sure
  /\ pc = "main" => main = Bits /\ inverse = Bits
  /\ pc = "inverse" => main = ram /\ inverse = Bits

\* The page is valid unless the flash has failed.
PageGood ==
  /\ mode = "serve" /\ ~faulted => Valid
  /\ mode \in {"boot", "monitor"} /\ pc = "idle" /\ result = "done" =>
       main = ram /\ (Valid \/ (mode = "monitor" /\ faulted))
  /\ mode \in {"boot", "monitor"} /\ pc = "idle" => result \in {"done", "failed"}

IInv ==
  /\ TypeOK /\ Sound /\ WriteSound /\ PageGood
  /\ SettingAtomic /\ OkIsKept /\ LockedAtRest

LEMMA Reading == BootReads = ReadsAs(main, inverse) /\ (Valid => BootReads = main)
BY DEF BootReads, ReadsAs, Valid

LEMMA InitInvariant == Init => IInv
<1> SUFFICES ASSUME Init PROVE IInv
  OBVIOUS
<1>1. main = Bits /\ inverse = Bits
  BY DEF Init, NvmInit
<1>2. TypeOK
  BY BitsAssumption DEF Init, NvmInit, TypeOK, NvmTypeOK, Word
<1>3. Sound /\ BootReads = Off
  <2>1. Bits \in Word
    BY DEF Word
  <2> QED
    BY <1>1, <2>1, BlankIsSound, Reading DEF Sound
<1> QED
  BY <1>2, <1>3 DEF Init, NvmInit, IInv, WriteSound, PageGood, SettingAtomic,
     OkIsKept, LockedAtRest

\* A step that leaves the page alone leaves what a start reads from it.
LEMMA PageUnchanged ==
  ASSUME UNCHANGED pageVars
  PROVE  BootReads' = BootReads /\ Valid' = Valid /\ Sound' = Sound
BY DEF pageVars, BootReads, Valid, Sound

LEMMA BootStep ==
  ASSUME IInv, BootValid \/ BootRepair \/ BootWritten
  PROVE  IInv'
<1> USE DEF IInv, WriteSound, PageGood, SettingAtomic, OkIsKept, LockedAtRest,
            TypeOK, NvmTypeOK, nvmVars, pageVars, writeVars
<1>0. UNCHANGED pageVars
  BY DEF BootValid, BootRepair, BootWritten, Compare
<1>1. BootReads' = BootReads /\ Valid' = Valid /\ Sound'
  BY <1>0, PageUnchanged
<1>2. BootReads \in {On, Off} /\ (BootReads = On <=> main = {0} /\ inverse = Bits \ {0})
  BY SoundReads, Reading DEF Sound
<1>3. CASE BootValid
  <2>1. ram' = main /\ main \in {On, Off} /\ Valid
    BY <1>2, <1>3, Reading DEF BootValid
  <2> QED
    BY <1>1, <1>3, <2>1 DEF BootValid, Serve
<1>4. CASE BootRepair
  <2>1. BootReads = Off /\ ~Valid
    BY <1>4 DEF BootRepair, BootReads
  <2>2. main # Off
    <3>1. SUFFICES ASSUME main = Off PROVE FALSE
      OBVIOUS
    <3>2. inverse = Bits
      BY <3>1 DEF Sound, PageSound, Off
    <3> QED
      BY <2>1, <3>1, <3>2 DEF Valid, Off
  <2>3. pc' = "erase" /\ result' = "none" /\ locked' = FALSE
    BY <1>4, <2>2 DEF BootRepair, Compare
  <2>4. mode' = "boot" /\ ram' = Off /\ prev' = Off /\ wanted' = Off
    BY <1>4, <2>1 DEF BootRepair
  <2>5. UNCHANGED <<pageVars, described, attached, endpoints, promise, faulted,
                    sure, changed>>
    BY <1>0, <1>4 DEF BootRepair
  <2>6. TypeOK'
    BY <2>3, <2>4, <2>5
  <2>7. WriteSound' /\ PageGood' /\ LockedAtRest'
    BY <2>3, <2>4
  <2>8. SettingAtomic' /\ OkIsKept'
    BY <1>1, <2>1, <2>4, <2>5
  <2> QED
    BY <1>1, <2>6, <2>7, <2>8
<1>5. CASE BootWritten
  <2>1. mode' \in {"halted", "serve"} /\ described' \in BOOLEAN
    BY <1>5 DEF BootWritten, Serve
  <2>2. ~faulted' => Valid
    BY <1>5 DEF BootWritten
  <2>3. faulted' \in BOOLEAN
    BY <1>5 DEF BootWritten
  <2>4. UNCHANGED <<nvmVars, ram, attached, endpoints, prev, wanted, promise,
                    sure, changed>> /\ pc = "idle"
    BY <1>5 DEF BootWritten
  <2>5. TypeOK'
    BY <2>1, <2>3, <2>4
  <2>6. WriteSound' /\ PageGood'
    BY <1>1, <2>1, <2>2, <2>4
  <2>7. SettingAtomic' /\ OkIsKept' /\ LockedAtRest'
    BY <1>1, <2>4
  <2> QED
    BY <1>1, <2>5, <2>6, <2>7
<1> QED
  BY <1>3, <1>4, <1>5

LEMMA MonitorStep ==
  ASSUME IInv, MonitorReply \/ \E setting \in {On, Off} : Monitor(setting)
  PROVE  IInv'
<1> USE DEF IInv, WriteSound, PageGood, SettingAtomic, OkIsKept, LockedAtRest,
            TypeOK, NvmTypeOK, nvmVars, pageVars, writeVars
<1>0. UNCHANGED pageVars
  BY DEF MonitorReply, Monitor, Compare
<1>1. BootReads' = BootReads /\ Valid' = Valid /\ Sound'
  BY <1>0, PageUnchanged
<1>2. BootReads \in {On, Off} /\ (BootReads = On => main = On)
  BY SoundReads, Reading DEF Sound, On
<1>3. CASE MonitorReply
  <2>1. result = "done" /\ ~faulted => BootReads = ram /\ Valid
    BY <1>3, Reading DEF MonitorReply
  <2>2. promise' \in {{}, {On}, {Off}}
    BY <1>3 DEF MonitorReply
  <2>3. sure' => promise' \subseteq {BootReads}
    BY <1>3, <2>1 DEF MonitorReply
  <2>4. ~faulted' => Valid
    BY <1>3, <2>1 DEF MonitorReply
  <2> QED
    BY <1>1, <1>3, <2>2, <2>3, <2>4 DEF MonitorReply
<1>4. ASSUME NEW setting \in {On, Off}, Monitor(setting)
      PROVE  IInv'
  <2>1. /\ ram' = setting /\ wanted' = setting /\ prev' = BootReads
        /\ mode' = "monitor" /\ mode = "serve" /\ changed' = TRUE
        /\ promise' = {} /\ sure' = FALSE /\ faulted' = faulted
        /\ UNCHANGED <<main, inverse, described, attached, endpoints>>
    BY <1>4, <1>0 DEF Monitor
  <2>2. CASE main = setting
    <3>1. pc' = "idle" /\ result' = "done" /\ locked' = locked /\ pc = "idle"
      BY <1>4, <2>1, <2>2 DEF Monitor, Compare, Return
    <3> QED
      BY <1>1, <1>2, <2>1, <2>2, <3>1
  <2>3. CASE main # setting
    <3>1. pc' = "erase" /\ result' = "none" /\ locked' = FALSE
      BY <1>4, <2>3 DEF Monitor, Compare
    <3>2. Off \in {BootReads, setting}
      BY <1>2, <2>3
    <3> QED
      BY <1>1, <1>2, <2>1, <3>1, <3>2
  <2> QED
    BY <2>2, <2>3
<1> QED
  BY <1>3, <1>4

\* The flash driver: each operation, and each way it may fail.
LEMMA WriteStep ==
  ASSUME IInv, Write
  PROVE  IInv'
<1> USE DEF IInv, WriteSound, PageGood, SettingAtomic, OkIsKept, LockedAtRest
<1>0. /\ UNCHANGED <<serverVars, ghostVars>>
      /\ pc # "idle" /\ ~(mode \in {"off", "serve", "halted"})
      /\ mode \in {"boot", "monitor"} /\ wanted = ram /\ ram \in {On, Off}
      /\ main \in Word /\ inverse \in Word
  BY DEF Write, Erase, ProgramMain, ProgramInverse, TypeOK, NvmTypeOK
<1>1. ram \in Word /\ Bits \in Word
  BY <1>0, ComplementingIsSound DEF Word
<1>2. CASE Erase
  <2>1. /\ main' \in PartlyErased(main) /\ inverse' \in PartlyErased(inverse)
        /\ pc = "erase"
    <3>1. Bits \in PartlyErased(main) /\ Bits \in PartlyErased(inverse)
      BY <1>0, <1>1 DEF PartlyErased, Word
    <3> QED
      BY <1>2, <3>1 DEF Erase
  <2>2. Sound' /\ BootReads' \in {Off, BootReads}
    BY <2>1, ErasingIsSound, Reading DEF Sound, BootReads, Valid, ReadsAs
  <2>3. \/ pc' = "main" /\ main' = Bits /\ inverse' = Bits /\ UNCHANGED <<locked, result>>
        \/ pc' = "idle" /\ result' = "failed" /\ locked' = TRUE
    BY <1>2 DEF Erase, Return
  <2>4. TypeOK'
    BY <1>0, <2>1, <2>3 DEF TypeOK, NvmTypeOK, PartlyErased, serverVars, ghostVars
  <2>5. WriteSound' /\ PageGood' /\ LockedAtRest'
    BY <1>0, <2>1, <2>3 DEF serverVars, ghostVars
  <2>6. SettingAtomic'
    BY <1>0, <2>1, <2>2 DEF serverVars, ghostVars
  <2>7. OkIsKept'
    BY <1>0, <2>2, <2>1 DEF serverVars, ghostVars
  <2> QED
    BY <2>2, <2>4, <2>5, <2>6, <2>7
<1>3. CASE ProgramMain(ram)
  <2>1. main = Bits /\ inverse = Bits /\ inverse' = Bits /\ pc = "main"
    BY <1>3 DEF ProgramMain
  <2>2. \/ pc' = "inverse" /\ main' = ram /\ UNCHANGED <<locked, result>>
        \/ pc' = "idle" /\ result' = "failed" /\ locked' = TRUE /\ main' \in Word
    BY <1>0, <1>3, <2>1, ComplementingIsSound DEF ProgramMain, Return, PartlyWritten
  <2>3. main' \in Word
    BY <1>1, <2>2
  <2>4. Sound' /\ BootReads' = Off
    BY <2>1, <2>3, BlankIsSound DEF Sound, BootReads, Valid, ReadsAs
  <2>5. TypeOK'
    BY <1>0, <2>1, <2>2, <2>3 DEF TypeOK, NvmTypeOK, serverVars, ghostVars
  <2>6. WriteSound' /\ PageGood' /\ LockedAtRest'
    BY <1>0, <2>1, <2>2 DEF serverVars, ghostVars
  <2>7. SettingAtomic' /\ OkIsKept'
    BY <1>0, <2>1, <2>4 DEF serverVars, ghostVars
  <2> QED
    BY <2>4, <2>5, <2>6, <2>7
<1>4. CASE ProgramInverse(ram)
  <2>1. main = ram /\ main' = ram /\ inverse = Bits /\ pc = "inverse" /\ pc' = "idle"
        /\ locked' = TRUE
    BY <1>4 DEF ProgramInverse, Return
  <2>2. \/ inverse' = Bits \ ram /\ result' = "done"
        \/ inverse' \in PartlyWritten(Bits, Bits \ ram) /\ result' = "failed"
    BY <1>0, <1>4, <2>1, ComplementingIsSound DEF ProgramInverse, Return
  <2>3. Sound' /\ BootReads' \in {Off, ram}
    BY <1>0, <2>1, <2>2, ComplementingIsSound DEF Sound, BootReads, Valid, ReadsAs
  <2>4. inverse' \in Word
    BY <2>2, <1>1 DEF PartlyWritten, Word
  <2>5. TypeOK'
    BY <1>0, <1>1, <2>1, <2>2, <2>4 DEF TypeOK, NvmTypeOK, serverVars, ghostVars
  <2>6. WriteSound' /\ PageGood' /\ LockedAtRest'
    BY <1>0, <2>1, <2>2 DEF serverVars, ghostVars, Valid
  <2>7. SettingAtomic'
    BY <1>0, <2>1, <2>3 DEF serverVars, ghostVars
  <2>8. OkIsKept'
    BY <1>0, <2>1, <2>3 DEF serverVars, ghostVars
  <2> QED
    BY <2>3, <2>5, <2>6, <2>7, <2>8
<1> QED
  BY <1>2, <1>3, <1>4 DEF Write

LEMMA PowerStep ==
  ASSUME IInv, PowerFails
  PROVE  IInv'
<1> USE DEF IInv, WriteSound, PageGood, SettingAtomic, OkIsKept, LockedAtRest
<1>0. /\ mode' = "off" /\ ram' = Off /\ pc' = "idle" /\ locked' = TRUE
      /\ result' = "none" /\ changed' = FALSE
      /\ described' = FALSE /\ attached' = FALSE /\ endpoints' = FALSE
      /\ UNCHANGED <<prev, wanted, promise, faulted, sure>>
      /\ main \in Word /\ inverse \in Word /\ ram \in {On, Off}
  BY DEF PowerFails, CutShort, TypeOK, NvmTypeOK
<1>1. ram \in Word /\ Bits \in Word
  BY <1>0, ComplementingIsSound DEF Word
<1>2. /\ main' \in Word /\ inverse' \in Word /\ Sound'
      /\ BootReads' \in {prev, wanted}
      /\ sure => promise \subseteq {BootReads'}
  <2>1. CASE pc = "erase"
    <3>1. main' \in PartlyErased(main) /\ inverse' \in PartlyErased(inverse)
      BY <2>1 DEF PowerFails, CutShort
    <3>2. Sound' /\ BootReads' \in {Off, BootReads}
      BY <3>1, ErasingIsSound, Reading DEF Sound, BootReads, Valid, ReadsAs
    <3> QED
      BY <2>1, <3>1, <3>2 DEF PartlyErased
  <2>2. CASE pc = "main"
    <3>1. main' \in Word /\ inverse' = Bits
      BY <1>1, <2>2 DEF PowerFails, CutShort, PartlyWritten
    <3>2. Sound' /\ BootReads' = Off
      BY <3>1, BlankIsSound DEF Sound, BootReads, Valid, ReadsAs
    <3> QED
      BY <1>1, <2>2, <3>1, <3>2
  <2>3. CASE pc = "inverse"
    <3>1. main' = ram /\ inverse' \in PartlyWritten(Bits, Bits \ ram)
      BY <2>3 DEF PowerFails, CutShort
    <3>2. Sound' /\ BootReads' \in {Off, ram}
      BY <1>0, <3>1, ComplementingIsSound DEF Sound, BootReads, Valid, ReadsAs
    <3> QED
      BY <1>0, <1>1, <2>3, <3>1, <3>2 DEF PartlyWritten
  <2>4. CASE pc = "idle"
    <3>1. UNCHANGED pageVars
      BY <2>4 DEF PowerFails, CutShort, pageVars
    <3>2. main' = main /\ inverse' = inverse
      BY <3>1 DEF pageVars
    <3> QED
      BY <1>0, <3>1, <3>2, PageUnchanged
  <2> QED
    BY <2>1, <2>2, <2>3, <2>4 DEF TypeOK, NvmTypeOK
<1>3. TypeOK'
  BY <1>0, <1>2 DEF TypeOK, NvmTypeOK
<1>4. WriteSound' /\ PageGood' /\ LockedAtRest'
  BY <1>0
<1>5. SettingAtomic' /\ OkIsKept'
  BY <1>0, <1>2
<1> QED
  BY <1>2, <1>3, <1>4, <1>5

LEMMA NextInvariant == IInv /\ [Next]_vars => IInv'
<1> SUFFICES ASSUME IInv, [Next]_vars PROVE IInv'
  OBVIOUS
<1>1. CASE BootValid \/ BootRepair \/ BootWritten
  BY <1>1, BootStep
<1>2. CASE MonitorReply \/ \E setting \in {On, Off} : Monitor(setting)
  BY <1>2, MonitorStep
<1>3. CASE Write
  BY <1>3, WriteStep
<1>4. CASE PowerFails
  BY <1>4, PowerStep
<1>5. CASE HostConfigures \/ UNCHANGED vars
  <2>1. /\ UNCHANGED <<nvmVars, mode, ram, described, ghostVars>>
        /\ attached' \in BOOLEAN /\ endpoints' \in BOOLEAN
    BY <1>5 DEF HostConfigures, vars, serverVars, IInv, TypeOK
  <2>2. BootReads' = BootReads /\ Valid' = Valid /\ Sound' = Sound
    BY <2>1, PageUnchanged DEF nvmVars
  <2>3. TypeOK'
    BY <2>1 DEF IInv, TypeOK, NvmTypeOK, nvmVars, pageVars, writeVars, ghostVars
  <2> QED
    BY <2>1, <2>2, <2>3 DEF IInv, WriteSound, PageGood, SettingAtomic, OkIsKept,
       LockedAtRest, nvmVars, pageVars, writeVars, ghostVars
<1> QED
  BY <1>1, <1>2, <1>3, <1>4, <1>5 DEF Next

THEOREM Invariant == Spec => []IInv
BY InitInvariant, NextInvariant, PTL DEF Spec

\* Whatever bits an operation that is cut short leaves behind, the server
\* never runs with a setting other than 0 and 1.
THEOREM SettingTypeCorrect == Spec => []TypeOK
<1>1. IInv => TypeOK
  BY DEF IInv
<1> QED
  BY <1>1, Invariant, PTL

\* A start after a power failure has the setting from before the write or the
\* one it was to store: rvl_config_write and the default of gdb_server_init
\* make the change atomic.
THEOREM SettingIsAtomic == Spec => []SettingAtomic
<1>1. IInv => SettingAtomic
  BY DEF IInv
<1> QED
  BY <1>1, Invariant, PTL

\* A setting acknowledged on a flash that has not failed is kept.
THEOREM SettingIsKept == Spec => []OkIsKept
<1>1. IInv => OkIsKept
  BY DEF IInv
<1> QED
  BY <1>1, Invariant, PTL

\* rvl_config_write locks the flash on every way out, the error exits included.
THEOREM FlashIsLocked == Spec => []LockedAtRest
<1>1. IInv => LockedAtRest
  BY DEF IInv
<1> QED
  BY <1>1, Invariant, PTL

(***************************************************************************)
(* What the host is shown is the setting the server started with, and only *)
(* a monitor command moves the setting away from it.                       *)
(***************************************************************************)
ShownInv ==
  /\ attached => mode \in {"serve", "monitor"}
  /\ mode = "monitor" => changed
  /\ mode \in {"serve", "monitor"} /\ ~changed => described = (ram # Off)
  /\ mode \in {"boot", "halted", "off"} => ~changed
  /\ attached /\ ~changed => endpoints = described

LEMMA ShownInit == Init => ShownInv
BY DEF Init, ShownInv

LEMMA ShownNext == ShownInv /\ [Next]_vars => ShownInv'
<1> SUFFICES ASSUME ShownInv, [Next]_vars PROVE ShownInv'
  OBVIOUS
<1>1. CASE BootValid
  BY <1>1 DEF BootValid, Serve, ShownInv
<1>2. CASE BootRepair
  BY <1>2 DEF BootRepair, ShownInv
<1>3. CASE BootWritten
  BY <1>3 DEF BootWritten, Serve, ShownInv
<1>4. CASE \E setting \in {On, Off} : Monitor(setting)
  BY <1>4 DEF Monitor, ShownInv
<1>5. CASE MonitorReply
  BY <1>5 DEF MonitorReply, ShownInv
<1>6. CASE Write
  BY <1>6 DEF Write, serverVars, ghostVars, ShownInv
<1>7. CASE HostConfigures
  BY <1>7 DEF HostConfigures, ghostVars, ShownInv
<1>8. CASE PowerFails
  BY <1>8 DEF PowerFails, ShownInv
<1>9. CASE UNCHANGED vars
  BY <1>9 DEF vars, serverVars, ghostVars, ShownInv
<1> QED
  BY <1>1, <1>2, <1>3, <1>4, <1>5, <1>6, <1>7, <1>8, <1>9 DEF Next

\* The descriptors, chosen at initialisation, and the endpoints, set up when
\* the host configures the device, agree: gdb_server_init comes first.
THEOREM EndpointsAgree == Spec => []EndpointsDescribed
<1>1. ShownInv => EndpointsDescribed
  BY DEF ShownInv, EndpointsDescribed
<1> QED
  BY <1>1, ShownInit, ShownNext, PTL DEF Spec
=============================================================================
