----------------------------- MODULE NvmConfig -----------------------------
(***************************************************************************)
(* nvm-config.c: one flash page that holds the configuration and, half a   *)
(* page further, its complement.  The configuration is one word, a word is *)
(* the set of its bits that are one: erasing makes it Bits, programming    *)
(* clears bits.  Each operation of the flash controller is a step; one     *)
(* that fails, or that a power failure cuts short, leaves some of the bits *)
(* it was to change unchanged.                                             *)
(***************************************************************************)
EXTENDS Naturals

CONSTANT Bits

ASSUME BitsAssumption == 0 \in Bits

Word == SUBSET Bits

VARIABLES
  main, inverse,\* the words at RVL_CONFIG_BASE and RVL_CONFIG_NOT_BASE
  locked,       \* the flash controller refuses to erase and to program
  pc,           \* where rvl_config_write is; idle when it is not called
  result        \* what it has returned: none, done or failed

pageVars == <<main, inverse>>
writeVars == <<locked, pc, result>>
nvmVars == <<pageVars, writeVars>>

NvmInit ==
  /\ main = Bits /\ inverse = Bits
  /\ locked = TRUE /\ pc = "idle" /\ result = "none"

\* The words an erasure, or programming d, may leave when it is cut short.
PartlyErased(w) == {v \in Word : w \subseteq v}
PartlyWritten(w, d) == {v \in Word : w \cap d \subseteq v /\ v \subseteq w}

(***************************************************************************)
(* rvl_config_read.                                                        *)
(***************************************************************************)
\* Mutation: the complement is not looked at.
ValidAlways == TRUE

Valid == inverse = Bits \ main

(***************************************************************************)
(* rvl_config_write of the word config; only the first copy is compared.   *)
(***************************************************************************)
Return(r) == pc' = "idle" /\ result' = r

Compare(config) ==
  /\ IF main = config
       THEN Return("done") /\ UNCHANGED locked
       ELSE pc' = "erase" /\ result' = "none" /\ locked' = FALSE
  /\ UNCHANGED pageVars

\* rvl_config_write_real
Erase ==
  /\ pc = "erase"
  /\ \/ /\ main' = Bits /\ inverse' = Bits
        /\ pc' = "main"
        /\ UNCHANGED <<locked, result>>
     \/ /\ main' \in PartlyErased(main) /\ inverse' \in PartlyErased(inverse)
        /\ locked' = TRUE
        /\ Return("failed")

ProgramMain(config) ==
  /\ pc = "main"
  /\ \/ /\ main' = main \cap config
        /\ pc' = "inverse"
        /\ UNCHANGED <<locked, result>>
     \/ /\ main' \in PartlyWritten(main, config)
        /\ locked' = TRUE
        /\ Return("failed")
  /\ UNCHANGED inverse

\* Mutation: the error path leaves the flash unlocked.
ProgramInverseUnlocked(config) ==
  /\ pc = "inverse"
  /\ \/ /\ inverse' = inverse \cap (Bits \ config)
        /\ locked' = TRUE
        /\ Return("done")
     \/ /\ inverse' \in PartlyWritten(inverse, Bits \ config)
        /\ Return("failed")
        /\ UNCHANGED locked
  /\ UNCHANGED main

\* Mutation: the complement is forgotten.
ProgramInverseSkipped(config) ==
  /\ pc = "inverse"
  /\ locked' = TRUE
  /\ Return("done")
  /\ UNCHANGED pageVars

ProgramInverse(config) ==
  /\ pc = "inverse"
  /\ \/ /\ inverse' = inverse \cap (Bits \ config)
        /\ Return("done")
     \/ /\ inverse' \in PartlyWritten(inverse, Bits \ config)
        /\ Return("failed")
  /\ locked' = TRUE
  /\ UNCHANGED main

(***************************************************************************)
(* The power fails; the operation under way is cut short.                  *)
(***************************************************************************)
CutShort(config) ==
  /\ main' \in CASE pc = "erase" -> PartlyErased(main)
                 [] pc = "main"  -> PartlyWritten(main, config)
                 [] OTHER        -> {main}
  /\ inverse' \in CASE pc = "erase"   -> PartlyErased(inverse)
                    [] pc = "inverse"   -> PartlyWritten(inverse, Bits \ config)
                    [] OTHER          -> {inverse}
  /\ locked' = TRUE /\ pc' = "idle" /\ result' = "none"

NvmTypeOK ==
  /\ main \in Word /\ inverse \in Word
  /\ locked \in BOOLEAN
  /\ pc \in {"idle", "erase", "main", "inverse"}
  /\ result \in {"none", "done", "failed"}
=============================================================================
