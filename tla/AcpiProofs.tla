----------------------------- MODULE AcpiProofs -----------------------------
(***************************************************************************)
(* Proofs about Acpi.tla, whatever addresses and sleep types the firmware  *)
(* names.                                                                  *)
(***************************************************************************)
EXTENDS Acpi, TLAPS

NSteps == 7

AllSteps == {Steps[i] : i \in 1 .. Len(Steps)}

\* The steps before `step` have succeeded; only `store` leaves the fallback,
\* and shutdown runs only after init has returned.
InitInv ==
    /\ firmware \in Firmware
    /\ pc \in {"init", "ready", "halted"}
    /\ step \in 1 .. (NSteps + 1)
    /\ \A i \in 1 .. NSteps : i < step => Steps[i] \in firmware.good
    /\ info = Found => pc = "ready" /\ step = NSteps + 1
    /\ info # Found => info = Fallback
    /\ pc = "ready" /\ info = Fallback => step <= NSteps /\ Steps[step] \notin firmware.good
    /\ pc # "ready" => port = NoPort

----------------------------------------------------------------------------
(* Lemmas *)

LEMMA StepsFacts ==
    /\ Len(Steps) = NSteps
    /\ AllSteps = {Steps[i] : i \in 1 .. NSteps}
BY DEF Steps, NSteps, AllSteps

\* The record that init stores is never the fallback.
LEMMA FoundIsNotFallback == Found # Fallback
<1>1. Found.use_qemu_fallback = FALSE /\ Fallback.use_qemu_fallback = TRUE
  BY DEF Found, Fallback
<1> QED BY <1>1

\* All steps have succeeded when none is left, and one has not when one fails.
LEMMA GoodSteps ==
    ASSUME firmware \in Firmware, step \in 1 .. (NSteps + 1),
           \A i \in 1 .. NSteps : i < step => Steps[i] \in firmware.good
    PROVE  /\ step = NSteps + 1 => firmware.good = AllSteps
           /\ step <= NSteps /\ Steps[step] \notin firmware.good => firmware.good # AllSteps
<1>1. firmware.good \subseteq AllSteps
  BY DEF Firmware, AllSteps
<1>2. ASSUME step = NSteps + 1 PROVE AllSteps \subseteq firmware.good
  BY <1>2, StepsFacts DEF NSteps
<1>3. ASSUME step <= NSteps PROVE Steps[step] \in AllSteps
  BY <1>3, StepsFacts DEF NSteps
<1> QED BY <1>1, <1>2, <1>3

\* SLP_EN is set in every word shutdown writes, whatever the sleep type was.
LEMMA SlpEnSet == ASSUME NEW x \in Nat PROVE (OrSlpEn(x) \div SlpEn) % 2 = 1
BY DEF OrSlpEn, SlpEn

\* A port is an address that the cut to u16 leaves as it is.
LEMMA PortAddress == ASSUME NEW n \in Nat, n <= 65535 PROVE as_u16(n) = n
BY DEF as_u16

LEMMA Widths == ASSUME NEW n \in Nat PROVE as_u16(n) \in U16 /\ as_u16(n) \in Nat
<1> DEFINE m == n % 65536
           top == 65536 - 1
<1>1. m \in Nat /\ top \in Nat /\ m <= top
  BY ONLY n \in Nat, Z3
<1>2. as_u16(n) = m /\ U16 = 0 .. top
  BY ONLY DEF as_u16, U16
<1> HIDE DEF m, top
<1>3. m \in 0 .. top
  BY ONLY <1>1
<1> QED BY ONLY <1>1, <1>2, <1>3

LEMMA NumbersType == firmware \in Firmware => firmware.pm1a \in Nat /\ firmware.s5 \in Nat
<1>1. firmware \in Firmware => firmware.pm1a \in Addresses /\ firmware.s5 \in SleepTypes
  BY DEF Firmware
<1> QED BY <1>1, AcpiAssumption

LEMMA InfoType == firmware \in Firmware => Fallback \in AcpiShutdown /\ Found \in AcpiShutdown
<1> SUFFICES ASSUME firmware \in Firmware PROVE Fallback \in AcpiShutdown /\ Found \in AcpiShutdown
  OBVIOUS
<1>1. firmware.pm1a \in Nat /\ firmware.s5 \in Nat
  BY NumbersType
<1>2. as_u16(firmware.s5) \in U16
  BY <1>1, Widths
<1>3. Fallback \in AcpiShutdown
  <2>1. 0 \in U16
    BY DEF U16
  <2> QED BY <2>1 DEF Fallback, AcpiShutdown
<1>4. Found \in AcpiShutdown
  <2>1. SlpEn \in U16
    BY DEF SlpEn, U16
  <2> QED BY <1>1, <1>2, <2>1 DEF Found, AcpiShutdown
<1> QED BY <1>3, <1>4

----------------------------------------------------------------------------
(* The invariant *)

LEMMA InitInit == Init => InitInv
<1>1. Found # Fallback
  BY FoundIsNotFallback
<1> QED BY <1>1 DEF Init, InitInv, NSteps

LEMMA NextInit == InitInv /\ [Next]_vars => InitInv'
<1> SUFFICES ASSUME InitInv, [Next]_vars
             PROVE  InitInv'
  OBVIOUS
<1>0. Len(Steps) = NSteps /\ NSteps = 7
  BY StepsFacts DEF NSteps
<1>1. Found # Fallback /\ (UNCHANGED firmware => Found' = Found)
  BY FoundIsNotFallback DEF Found
<1> HIDE DEF NSteps
<1>2. CASE next_step
  <2>1. info = Fallback /\ port = NoPort
    BY <1>2 DEF InitInv, next_step
  <2>2. step' \in 1 .. (NSteps + 1) /\ pc' \in {"init", "halted"}
    BY <1>0, <1>2 DEF InitInv, next_step
  <2>3. \A i \in 1 .. NSteps : i < step' => Steps[i] \in firmware.good
    BY <1>0, <1>2 DEF InitInv, next_step
  <2> QED BY <1>1, <1>2, <2>1, <2>2, <2>3 DEF InitInv, next_step
<1>3. CASE give_up
  BY <1>0, <1>1, <1>3 DEF InitInv, give_up
<1>4. CASE underflow
  BY <1>0, <1>1, <1>4 DEF InitInv, underflow
<1>5. CASE store
  BY <1>0, <1>1, <1>5 DEF InitInv, store
<1>6. CASE shutdown
  BY <1>1, <1>6 DEF InitInv, shutdown
<1>7. CASE UNCHANGED vars
  BY <1>1, <1>7 DEF InitInv, vars
<1> QED BY <1>2, <1>3, <1>4, <1>5, <1>6, <1>7 DEF Next

\* The two ways in which a write leaves the machine on.
LEMMA LeftOn ==
    ASSUME InitInv, shutdown, power' = "on"
    PROVE  IF info.use_qemu_fallback THEN ~firmware.debug_exit
           ELSE \/ firmware.pm1a > 65535
                \/ firmware.s5 % 8 # SleepTypeOf(OrSlpEn(as_u16(firmware.s5)))
<1>0. ~PowersOff(Written[1], Written[2])
  BY DEF shutdown
<1>1. firmware.pm1a \in Nat /\ firmware.s5 \in Nat /\ as_u16(firmware.s5) \in Nat
  <2>1. firmware.pm1a \in Nat /\ firmware.s5 \in Nat
    BY NumbersType DEF InitInv
  <2> QED BY <2>1, Widths
<1>2. CASE info.use_qemu_fallback
  <2>1. Written[1] = 244
    BY <1>2 DEF Written
  <2> QED BY <1>0, <1>2, <2>1 DEF PowersOff
<1>3. CASE ~info.use_qemu_fallback
  <2>1. info = Found
    BY <1>3 DEF InitInv, Fallback
  <2>2. info.pm1a_control_block = firmware.pm1a /\ info.slp_typ_a = as_u16(firmware.s5)
    BY <2>1 DEF Found
  <2>3. /\ Written[1] = as_u16(firmware.pm1a)
        /\ Written[2] = OrSlpEn(as_u16(firmware.s5))
    BY <1>3, <2>2 DEF Written
  <2>4. ~EntersS5(Written[1], Written[2])
    BY <1>0 DEF PowersOff
  <2>5. \/ as_u16(firmware.pm1a) # firmware.pm1a
        \/ firmware.s5 % 8 # SleepTypeOf(OrSlpEn(as_u16(firmware.s5)))
    BY <1>1, <2>3, <2>4, SlpEnSet DEF EntersS5
  <2> QED BY <1>1, <1>3, <2>5, PortAddress
<1> QED BY <1>2, <1>3

LEMMA NextStaysOn ==
    InitInv /\ StaysOnOnlyIfMisencoded /\ [Next]_vars => StaysOnOnlyIfMisencoded'
<1> SUFFICES ASSUME InitInv, StaysOnOnlyIfMisencoded, [Next]_vars
             PROVE  StaysOnOnlyIfMisencoded'
  OBVIOUS
<1>1. CASE shutdown
  BY <1>1, LeftOn DEF StaysOnOnlyIfMisencoded, shutdown
<1>2. CASE next_step \/ give_up \/ underflow \/ store
  BY <1>2 DEF InitInv, StaysOnOnlyIfMisencoded, next_step, give_up, underflow, store
<1>3. CASE UNCHANGED vars
  BY <1>3 DEF StaysOnOnlyIfMisencoded, vars
<1> QED BY <1>1, <1>2, <1>3 DEF Next

----------------------------------------------------------------------------
\* init is all or nothing: what it leaves for shutdown is the fallback or the
\* complete record, and the record exactly when every step succeeded.
THEOREM AllOrNothing == Spec => []FallbackOrFound
<1>1. InitInv => FallbackOrFound
  <2> SUFFICES ASSUME InitInv PROVE FallbackOrFound
    OBVIOUS
  <2>1. info \in {Fallback, Found} /\ info \in AcpiShutdown
    BY InfoType DEF InitInv
  <2>2. /\ info = Found /\ pc = "ready" => firmware.good = AllSteps
        /\ info = Fallback /\ pc = "ready" => firmware.good # AllSteps
    BY GoodSteps DEF InitInv
  <2> QED BY <2>1, <2>2, FoundIsNotFallback DEF FallbackOrFound, AllSteps
<1> QED BY <1>1, InitInit, NextInit, PTL DEF Spec

\* A write of shutdown that leaves the machine on is one of the two known
\* cases: no debug exit device behind the fallback, or an encoding that loses
\* what the tables say.
THEOREM PowersOffUnlessMisencoded == Spec => []StaysOnOnlyIfMisencoded
<1>1. Init => InitInv /\ StaysOnOnlyIfMisencoded
  BY InitInit DEF Init, StaysOnOnlyIfMisencoded
<1>2. /\ InitInv /\ StaysOnOnlyIfMisencoded /\ [Next]_vars
      => InitInv' /\ StaysOnOnlyIfMisencoded'
  BY NextInit, NextStaysOn
<1> QED BY <1>1, <1>2, PTL DEF Spec
=============================================================================
