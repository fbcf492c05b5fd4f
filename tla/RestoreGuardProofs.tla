------------------------ MODULE RestoreGuardProofs ------------------------
(***************************************************************************)
(* Proofs about RestoreGuard, for any datapoints, guards and number of     *)
(* captured baselines.                                                     *)
(***************************************************************************)
EXTENDS RestoreGuard, FiniteSetTheorems, TLAPS

Objects == [armed : BOOLEAN, baseline : Snapshots, of : 0..MaxCaptures]

\* NoGuard is an object without a baseline.
LEMMA NoGuardType ==
    /\ NoGuard \in Objects
    /\ NoGuard.armed = FALSE /\ NoGuard.baseline = Nothing /\ NoGuard.of = 0
    /\ Nothing \in Snapshots
<1>1. Nothing \in Snapshots
    BY DEF Nothing, Snapshots
<1>2. 0 \in 0..MaxCaptures
    BY GuardAssumption
<1>. QED
    BY <1>1, <1>2 DEF NoGuard, Objects

\* The number of a guard object is that of a baseline.
LEMMA ObjectOf ==
    ASSUME IInv, NEW g \in Guards, guard[g] # NoGuard
    PROVE  guard[g].of \in Baselines
    BY GuardAssumption DEF IInv, TypeOK, ObjectsCaptured, Baselines

-----------------------------------------------------------------------------
(* The end of a baseline: restore(), the destructor and dismiss().         *)

\* A guard that hands back its baseline, or that no longer owes it, is
\* disarmed or gone; every other guard keeps what it has.
LEMMA HandBack ==
    ASSUME IInv, NEW g \in Guards, guard[g] # NoGuard,
           NEW x \in {Disarmed(guard[g]), NoGuard},
           guard' = [guard EXCEPT ![g] = x],
           NEW told \in {"held", "writing", "dismissed", "failed", "applied", "rejected"},
           outcome' = [outcome EXCEPT ![guard[g].of] = told],
           guard[g].armed => told # "held",
           ~guard[g].armed => \/ told # "held" /\ outcome[guard[g].of] # "held"
                              \/ outcome[guard[g].of] = told,
           captured' = captured
    PROVE  /\ guard' \in [Guards -> Objects]
           /\ outcome' \in [Baselines -> {"none", "held", "writing", "dismissed",
                                          "applied", "rejected", "failed"}]
           /\ HeldIffArmed' /\ ArmedKeepsBaseline' /\ ObjectsCaptured'
<1>1. /\ guard \in [Guards -> Objects]
      /\ outcome \in [Baselines -> {"none", "held", "writing", "dismissed",
                                    "applied", "rejected", "failed"}]
      /\ guard[g].of \in Baselines
    BY ObjectOf DEF IInv, TypeOK, Objects
<1>2. /\ x \in Objects /\ x.armed = FALSE
      /\ x # NoGuard => /\ x.of = guard[g].of /\ x.baseline = guard[g].baseline
    BY <1>1, NoGuardType DEF Disarmed, Objects
<1>3. /\ guard' \in [Guards -> Objects]
      /\ guard'[g] = x /\ \A h \in Guards \ {g} : guard'[h] = guard[h]
    BY <1>1, <1>2
<1>4. /\ outcome' \in [Baselines -> {"none", "held", "writing", "dismissed",
                                     "applied", "rejected", "failed"}]
      /\ outcome'[guard[g].of] = told
      /\ \A b \in Baselines \ {guard[g].of} : outcome'[b] = outcome[b]
    BY <1>1
<1>5. HeldIffArmed'
    <2>1. ASSUME NEW b \in Baselines
          PROVE  outcome'[b] = "held" <=>
                    \E h \in Guards : guard'[h].armed /\ guard'[h].of = b
        <3>1. CASE b # guard[g].of
            BY <1>2, <1>3, <1>4, <3>1 DEF IInv, HeldIffArmed
        <3>2. CASE b = guard[g].of /\ guard[g].armed
            BY <1>2, <1>3, <1>4, <3>2 DEF IInv, HeldIffArmed
        <3>3. CASE b = guard[g].of /\ ~guard[g].armed
                   /\ told # "held" /\ outcome[b] # "held"
            BY <1>2, <1>3, <1>4, <3>3 DEF IInv, HeldIffArmed
        <3>4. CASE b = guard[g].of /\ ~guard[g].armed /\ outcome[b] = told
            BY <1>2, <1>3, <1>4, <3>4 DEF IInv, HeldIffArmed
        <3>. QED
            BY <3>1, <3>2, <3>3, <3>4
    <2>2. \A h, i \in Guards : guard'[h].armed /\ guard'[i].armed
                               /\ guard'[h].of = guard'[i].of => h = i
        BY <1>2, <1>3 DEF IInv, HeldIffArmed
    <2>. QED
        BY <2>1, <2>2 DEF HeldIffArmed
<1>6. ArmedKeepsBaseline'
    BY <1>2, <1>3 DEF IInv, ArmedKeepsBaseline
<1>7. ObjectsCaptured'
    BY <1>1, <1>2, <1>3, <1>4 DEF IInv, ObjectsCaptured
<1>. QED
    BY <1>3, <1>4, <1>5, <1>6, <1>7

\* restore() of a guard that is armed, or that the owner asks to restore
\* again: what it starts to write is a baseline that no armed guard holds.
LEMMA RestoreStarts ==
    ASSUME IInv, NEW g \in Guards, guard[g] # NoGuard, NEW asked \in BOOLEAN,
           asked \/ guard[g].armed, StartRestore(g, asked),
           NEW x \in {Disarmed(guard[g]), NoGuard},
           guard' = [guard EXCEPT ![g] = x], captured' = captured
    PROVE  /\ guard' \in [Guards -> Objects]
           /\ outcome' \in [Baselines -> {"none", "held", "writing", "dismissed",
                                          "applied", "rejected", "failed"}]
           /\ pending' \in 0..MaxCaptures
           /\ pending' # 0 => outcome'[pending'] = "writing"
           /\ HeldIffArmed' /\ ArmedKeepsBaseline' /\ ObjectsCaptured'
<1>1. /\ guard[g].of \in Baselines /\ guard[g].of # 0
      /\ outcome[guard[g].of] \in {"held", "writing", "dismissed",
                                   "applied", "rejected", "failed"}
    BY ObjectOf DEF IInv, TypeOK, ObjectsCaptured
<1>2. guard[g].armed => outcome[guard[g].of] = "held"
    BY <1>1 DEF IInv, HeldIffArmed
<1>. DEFINE empty == guard[g].baseline = Nothing
            told  == IF empty THEN IF guard[g].armed THEN "failed"
                                   ELSE outcome[guard[g].of]
                     ELSE "writing"
<1>3. /\ pending' = IF empty THEN 0 ELSE guard[g].of
      /\ outcome' = [outcome EXCEPT ![guard[g].of] = told]
    BY <1>1, <1>2 DEF StartRestore, IInv, TypeOK
<1>4. /\ told \in {"held", "writing", "dismissed", "failed", "applied", "rejected"}
      /\ guard[g].armed => told # "held"
      /\ ~guard[g].armed => \/ told # "held" /\ outcome[guard[g].of] # "held"
                            \/ outcome[guard[g].of] = told
    BY <1>1, <1>2 DEF IInv, ObjectsCaptured
<1>5. pending' # 0 => told = "writing" /\ pending' = guard[g].of
    BY <1>3
<1>6. pending' \in 0..MaxCaptures
    BY <1>1, <1>3, GuardAssumption DEF Baselines
<1>. HIDE DEF told
<1>. QED
    BY <1>1, <1>3, <1>4, <1>5, <1>6, HandBack DEF IInv, TypeOK

-----------------------------------------------------------------------------
(* The moves.                                                              *)

\* A guard that is moved into one that owes nothing takes the baseline and
\* the duty along, and leaves neither behind.
LEMMA MoveKeeps ==
    ASSUME IInv, NEW g \in Guards, NEW h \in Guards, g # h,
           guard[g] # NoGuard, ~guard[h].armed, guard' = Moved(g, h),
           UNCHANGED <<captured, outcome>>
    PROVE  /\ guard' \in [Guards -> Objects]
           /\ HeldIffArmed' /\ ArmedKeepsBaseline' /\ ObjectsCaptured'
<1>1. guard \in [Guards -> Objects]
    BY DEF IInv, TypeOK, Objects
<1>2. PICK x : x = MovedFrom(guard[g])
    OBVIOUS
<1>3. /\ x \in Objects /\ x.armed = FALSE /\ x.baseline = Nothing
      /\ x.of = guard[g].of
    BY <1>1, <1>2, NoGuardType DEF MovedFrom, Objects
<1>4. /\ guard' \in [Guards -> Objects]
      /\ guard'[h] = guard[g] /\ guard'[g] = x
      /\ \A i \in Guards \ {g, h} : guard'[i] = guard[i]
    BY <1>1, <1>2, <1>3 DEF Moved, MovedTo
<1>5. HeldIffArmed'
    BY <1>3, <1>4 DEF IInv, HeldIffArmed
<1>6. ArmedKeepsBaseline'
    BY <1>3, <1>4 DEF IInv, ArmedKeepsBaseline
<1>7. ObjectsCaptured'
    BY <1>3, <1>4 DEF IInv, ObjectsCaptured
<1>. QED
    BY <1>4, <1>5, <1>6, <1>7

-----------------------------------------------------------------------------
(* The inductive step.                                                     *)

LEMMA InitInv == Init => IInv
<1>. SUFFICES ASSUME Init PROVE IInv
    OBVIOUS
<1>1. TypeOK
    BY NoGuardType, GuardAssumption DEF Init, TypeOK, Objects, None
<1>2. HeldIffArmed /\ ArmedKeepsBaseline /\ ObjectsCaptured /\ CallsSound
    BY NoGuardType DEF Init, HeldIffArmed, ArmedKeepsBaseline, ObjectsCaptured,
                       CallsSound, None
<1>. QED
    BY <1>1, <1>2 DEF IInv

\* The read of capture() has succeeded: the guard it returns is armed with a
\* baseline nobody holds.
LEMMA CapturedKeepsInv ==
    ASSUME IInv, NEW b \in Baselines, NEW known \in SUBSET Names, Captured(b, known)
    PROVE  IInv'
<1>1. PICK call \in taking :
        LET baseline == [n \in Names |-> IF n \in known THEN device[n] ELSE Absent]
        IN  /\ captured' = [captured EXCEPT ![b] = baseline]
            /\ guard' = [guard EXCEPT ![call.into] =
                            [armed |-> TRUE, baseline |-> baseline, of |-> b]]
    BY DEF Captured
<1>2. PICK baseline : baseline = [n \in Names |-> IF n \in known THEN device[n]
                                                 ELSE Absent]
    OBVIOUS
<1>3. baseline \in Snapshots
    BY <1>2 DEF Snapshots, IInv, TypeOK
<1>4. PICK g \in Guards : g = call.into
    BY DEF IInv, TypeOK
<1>5. PICK x : x = [armed |-> TRUE, baseline |-> baseline, of |-> b]
    OBVIOUS
<1>6. /\ x \in Objects /\ x.armed = TRUE /\ x.baseline = baseline /\ x.of = b
      /\ b # 0
    BY <1>3, <1>5, GuardAssumption DEF Objects, Baselines
<1>7. /\ captured' = [captured EXCEPT ![b] = baseline]
      /\ guard' = [guard EXCEPT ![g] = x]
      /\ outcome' = [outcome EXCEPT ![b] = "held"]
      /\ outcome[b] = "none"
      /\ taking' = {} /\ UNCHANGED <<device, assigning, pending>>
    BY <1>1, <1>2, <1>4, <1>5 DEF Captured, Fresh, None
<1>8. guard[g] = NoGuard /\ pending = 0 /\ assigning = {}
    BY <1>4 DEF IInv, CallsSound, None
<1>9. /\ guard \in [Guards -> Objects] /\ captured \in [Baselines -> Snapshots]
      /\ outcome \in [Baselines -> {"none", "held", "writing", "dismissed",
                                    "applied", "rejected", "failed"}]
    BY DEF IInv, TypeOK, Objects
<1>10. /\ guard'[g] = x /\ \A h \in Guards \ {g} : guard'[h] = guard[h]
       /\ captured'[b] = baseline
       /\ \A c \in Baselines \ {b} : captured'[c] = captured[c] /\ outcome'[c] = outcome[c]
       /\ outcome'[b] = "held"
    BY <1>7, <1>9
<1>11. TypeOK'
    BY <1>3, <1>6, <1>7, <1>9 DEF IInv, TypeOK, Objects
<1>12. \A h \in Guards : guard[h] # NoGuard => guard[h].of \in Baselines \ {b}
    BY <1>7, ObjectOf DEF IInv, ObjectsCaptured
<1>13. \A h \in Guards \ {g} : guard'[h].armed => guard'[h].of \in Baselines \ {b}
    BY <1>10, <1>12, NoGuardType
<1>14. HeldIffArmed'
    <2>1. ASSUME NEW c \in Baselines
          PROVE  outcome'[c] = "held" <=>
                    \E h \in Guards : guard'[h].armed /\ guard'[h].of = c
        <3>1. CASE c = b
            BY <1>6, <1>10, <3>1
        <3>2. CASE c # b
            <4>1. ~guard[g].armed /\ guard'[g].of # c
                BY <1>6, <1>8, <1>10, <3>2, NoGuardType
            <4>. QED
                BY <1>10, <3>2, <4>1 DEF IInv, HeldIffArmed
        <3>. QED
            BY <3>1, <3>2
    <2>2. \A h, i \in Guards : guard'[h].armed /\ guard'[i].armed
                               /\ guard'[h].of = guard'[i].of => h = i
        BY <1>6, <1>10, <1>13 DEF IInv, HeldIffArmed
    <2>. QED
        BY <2>1, <2>2 DEF HeldIffArmed
<1>15. ArmedKeepsBaseline'
    BY <1>6, <1>10, <1>13 DEF IInv, ArmedKeepsBaseline
<1>16. ObjectsCaptured'
    BY <1>6, <1>10, <1>12 DEF IInv, ObjectsCaptured
<1>17. CallsSound'
    BY <1>7, <1>8 DEF CallsSound, None
<1>. QED
    BY <1>11, <1>14, <1>15, <1>16, <1>17 DEF IInv

LEMMA RestoreKeepsInv ==
    ASSUME IInv, NEW g \in Guards, Restore(g)
    PROVE  IInv'
<1>1. /\ guard[g] # NoGuard /\ StartRestore(g, TRUE)
      /\ taking = {} /\ assigning = {}
      /\ guard' = [guard EXCEPT ![g] = Disarmed(guard[g])]
      /\ UNCHANGED <<device, taking, assigning, captured>>
    BY DEF Restore, Free, None, IInv, TypeOK
<1>2. /\ guard' \in [Guards -> Objects]
      /\ outcome' \in [Baselines -> {"none", "held", "writing", "dismissed",
                                     "applied", "rejected", "failed"}]
      /\ pending' \in 0..MaxCaptures
      /\ pending' # 0 => outcome'[pending'] = "writing"
      /\ HeldIffArmed' /\ ArmedKeepsBaseline' /\ ObjectsCaptured'
    BY <1>1, RestoreStarts
<1>3. TypeOK'
    BY <1>1, <1>2 DEF IInv, TypeOK, Objects
<1>4. CallsSound'
    BY <1>1, <1>2 DEF CallsSound, None
<1>. QED
    BY <1>2, <1>3, <1>4 DEF IInv

LEMMA DestroyKeepsInv ==
    ASSUME IInv, NEW g \in Guards, Destroy(g)
    PROVE  IInv'
<1>1. /\ guard[g] # NoGuard
      /\ taking = {} /\ assigning = {} /\ pending = 0
      /\ guard' = [guard EXCEPT ![g] = NoGuard]
      /\ UNCHANGED <<device, taking, assigning, captured>>
    BY DEF Destroy, Free, None
<1>2. CASE guard[g].armed /\ StartRestore(g, FALSE)
    <2>1. /\ guard' \in [Guards -> Objects]
          /\ outcome' \in [Baselines -> {"none", "held", "writing", "dismissed",
                                         "applied", "rejected", "failed"}]
          /\ pending' \in 0..MaxCaptures
          /\ pending' # 0 => outcome'[pending'] = "writing"
          /\ HeldIffArmed' /\ ArmedKeepsBaseline' /\ ObjectsCaptured'
        BY <1>1, <1>2, RestoreStarts
    <2>2. TypeOK'
        BY <1>1, <2>1 DEF IInv, TypeOK, Objects
    <2>3. CallsSound'
        BY <1>1, <2>1 DEF CallsSound, None
    <2>. QED
        BY <2>1, <2>2, <2>3 DEF IInv
<1>3. CASE ~guard[g].armed /\ UNCHANGED <<pending, outcome>>
    <2>1. /\ guard[g].of \in Baselines
          /\ outcome[guard[g].of] \in {"held", "writing", "dismissed",
                                       "applied", "rejected", "failed"}
        BY <1>1, ObjectOf DEF IInv, TypeOK, ObjectsCaptured
    <2>2. outcome' = [outcome EXCEPT ![guard[g].of] = outcome[guard[g].of]]
        BY <1>3, <2>1 DEF IInv, TypeOK
    <2>3. /\ guard' \in [Guards -> Objects]
          /\ HeldIffArmed' /\ ArmedKeepsBaseline' /\ ObjectsCaptured'
        BY <1>1, <1>3, <2>1, <2>2, HandBack
    <2>4. TypeOK'
        BY <1>1, <1>3, <2>3 DEF IInv, TypeOK, Objects
    <2>5. CallsSound'
        BY <1>1, <1>3 DEF CallsSound, None
    <2>. QED
        BY <2>3, <2>4, <2>5 DEF IInv
<1>. QED
    BY <1>2, <1>3 DEF Destroy

LEMMA DismissKeepsInv ==
    ASSUME IInv, NEW g \in Guards, Dismiss(g)
    PROVE  IInv'
<1>1. /\ guard[g].armed
      /\ taking = {} /\ assigning = {} /\ pending = 0
      /\ guard' = [guard EXCEPT ![g] = Disarmed(guard[g])]
      /\ outcome' = [outcome EXCEPT ![guard[g].of] = "dismissed"]
      /\ UNCHANGED <<device, taking, assigning, pending, captured>>
    BY DEF Dismiss, Free, None, IInv, TypeOK
<1>2. guard[g] # NoGuard
    BY <1>1, NoGuardType
<1>3. /\ guard' \in [Guards -> Objects]
      /\ outcome' \in [Baselines -> {"none", "held", "writing", "dismissed",
                                     "applied", "rejected", "failed"}]
      /\ HeldIffArmed' /\ ArmedKeepsBaseline' /\ ObjectsCaptured'
    BY <1>1, <1>2, HandBack
<1>4. TypeOK'
    BY <1>1, <1>3 DEF IInv, TypeOK, Objects
<1>5. CallsSound'
    BY <1>1 DEF CallsSound, None
<1>. QED
    BY <1>3, <1>4, <1>5 DEF IInv

LEMMA MoveConstructKeepsInv ==
    ASSUME IInv, NEW g \in Guards, NEW h \in Guards, MoveConstruct(g, h)
    PROVE  IInv'
<1>1. /\ guard[g] # NoGuard /\ guard[h] = NoGuard /\ guard' = Moved(g, h)
      /\ taking = {} /\ assigning = {} /\ pending = 0
      /\ UNCHANGED <<device, taking, assigning, pending, captured, outcome>>
    BY DEF MoveConstruct, Free, None
<1>2. g # h /\ ~guard[h].armed
    BY <1>1, NoGuardType
<1>3. /\ guard' \in [Guards -> Objects]
      /\ HeldIffArmed' /\ ArmedKeepsBaseline' /\ ObjectsCaptured'
    BY <1>1, <1>2, MoveKeeps
<1>4. TypeOK'
    BY <1>1, <1>3 DEF IInv, TypeOK, Objects
<1>5. CallsSound'
    BY <1>1 DEF CallsSound, None
<1>. QED
    BY <1>3, <1>4, <1>5 DEF IInv

LEMMA MoveAssignKeepsInv ==
    ASSUME IInv, NEW g \in Guards, NEW h \in Guards, MoveAssign(g, h)
    PROVE  IInv'
<1>1. /\ g # h /\ guard[g] # NoGuard /\ guard[h] # NoGuard
      /\ taking = {} /\ assigning = {} /\ pending = 0
      /\ UNCHANGED <<device, taking, captured>>
    BY DEF MoveAssign, Free, None
<1>2. CASE /\ FirstRestores(h) /\ StartRestore(h, FALSE)
           /\ guard' = [guard EXCEPT ![h] = Disarmed(@)]
           /\ assigning' = {[from |-> g, to |-> h]}
    <2>1. guard[h].armed /\ guard' = [guard EXCEPT ![h] = Disarmed(guard[h])]
        BY <1>2 DEF FirstRestores, IInv, TypeOK
    <2>2. /\ guard' \in [Guards -> Objects]
          /\ outcome' \in [Baselines -> {"none", "held", "writing", "dismissed",
                                         "applied", "rejected", "failed"}]
          /\ pending' \in 0..MaxCaptures
          /\ pending' # 0 => outcome'[pending'] = "writing"
          /\ HeldIffArmed' /\ ArmedKeepsBaseline' /\ ObjectsCaptured'
        BY <1>1, <1>2, <2>1, RestoreStarts
    <2>3. TypeOK'
        BY <1>1, <1>2, <2>2 DEF IInv, TypeOK, Objects
    <2>4. guard'[g] = guard[g] /\ guard'[h] = Disarmed(guard[h])
        BY <1>1, <2>1 DEF IInv, TypeOK
    <2>5. Disarmed(guard[h]).armed = FALSE /\ Disarmed(guard[h]).of = guard[h].of
        BY DEF Disarmed, IInv, TypeOK
    <2>6. Disarmed(guard[h]) # NoGuard
        BY <1>1, <2>5, NoGuardType DEF IInv, ObjectsCaptured
    <2>7. CallsSound'
        BY <1>1, <1>2, <2>2, <2>4, <2>5, <2>6 DEF CallsSound, None
    <2>. QED
        BY <2>2, <2>3, <2>7 DEF IInv
<1>3. CASE /\ ~FirstRestores(h) /\ guard' = Moved(g, h)
           /\ UNCHANGED <<assigning, pending, outcome>>
    <2>1. /\ guard' \in [Guards -> Objects]
          /\ HeldIffArmed' /\ ArmedKeepsBaseline' /\ ObjectsCaptured'
        BY <1>1, <1>3, MoveKeeps DEF FirstRestores
    <2>2. TypeOK'
        BY <1>1, <1>3, <2>1 DEF IInv, TypeOK, Objects
    <2>3. CallsSound'
        BY <1>1, <1>3 DEF CallsSound, None
    <2>. QED
        BY <2>1, <2>2, <2>3 DEF IInv
<1>. QED
    BY <1>2, <1>3 DEF MoveAssign

LEMMA TakeOverKeepsInv ==
    ASSUME IInv, TakeOver
    PROVE  IInv'
<1>1. PICK a \in assigning : guard' = Moved(a.from, a.to)
    BY DEF TakeOver
<1>2. /\ a.from \in Guards /\ a.to \in Guards /\ a.from # a.to
      /\ guard[a.from] # NoGuard /\ ~guard[a.to].armed
    BY DEF IInv, TypeOK, CallsSound
<1>3. /\ assigning' = {} /\ pending = 0 /\ taking = {}
      /\ UNCHANGED <<device, taking, pending, captured, outcome>>
    BY DEF TakeOver, None, IInv, CallsSound
<1>4. /\ guard' \in [Guards -> Objects]
      /\ HeldIffArmed' /\ ArmedKeepsBaseline' /\ ObjectsCaptured'
    BY <1>1, <1>2, <1>3, MoveKeeps
<1>5. TypeOK'
    BY <1>3, <1>4 DEF IInv, TypeOK, Objects
<1>6. CallsSound'
    BY <1>3 DEF CallsSound, None
<1>. QED
    BY <1>4, <1>5, <1>6 DEF IInv

\* The answer to the write ends a baseline that no armed guard holds.
LEMMA WriteReturnsKeepsInv ==
    ASSUME IInv, NEW told \in {"applied", "rejected", "failed"},
           NEW applied \in BOOLEAN, WriteReturns(told, applied)
    PROVE  IInv'
<1>1. /\ pending \in Baselines /\ pending # 0 /\ pending' = 0
      /\ outcome' = [outcome EXCEPT ![pending] = told]
      /\ outcome[pending] = "writing"
      /\ UNCHANGED <<guard, taking, assigning, captured>>
    BY GuardAssumption DEF WriteReturns, IInv, TypeOK, CallsSound, Baselines
<1>2. /\ outcome' \in [Baselines -> {"none", "held", "writing", "dismissed",
                                     "applied", "rejected", "failed"}]
      /\ outcome'[pending] = told
      /\ \A b \in Baselines \ {pending} : outcome'[b] = outcome[b]
    BY <1>1 DEF IInv, TypeOK
<1>3. device' \in [Names -> Values]
    <2>1. CASE ~applied
        BY <2>1 DEF WriteReturns, IInv, TypeOK
    <2>2. CASE applied
        <3>1. \A n \in Names : n \in EntriesOf(captured[pending]) =>
                  captured[pending][n] \in Values
            BY <1>1 DEF EntriesOf, Snapshots, IInv, TypeOK
        <3>. QED
            BY <2>2, <3>1 DEF WriteReturns, IInv, TypeOK
    <2>. QED
        BY <2>1, <2>2
<1>4. TypeOK'
    BY <1>1, <1>2, <1>3, GuardAssumption DEF IInv, TypeOK
<1>5. HeldIffArmed'
    <2>1. \A b \in Baselines : outcome'[b] = "held" <=> outcome[b] = "held"
        BY <1>1, <1>2
    <2>. QED
        BY <1>1, <2>1 DEF IInv, HeldIffArmed
<1>6. ArmedKeepsBaseline'
    BY <1>1 DEF IInv, ArmedKeepsBaseline
<1>7. ObjectsCaptured'
    BY <1>1, <1>2, ObjectOf DEF IInv, ObjectsCaptured
<1>8. CallsSound'
    BY <1>1 DEF IInv, CallsSound
<1>. QED
    BY <1>4, <1>5, <1>6, <1>7, <1>8 DEF IInv

LEMMA NextInv == IInv /\ [Next]_vars => IInv'
<1>. SUFFICES ASSUME IInv, [Next]_vars PROVE IInv'
    OBVIOUS
<1>1. ASSUME NEW n \in Names, NEW v \in Values, TestWrite(n, v)
      PROVE  IInv'
    <2>1. TypeOK'
        BY <1>1 DEF TestWrite, IInv, TypeOK
    <2>2. HeldIffArmed' /\ ArmedKeepsBaseline' /\ ObjectsCaptured' /\ CallsSound'
        BY <1>1 DEF TestWrite, IInv, HeldIffArmed, ArmedKeepsBaseline,
                    ObjectsCaptured, CallsSound
    <2>. QED
        BY <2>1, <2>2 DEF IInv
<1>2. ASSUME NEW g \in Guards, NEW names \in SUBSET Names, Capture(g, names)
      PROVE  IInv'
    <2>1. TypeOK'
        BY <1>2 DEF Capture, IInv, TypeOK
    <2>2. CallsSound'
        BY <1>2 DEF Capture, Free, None, CallsSound
    <2>3. HeldIffArmed' /\ ArmedKeepsBaseline' /\ ObjectsCaptured'
        BY <1>2 DEF Capture, IInv, HeldIffArmed, ArmedKeepsBaseline, ObjectsCaptured
    <2>. QED
        BY <2>1, <2>2, <2>3 DEF IInv
<1>3. CASE CaptureFails
    <2>1. TypeOK'
        BY <1>3 DEF CaptureFails, IInv, TypeOK, None
    <2>2. HeldIffArmed' /\ ArmedKeepsBaseline' /\ ObjectsCaptured' /\ CallsSound'
        BY <1>3 DEF CaptureFails, IInv, HeldIffArmed, ArmedKeepsBaseline,
                    ObjectsCaptured, CallsSound, None
    <2>. QED
        BY <2>1, <2>2 DEF IInv
<1>4. CASE UNCHANGED vars
    <2>1. TypeOK'
        BY <1>4 DEF vars, IInv, TypeOK
    <2>2. HeldIffArmed' /\ ArmedKeepsBaseline' /\ ObjectsCaptured' /\ CallsSound'
        BY <1>4 DEF vars, IInv, HeldIffArmed, ArmedKeepsBaseline,
                    ObjectsCaptured, CallsSound
    <2>. QED
        BY <2>1, <2>2 DEF IInv
<1>. QED
    BY <1>1, <1>2, <1>3, <1>4, CapturedKeepsInv, RestoreKeepsInv, DestroyKeepsInv,
       DismissKeepsInv, MoveConstructKeepsInv, MoveAssignKeepsInv,
       WriteReturnsKeepsInv, TakeOverKeepsInv DEF Next

\* The inductive invariant holds in every reachable state.
THEOREM Invariance == Spec => []IInv
    BY InitInv, NextInv, PTL DEF Spec

\* A captured baseline is armed in exactly one guard, unaltered, until it is
\* handed back to the device or dismissed, and in none afterwards, through
\* any sequence of moves, restores, dismissals, destructions and failed
\* writes (restore_guard.cpp).
THEOREM BaselineAlwaysSafe == Spec => []BaselineSafe
<1>1. IInv => EachBaselineOnce
    <2>. SUFFICES ASSUME IInv, NEW b \in Baselines
                  PROVE  Cardinality({g \in Guards : guard[g].armed /\ guard[g].of = b})
                            = IF outcome[b] = "held" THEN 1 ELSE 0
        BY DEF EachBaselineOnce
    <2>. DEFINE holders == {g \in Guards : guard[g].armed /\ guard[g].of = b}
    <2>1. CASE outcome[b] = "held"
        <3>1. PICK g \in Guards : guard[g].armed /\ guard[g].of = b
            BY <2>1 DEF IInv, HeldIffArmed
        <3>2. holders = {g}
            BY <3>1 DEF IInv, HeldIffArmed
        <3>. QED
            BY <2>1, <3>2, FS_Singleton
    <2>2. CASE outcome[b] # "held"
        <3>1. holders = {}
            BY <2>2 DEF IInv, HeldIffArmed
        <3>. QED
            BY <2>2, <3>1, FS_EmptySet
    <2>. QED
        BY <2>1, <2>2
<1>2. IInv => BaselineSafe
    BY <1>1 DEF IInv, BaselineSafe
<1>. QED
    BY <1>2, Invariance, PTL
=============================================================================
