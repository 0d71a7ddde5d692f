---------------------------- MODULE ClaimsProofs ----------------------------
(***************************************************************************)
(* Proofs about Claims: no answer counts a claim that its own expiry ended *)
(* or would have ended, what a survey serves, and where hypotheses without *)
(* a claim come from, for any number of requests, agents and atoms, any    *)
(* times to live and any failures.                                         *)
(***************************************************************************)
EXTENDS Claims, FiniteSetTheorems, SequenceTheorems, TLAPS

Early == {"unsent", "verified", "fresh", "published", "checked"}

ClockOK == /\ now \in Int /\ swept \in Int /\ swept <= now
           /\ at \in [Request -> Step]

TableOK == /\ row \in [Request -> {"none", "active", "ended"}]
           /\ until \in [Request -> Int] /\ born \in [Request -> Int]

\* What an expiry leaves active is not past it, or was inserted since.
RowsOK ==
    \A c \in Request :
        /\ at[c] \in Early => row[c] = "none"
        /\ row[c] = "active" => until[c] >= swept \/ born[c] >= swept

CutoffOK == /\ cutoff \in [Request -> Int]
            /\ \A r \in Request : cutoff[r] <= swept

\* What was counted was active; a row that is there keeps its times.
CountOK ==
    /\ counted \in [Request -> SUBSET Request]
    /\ \A r \in Request :
        /\ at[r] \in {"unsent", "verified", "fresh"} => counted[r] = {}
        /\ \A c \in counted[r] :
            /\ row[c] # "none"
            /\ until[c] >= cutoff[r] \/ born[c] >= cutoff[r]

FreshOK == ClockOK /\ TableOK /\ RowsOK /\ CutoffOK /\ CountOK

LEMMA FreshInit == ASSUME Init PROVE FreshOK
BY DEF Init, FreshOK, ClockOK, TableOK, RowsOK, CutoffOK, CountOK, Step

\* A step that only moves a request on, or draws for a survey.
LEMMA Moved ==
    ASSUME FreshOK, NEW r \in Request, NEW t \in Step, Goto(r, t),
           t \in Early => at[r] \in Early,
           t \in {"unsent", "verified", "fresh"} => at[r] \in {"unsent", "verified", "fresh"},
           UNCHANGED <<now, swept, row, until, born, cutoff, counted>>
    PROVE  FreshOK'
<1>1. at \in [Request -> Step] /\ at' = [at EXCEPT ![r] = t]
    BY DEF FreshOK, ClockOK, Goto
<1>2. at' \in [Request -> Step] /\ at'[r] = t /\ \A c \in Request \ {r} : at'[c] = at[c]
    BY <1>1
<1>3. ClockOK' /\ TableOK' /\ CutoffOK'
    BY <1>2 DEF FreshOK, ClockOK, TableOK, CutoffOK
<1>4. RowsOK'
    BY <1>2 DEF FreshOK, RowsOK
<1>5. CountOK'
    BY <1>2 DEF FreshOK, CountOK
<1> QED
    BY <1>3, <1>4, <1>5 DEF FreshOK

\* A step that reads active claims.
LEMMA Counted ==
    ASSUME FreshOK, NEW r \in Request, NEW t \in Step, NEW S \in SUBSET Active, Goto(r, t),
           t \in Early => at[r] \in Early, t \notin {"unsent", "verified", "fresh"},
           counted' = [counted EXCEPT ![r] = S],
           UNCHANGED <<now, swept, row, until, born, cutoff>>
    PROVE  FreshOK'
<1>1. at \in [Request -> Step] /\ at' = [at EXCEPT ![r] = t]
    BY DEF FreshOK, ClockOK, Goto
<1>2. at' \in [Request -> Step] /\ at'[r] = t /\ \A c \in Request \ {r} : at'[c] = at[c]
    BY <1>1
<1>3. /\ counted' \in [Request -> SUBSET Request]
      /\ counted'[r] = S /\ \A c \in Request \ {r} : counted'[c] = counted[c]
    BY DEF FreshOK, CountOK, Active
<1>4. ClockOK' /\ TableOK' /\ CutoffOK'
    BY <1>2 DEF FreshOK, ClockOK, TableOK, CutoffOK
<1>5. RowsOK'
    BY <1>2 DEF FreshOK, RowsOK
<1>6. ASSUME NEW c \in S
      PROVE  row[c] # "none" /\ (until[c] >= cutoff[r] \/ born[c] >= cutoff[r])
    <2>1. c \in Request /\ row[c] = "active"
        BY DEF Active
    <2>2. /\ until[c] >= swept \/ born[c] >= swept
          /\ cutoff[r] <= swept
        BY <2>1 DEF FreshOK, RowsOK, CutoffOK
    <2>3. until[c] \in Int /\ born[c] \in Int /\ cutoff[r] \in Int /\ swept \in Int
        BY <2>1 DEF FreshOK, ClockOK, TableOK, CutoffOK
    <2> QED
        BY <2>1, <2>2, <2>3
<1>7. CountOK'
    <2>1. ASSUME NEW q \in Request, q # r
          PROVE  /\ at'[q] \in {"unsent", "verified", "fresh"} => counted'[q] = {}
                 /\ \A c \in counted'[q] :
                     row'[c] # "none" /\ (until'[c] >= cutoff'[q] \/ born'[c] >= cutoff'[q])
        BY <1>2, <1>3, <2>1 DEF FreshOK, CountOK
    <2>2. \A c \in counted'[r] :
            row'[c] # "none" /\ (until'[c] >= cutoff'[r] \/ born'[c] >= cutoff'[r])
        BY <1>3, <1>6
    <2> QED
        BY <1>2, <1>3, <2>1, <2>2 DEF CountOK
<1> QED
    BY <1>4, <1>5, <1>7 DEF FreshOK

\* An expiry ends what is past it; nothing counted loses its row.
LEMMA Expired ==
    ASSUME FreshOK, Expire, UNCHANGED <<now, until, born, counted>>,
           at' \in [Request -> Step],
           \A c \in Request : at'[c] \in Early => at[c] \in Early,
           \A c \in Request : at'[c] \in {"unsent", "verified", "fresh"} =>
               at[c] \in {"unsent", "verified", "fresh"},
           cutoff' \in [Request -> Int],
           \A r \in Request : cutoff'[r] = cutoff[r] \/ (cutoff'[r] = now /\ counted[r] = {})
    PROVE  FreshOK'
<1>1. /\ \A c \in Request : row'[c] = IF Stale(c) THEN "ended" ELSE row[c]
      /\ DOMAIN row' = Request /\ swept' = now
    BY DEF Expire
<1>2. now \in Int /\ swept \in Int /\ swept <= now
    BY DEF FreshOK, ClockOK
<1>3. ClockOK'
    BY <1>1, <1>2 DEF ClockOK
<1>4. row' \in [Request -> {"none", "active", "ended"}]
    BY DEF FreshOK, TableOK, Expire
<1>5. TableOK'
    BY <1>4 DEF FreshOK, TableOK
<1>6. RowsOK'
    <2>1. ASSUME NEW c \in Request, at'[c] \in Early PROVE row'[c] = "none"
        BY <1>1, <2>1 DEF FreshOK, RowsOK, Stale
    <2>2. ASSUME NEW c \in Request, row'[c] = "active" PROVE until[c] >= now
        <3>1. row[c] = "active" /\ ~(until[c] < now)
            BY <1>1, <2>2 DEF Stale
        <3>2. until[c] \in Int
            BY DEF FreshOK, TableOK
        <3> QED
            BY <1>2, <3>1, <3>2
    <2> QED
        BY <1>1, <2>1, <2>2 DEF RowsOK
<1>7. CutoffOK'
    <2>1. ASSUME NEW r \in Request PROVE cutoff'[r] <= now
        BY <1>2, <2>1 DEF FreshOK, CutoffOK
    <2> QED
        BY <1>1, <2>1 DEF CutoffOK
<1>8. CountOK'
    <2>1. ASSUME NEW r \in Request, NEW c \in counted[r]
          PROVE  row'[c] # "none" /\ (until[c] >= cutoff'[r] \/ born[c] >= cutoff'[r])
        <3>1. cutoff'[r] = cutoff[r]
            BY <2>1
        <3>2. c \in Request /\ row[c] # "none"
              /\ (until[c] >= cutoff[r] \/ born[c] >= cutoff[r])
            BY DEF FreshOK, CountOK
        <3> QED
            BY <1>1, <3>1, <3>2
    <2> QED
        BY <2>1 DEF FreshOK, CountOK
<1> QED
    BY <1>3, <1>5, <1>6, <1>7, <1>8 DEF FreshOK

\* A claim's row is inserted, or its time set, while it has none.
LEMMA Written ==
    ASSUME FreshOK, NEW r \in Request, NEW t \in Step, Goto(r, t), at[r] \in Early,
           t \notin {"unsent", "verified", "fresh"},
           row' \in [Request -> {"none", "active", "ended"}],
           until' \in [Request -> Int], born' \in [Request -> Int],
           \A c \in Request \ {r} :
               row'[c] = row[c] /\ until'[c] = until[c] /\ born'[c] = born[c],
           \/ row'[r] = row[r]
           \/ row'[r] = "active" /\ t \notin Early /\ born'[r] = now,
           UNCHANGED <<now, swept, cutoff, counted>>
    PROVE  FreshOK'
<1>1. at \in [Request -> Step] /\ at' = [at EXCEPT ![r] = t] /\ row[r] = "none"
    BY DEF FreshOK, ClockOK, RowsOK, Goto
<1>2. at' \in [Request -> Step] /\ at'[r] = t /\ \A c \in Request \ {r} : at'[c] = at[c]
    BY <1>1
<1>3. now \in Int /\ swept \in Int /\ swept <= now
    BY DEF FreshOK, ClockOK
<1>4. ClockOK' /\ TableOK' /\ CutoffOK'
    BY <1>2 DEF FreshOK, ClockOK, TableOK, CutoffOK
<1>5. RowsOK'
    <2>1. ASSUME NEW c \in Request \ {r}
          PROVE  /\ at'[c] \in Early => row'[c] = "none"
                 /\ row'[c] = "active" => until'[c] >= swept' \/ born'[c] >= swept'
        BY <1>2 DEF FreshOK, RowsOK
    <2>2. at'[r] \in Early => row'[r] = "none"
        BY <1>1, <1>2
    <2>3. row'[r] = "active" => born'[r] >= swept'
        BY <1>1, <1>3
    <2> QED
        BY <2>1, <2>2, <2>3 DEF RowsOK
<1>6. CountOK'
    <2>1. ASSUME NEW q \in Request, NEW c \in counted[q]
          PROVE  row'[c] # "none" /\ (until'[c] >= cutoff[q] \/ born'[c] >= cutoff[q])
        <3>1. c \in Request \ {r} /\ row[c] # "none"
              /\ (until[c] >= cutoff[q] \/ born[c] >= cutoff[q])
            BY <1>1 DEF FreshOK, CountOK
        <3> QED
            BY <3>1
    <2>2. ASSUME NEW q \in Request, at'[q] \in {"unsent", "verified", "fresh"}
          PROVE  counted[q] = {}
        BY <1>2, <2>2 DEF FreshOK, CountOK
    <2> QED
        BY <2>1, <2>2 DEF FreshOK, CountOK
<1> QED
    BY <1>4, <1>5, <1>6 DEF FreshOK

LEMMA HandledFresh == ASSUME FreshOK, NEW r \in Request, Handle(r) PROVE FreshOK'
<1>1. CASE ExpireFirst(r)
    <2>1. Expire /\ at' = [at EXCEPT ![r] = "fresh"] /\ cutoff' = [cutoff EXCEPT ![r] = now]
          /\ UNCHANGED <<now, until, born, counted>> /\ at[r] \in {"verified", "unsent"}
        BY <1>1 DEF ExpireFirst, Goto
    <2>2. at \in [Request -> Step] /\ cutoff \in [Request -> Int] /\ now \in Int
          /\ counted[r] = {}
        BY <2>1 DEF FreshOK, ClockOK, CutoffOK, CountOK
    <2>3. at' \in [Request -> Step] /\ at'[r] = "fresh"
          /\ \A c \in Request \ {r} : at'[c] = at[c]
        BY <2>1, <2>2 DEF Step
    <2>4. cutoff' \in [Request -> Int] /\ cutoff'[r] = now
          /\ \A c \in Request \ {r} : cutoff'[c] = cutoff[c]
        BY <2>1, <2>2
    <2> QED
        BY <2>1, <2>2, <2>3, <2>4, Expired DEF Early
<1>2. CASE Verify(r)
    <2>1. /\ at[r] = "unsent"
          /\ Goto(r, IF On[r] \in atoms THEN "verified" ELSE "error")
          /\ UNCHANGED <<now, swept, row, until, born, cutoff, counted>>
        BY <1>2 DEF Verify, table
    <2> QED
        BY <2>1, Moved DEF Step, Early
<1>3. CASE InsertClaim(r)
    <2>1. /\ at[r] = "fresh" /\ Goto(r, "claimed")
          /\ row' = [row EXCEPT ![r] = "active"]
          /\ until' = [until EXCEPT ![r] = now + Ttl[r]]
          /\ born' = [born EXCEPT ![r] = now]
          /\ UNCHANGED <<now, swept, cutoff, counted>>
        BY <1>3 DEF InsertClaim
    <2>2. now + Ttl[r] \in Int /\ now \in Int
        BY ClaimAssumption DEF FreshOK, ClockOK
    <2>3. row \in [Request -> {"none", "active", "ended"}]
          /\ until \in [Request -> Int] /\ born \in [Request -> Int]
        BY DEF FreshOK, TableOK
    <2>4. row' \in [Request -> {"none", "active", "ended"}] /\ row'[r] = "active"
          /\ \A c \in Request \ {r} : row'[c] = row[c]
        BY <2>1, <2>3
    <2>5. until' \in [Request -> Int] /\ born' \in [Request -> Int] /\ born'[r] = now
          /\ \A c \in Request \ {r} : until'[c] = until[c] /\ born'[c] = born[c]
        BY <2>1, <2>2, <2>3
    <2> QED
        BY <2>1, <2>4, <2>5, Written DEF Step, Early
<1>4. CASE CountClaims(r)
    <2>1. /\ Goto(r, "done")
          /\ counted' = [counted EXCEPT ![r] = {c \in Active : On[c] = On[r]}]
          /\ UNCHANGED <<now, swept, row, until, born, cutoff>>
        BY <1>4 DEF CountClaims, table
    <2>2. {c \in Active : On[c] = On[r]} \in SUBSET Active
        OBVIOUS
    <2> QED
        BY <2>1, <2>2, Counted DEF Step, Early
<1>5. CASE PublishHypothesis(r)
    <2>1. /\ at[r] = "fresh" /\ Goto(r, "published")
          /\ until' = [until EXCEPT ![r] = now + Ttl[r]]
          /\ UNCHANGED <<now, swept, row, born, cutoff, counted>>
        BY <1>5 DEF PublishHypothesis
    <2>2. now + Ttl[r] \in Int
        BY ClaimAssumption DEF FreshOK, ClockOK
    <2>3. row \in [Request -> {"none", "active", "ended"}]
          /\ until \in [Request -> Int] /\ born \in [Request -> Int]
        BY DEF FreshOK, TableOK
    <2>4. until' \in [Request -> Int] /\ \A c \in Request \ {r} : until'[c] = until[c]
        BY <2>1, <2>2, <2>3
    <2> QED
        BY <2>1, <2>3, <2>4, Written DEF Step, Early
<1>6. CASE CheckConflicts(r)
    <2>1. /\ at[r] = "published" /\ Goto(r, "checked")
          /\ counted' = [counted EXCEPT ![r] = Conflicts(r)]
          /\ UNCHANGED <<now, swept, row, until, born, cutoff>>
        BY <1>6 DEF CheckConflicts, table
    <2>2. Conflicts(r) \in SUBSET Active
        BY DEF Conflicts
    <2> QED
        BY <2>1, <2>2, Counted DEF Step, Early
<1>7. CASE CreateClaim(r)
    <2>1. /\ at[r] = "checked" /\ Goto(r, "claimed")
          /\ row' = [row EXCEPT ![r] = "active"]
          /\ born' = [born EXCEPT ![r] = now]
          /\ UNCHANGED <<now, swept, until, cutoff, counted>>
        BY <1>7 DEF CreateClaim
    <2>2. now \in Int
        BY DEF FreshOK, ClockOK
    <2>3. row \in [Request -> {"none", "active", "ended"}]
          /\ until \in [Request -> Int] /\ born \in [Request -> Int]
        BY DEF FreshOK, TableOK
    <2>4. row' \in [Request -> {"none", "active", "ended"}] /\ row'[r] = "active"
          /\ \A c \in Request \ {r} : row'[c] = row[c]
        BY <2>1, <2>3
    <2>5. born' \in [Request -> Int] /\ born'[r] = now
          /\ \A c \in Request \ {r} : born'[c] = born[c]
        BY <2>1, <2>2, <2>3
    <2> QED
        BY <2>1, <2>3, <2>4, <2>5, Written DEF Step, Early
<1>8. CASE ListClaims(r)
    <2>1. /\ Goto(r, "done") /\ counted' = [counted EXCEPT ![r] = Active]
          /\ UNCHANGED <<now, swept, row, until, born, cutoff>>
        BY <1>8 DEF ListClaims, table
    <2>2. Active \in SUBSET Active
        OBVIOUS
    <2> QED
        BY <2>1, <2>2, Counted DEF Step, Early
<1>9. CASE Score(r)
    <2>1. PICK mode \in {"taking", "drawing"} : Goto(r, mode)
        BY <1>9 DEF Score
    <2>2. /\ at[r] = "unsent"
          /\ counted' = [counted EXCEPT ![r] = Active]
          /\ cutoff' = [cutoff EXCEPT ![r] = swept]
          /\ UNCHANGED <<now, swept, row, until, born>>
        BY <1>9 DEF Score, table
    <2>3. /\ at \in [Request -> Step] /\ cutoff \in [Request -> Int]
          /\ counted \in [Request -> SUBSET Request] /\ swept \in Int
        BY DEF FreshOK, ClockOK, CutoffOK, CountOK
    <2>4. at' \in [Request -> Step] /\ at'[r] = mode
          /\ \A c \in Request \ {r} : at'[c] = at[c]
        BY <2>1, <2>3 DEF Goto, Step
    <2>5. cutoff' \in [Request -> Int] /\ cutoff'[r] = swept
          /\ \A c \in Request \ {r} : cutoff'[c] = cutoff[c]
        BY <2>2, <2>3
    <2>6. counted' \in [Request -> SUBSET Request] /\ counted'[r] = Active
          /\ \A c \in Request \ {r} : counted'[c] = counted[c]
        BY <2>2, <2>3 DEF Active
    <2>7. ClockOK' /\ TableOK'
        BY <2>2, <2>4 DEF FreshOK, ClockOK, TableOK
    <2>8. RowsOK'
        BY <2>2, <2>4 DEF FreshOK, RowsOK, Early
    <2>9. CutoffOK'
        BY <2>2, <2>3, <2>5 DEF FreshOK, CutoffOK
    <2>10. CountOK'
        <3>1. ASSUME NEW q \in Request \ {r}
              PROVE  /\ at'[q] \in {"unsent", "verified", "fresh"} => counted'[q] = {}
                     /\ \A c \in counted'[q] :
                         row'[c] # "none" /\ (until'[c] >= cutoff'[q] \/ born'[c] >= cutoff'[q])
            BY <2>2, <2>4, <2>5, <2>6 DEF FreshOK, CountOK
        <3>2. \A c \in counted'[r] :
                row'[c] # "none" /\ (until'[c] >= cutoff'[r] \/ born'[c] >= cutoff'[r])
            BY <2>2, <2>5, <2>6 DEF FreshOK, RowsOK, Active
        <3> QED
            BY <2>4, <2>6, <3>1, <3>2 DEF CountOK
    <2> QED
        BY <2>7, <2>8, <2>9, <2>10 DEF FreshOK
<1>10. CASE Draw(r) \/ Slip(r)
    <2>1. UNCHANGED <<now, swept, row, until, born, at, cutoff, counted>>
        BY <1>10 DEF Draw, Slip, table
    <2> QED
        BY <2>1 DEF FreshOK, ClockOK, TableOK, RowsOK, CutoffOK, CountOK
<1>11. CASE AnswerSurvey(r)
    <2>1. /\ Goto(r, "done")
          /\ UNCHANGED <<now, swept, row, until, born, cutoff, counted>>
        BY <1>11 DEF AnswerSurvey, table
    <2> QED
        BY <2>1, Moved DEF Step, Early
<1> QED
    BY <1>1, <1>2, <1>3, <1>4, <1>5, <1>6, <1>7, <1>8, <1>9, <1>10, <1>11 DEF Handle

LEMMA NextFresh == ASSUME FreshOK, [Next]_vars PROVE FreshOK'
<1>1. CASE Sweep
    <2>1. Expire /\ UNCHANGED <<now, until, born, counted, at, cutoff>>
        BY <1>1 DEF Sweep
    <2> QED
        BY <2>1, Expired DEF FreshOK, ClockOK, CutoffOK
<1>2. CASE Tick
    <2>1. now' = now + 1 /\ UNCHANGED <<swept, row, until, born, at, cutoff, counted>>
        BY <1>2 DEF Tick, table
    <2>2. now' \in Int /\ swept <= now'
        BY <2>1 DEF FreshOK, ClockOK
    <2> QED
        BY <2>1, <2>2 DEF FreshOK, ClockOK, TableOK, RowsOK, CutoffOK, CountOK
<1>3. CASE Crash
    <2>1. /\ at' = [r \in Request |-> IF InFlight(r) THEN "gone" ELSE at[r]]
          /\ UNCHANGED <<now, swept, row, until, born, cutoff, counted>>
        BY <1>3 DEF Crash, table
    <2>2. /\ at' \in [Request -> Step]
          /\ \A r \in Request : at'[r] = at[r] \/ at'[r] = "gone"
        BY <2>1 DEF FreshOK, ClockOK, Step
    <2>3. ClockOK' /\ TableOK' /\ CutoffOK'
        BY <2>1, <2>2 DEF FreshOK, ClockOK, TableOK, CutoffOK
    <2>4. RowsOK'
        BY <2>1, <2>2 DEF FreshOK, RowsOK, Early
    <2>5. CountOK'
        BY <2>1, <2>2 DEF FreshOK, CountOK
    <2> QED
        BY <2>3, <2>4, <2>5 DEF FreshOK
<1>4. ASSUME NEW x \in Atom, Retract(x) PROVE FreshOK'
    BY <1>4 DEF Retract, table, FreshOK, ClockOK, TableOK, RowsOK, CutoffOK, CountOK
<1>5. ASSUME NEW r \in Request, Fail(r) PROVE FreshOK'
    <2>1. /\ Goto(r, "error")
          /\ UNCHANGED <<now, swept, row, until, born, cutoff, counted>>
        BY <1>5 DEF Fail, table
    <2> QED
        BY <2>1, Moved DEF Step, Early
<1>6. ASSUME NEW a \in Agent, NEW c \in Request, Release(a, c) PROVE FreshOK'
    <2>1. /\ row[c] = "active" /\ row' = [row EXCEPT ![c] = "ended"]
          /\ UNCHANGED <<now, swept, until, born, at, cutoff, counted>>
        BY <1>6 DEF Release, MayRelease
    <2>2. /\ row' \in [Request -> {"none", "active", "ended"}]
          /\ row'[c] = "ended" /\ \A d \in Request \ {c} : row'[d] = row[d]
        BY <2>1 DEF FreshOK, TableOK
    <2>3. ClockOK' /\ TableOK' /\ CutoffOK'
        BY <2>1, <2>2 DEF FreshOK, ClockOK, TableOK, CutoffOK
    <2>4. RowsOK'
        BY <2>1, <2>2 DEF FreshOK, RowsOK
    <2>5. CountOK'
        BY <2>1, <2>2 DEF FreshOK, CountOK
    <2> QED
        BY <2>3, <2>4, <2>5 DEF FreshOK
<1>7. CASE UNCHANGED vars
    BY <1>7 DEF vars, table, FreshOK, ClockOK, TableOK, RowsOK, CutoffOK, CountOK
<1> QED
    BY <1>1, <1>2, <1>3, <1>4, <1>5, <1>6, <1>7, HandledFresh DEF Next

(* Every claim an answer counts was kept by the expiry the answer rests on, *)
(* or inserted since (claim_queries.rs): so for any number of requests,     *)
(* interleaved at their database calls, failed or cut short.                *)
THEOREM CountsAreFresh == Spec => []CountsFresh
<1>1. Init => FreshOK
    BY FreshInit
<1>2. FreshOK /\ [Next]_vars => FreshOK'
    BY NextFresh
<1>3. FreshOK => CountsFresh
    BY DEF FreshOK, CountOK, CountsFresh
<1> QED
    BY <1>1, <1>2, <1>3, PTL DEF Spec

---------------------------------------------------------------------------
(* What a survey serves                                                     *)

Distinct(q) == \A i, j \in 1..Len(q) : i # j => q[i] # q[j]

Apart(p, q) == \A i \in 1..Len(p), j \in 1..Len(q) : p[i] # q[j]

\* A sequence with one of its elements taken out.
LEMMA Dropped ==
    ASSUME NEW q \in Seq(Atom), NEW i \in 1..Len(q)
    PROVE  /\ Drop(q, i) \in Seq(Atom) /\ Len(Drop(q, i)) = Len(q) - 1
           /\ \A k \in 1..(Len(q) - 1) :
                Drop(q, i)[k] = IF k < i THEN q[k] ELSE q[k + 1]
<1> DEFINE a == SubSeq(q, 1, i - 1)
           b == SubSeq(q, i + 1, Len(q))
<1>1. Len(q) \in Nat /\ i \in Int
    OBVIOUS
<1>2. a \in Seq(Atom) /\ Len(a) = i - 1 /\ \A k \in 1..(i - 1) : a[k] = q[k]
    BY <1>1
<1>3. b \in Seq(Atom) /\ Len(b) = Len(q) - i /\ \A k \in 1..(Len(q) - i) : b[k] = q[k + i]
    BY <1>1
<1> HIDE DEF a, b
<1>4. /\ a \o b \in Seq(Atom) /\ Len(a \o b) = Len(q) - 1
      /\ \A k \in 1..(i - 1) : (a \o b)[k] = a[k]
      /\ \A k \in i..(Len(q) - 1) : (a \o b)[k] = b[k - i + 1]
    <2>1. /\ a \o b \in Seq(Atom) /\ Len(a \o b) = Len(a) + Len(b)
          /\ \A k \in 1..(Len(a) + Len(b)) :
               (a \o b)[k] = IF k <= Len(a) THEN a[k] ELSE b[k - Len(a)]
        BY <1>2, <1>3, ConcatProperties
    <2>2. Len(a) + Len(b) = Len(q) - 1
        BY <1>1, <1>2, <1>3
    <2>3. ASSUME NEW k \in 1..(i - 1) PROVE (a \o b)[k] = a[k]
        <3>1. k \in 1..(Len(a) + Len(b)) /\ k <= Len(a)
            BY <1>1, <1>2, <2>2
        <3> QED
            BY <2>1, <3>1
    <2>4. ASSUME NEW k \in i..(Len(q) - 1) PROVE (a \o b)[k] = b[k - i + 1]
        <3>1. k \in 1..(Len(a) + Len(b)) /\ ~(k <= Len(a)) /\ k - Len(a) = k - i + 1
            BY <1>1, <1>2, <2>2
        <3> QED
            BY <2>1, <3>1
    <2> QED
        BY <2>1, <2>2, <2>3, <2>4
<1>5. ASSUME NEW k \in 1..(Len(q) - 1)
      PROVE  (a \o b)[k] = IF k < i THEN q[k] ELSE q[k + 1]
    <2>1. CASE k < i
        BY <1>1, <1>2, <1>4, <2>1
    <2>2. CASE ~(k < i)
        <3>1. k \in i..(Len(q) - 1) /\ k - i + 1 \in 1..(Len(q) - i)
            BY <1>1, <2>2
        <3>2. b[k - i + 1] = q[(k - i + 1) + i] /\ (k - i + 1) + i = k + 1
            BY <1>1, <1>3, <3>1
        <3> QED
            BY <1>4, <2>2, <3>1, <3>2
    <2> QED
        BY <2>1, <2>2
<1> QED
    BY <1>4, <1>5 DEF Drop, a, b

\* Every element left was there, at a place of its own, other than i.
LEMMA Left ==
    ASSUME NEW q \in Seq(Atom), NEW i \in 1..Len(q), Distinct(q)
    PROVE  /\ Distinct(Drop(q, i))
           /\ \A k \in 1..Len(Drop(q, i)) :
                Drop(q, i)[k] # q[i] /\ \E h \in 1..Len(q) : Drop(q, i)[k] = q[h]
<1> DEFINE d == Drop(q, i)
           at0(k) == IF k < i THEN k ELSE k + 1
<1>1. Len(d) = Len(q) - 1 /\ Len(q) \in Nat
    BY Dropped
<1>2. \A k \in 1..Len(d) : d[k] = IF k < i THEN q[k] ELSE q[k + 1]
    BY <1>1, Dropped
<1> HIDE DEF d
<1>3. ASSUME NEW k \in 1..Len(d) PROVE at0(k) \in 1..Len(q) /\ at0(k) # i /\ d[k] = q[at0(k)]
    BY <1>1, <1>2
<1>4. ASSUME NEW k \in 1..Len(d), NEW h \in 1..Len(d), k # h PROVE at0(k) # at0(h)
    BY <1>1, <1>4
<1> HIDE DEF at0
<1> QED
    BY <1>3, <1>4 DEF Distinct, d

LEMMA Served ==
    ASSUME NEW p \in Seq(Atom), NEW x \in Atom
    PROVE  /\ Append(p, x) \in Seq(Atom) /\ Len(Append(p, x)) = Len(p) + 1
           /\ \A i \in 1..Len(p) : Append(p, x)[i] = p[i]
           /\ Append(p, x)[Len(p) + 1] = x
OBVIOUS

\* A candidate moves from those left to those served.
LEMMA Drawn ==
    ASSUME NEW p \in Seq(Atom), NEW q \in Seq(Atom), NEW i \in 1..Len(q),
           Distinct(p), Distinct(q), Apart(p, q)
    PROVE  /\ Append(p, q[i]) \in Seq(Atom) /\ Drop(q, i) \in Seq(Atom)
           /\ Len(Append(p, q[i])) = Len(p) + 1
           /\ Distinct(Append(p, q[i])) /\ Distinct(Drop(q, i))
           /\ Apart(Append(p, q[i]), Drop(q, i)) /\ Apart(p, Drop(q, i))
<1> DEFINE s == Append(p, q[i])
           d == Drop(q, i)
<1>1. q[i] \in Atom /\ Len(p) \in Nat
    OBVIOUS
<1>2. /\ s \in Seq(Atom) /\ Len(s) = Len(p) + 1
      /\ \A k \in 1..Len(p) : s[k] = p[k]
      /\ s[Len(p) + 1] = q[i]
    BY <1>1, Served
<1>3. d \in Seq(Atom) /\ Distinct(d)
      /\ \A k \in 1..Len(d) : d[k] # q[i] /\ \E h \in 1..Len(q) : d[k] = q[h]
    BY Dropped, Left
<1> HIDE DEF s, d
<1>4. Distinct(s)
    <2> SUFFICES ASSUME NEW k \in 1..Len(s), NEW h \in 1..Len(s), k # h PROVE s[k] # s[h]
        BY DEF Distinct
    <2>1. CASE k \in 1..Len(p) /\ h \in 1..Len(p)
        BY <1>2, <2>1 DEF Distinct
    <2>2. CASE k = Len(p) + 1 /\ h \in 1..Len(p)
        BY <1>2, <2>2 DEF Apart
    <2>3. CASE h = Len(p) + 1 /\ k \in 1..Len(p)
        BY <1>2, <2>3 DEF Apart
    <2> QED
        BY <1>1, <1>2, <2>1, <2>2, <2>3
<1>5. Apart(p, d)
    BY <1>3 DEF Apart
<1>6. Apart(s, d)
    <2> SUFFICES ASSUME NEW k \in 1..Len(s), NEW h \in 1..Len(d) PROVE s[k] # d[h]
        BY DEF Apart
    <2>1. CASE k \in 1..Len(p)
        BY <1>2, <1>5, <2>1 DEF Apart
    <2>2. CASE k = Len(p) + 1
        BY <1>2, <1>3, <2>2
    <2> QED
        BY <1>1, <1>2, <2>1, <2>2
<1> QED
    BY <1>2, <1>3, <1>4, <1>5, <1>6 DEF s, d

\* A request's candidates and suggestions.
Serving(p, q, n) ==
    /\ p \in Seq(Atom) /\ q \in Seq(Atom) /\ n \in Nat
    /\ Distinct(p) /\ Distinct(q) /\ Apart(p, q)
    /\ Len(p) + n <= Limit

SurveyOK ==
    /\ atoms \subseteq Atom
    /\ DOMAIN at = Request /\ DOMAIN pool = Request
    /\ DOMAIN served = Request /\ DOMAIN slips = Request
    /\ \A r \in Request : Serving(served[r], pool[r], slips[r])

PhaseOK ==
    \A r \in Request :
        /\ Kind[r] # "survey" => at[r] \notin {"taking", "drawing"}
        /\ at[r] = "unsent" => served[r] = <<>> /\ slips[r] = 0
        /\ Kind[r] = "survey" /\ at[r] = "done" =>
             Len(served[r]) + slips[r] = Limit \/ pool[r] = <<>>

LEMMA SurveyInit == ASSUME Init PROVE SurveyOK /\ PhaseOK
<1>1. Serving(<<>>, <<>>, 0)
    BY ClaimAssumption DEF Serving, Distinct, Apart
<1> QED
    BY <1>1, ClaimAssumption DEF Init, SurveyOK, PhaseOK

\* The survey's data is left alone and no survey is answered.
LEMMA Aside ==
    ASSUME SurveyOK, PhaseOK, UNCHANGED survey, atoms' \subseteq Atom, DOMAIN at' = Request,
           \A r \in Request :
               \/ at'[r] = at[r]
               \/ at'[r] \notin {"unsent", "taking", "drawing", "done"}
               \/ at'[r] = "done" /\ Kind[r] # "survey"
    PROVE  SurveyOK' /\ PhaseOK'
<1>1. SurveyOK'
    BY DEF SurveyOK, survey
<1>2. PhaseOK'
    BY DEF PhaseOK, survey
<1> QED
    BY <1>1, <1>2

LEMMA HandledSurvey ==
    ASSUME SurveyOK, PhaseOK, NEW r \in Request, Handle(r) PROVE SurveyOK' /\ PhaseOK'
<1>0. /\ Serving(served[r], pool[r], slips[r]) /\ DOMAIN at = Request
      /\ DOMAIN pool = Request /\ DOMAIN served = Request /\ DOMAIN slips = Request
    BY DEF SurveyOK
<1>1. CASE \/ ExpireFirst(r) \/ Verify(r) \/ InsertClaim(r) \/ CountClaims(r)
           \/ PublishHypothesis(r) \/ CheckConflicts(r) \/ CreateClaim(r) \/ ListClaims(r)
    <2>1. UNCHANGED survey
        BY <1>1 DEF ExpireFirst, Verify, InsertClaim, CountClaims, PublishHypothesis,
           CheckConflicts, CreateClaim, ListClaims
    <2>2. atoms' \subseteq Atom
        BY <1>1, ClaimAssumption DEF ExpireFirst, Verify, InsertClaim, CountClaims,
           PublishHypothesis, CheckConflicts, CreateClaim, ListClaims, board, SurveyOK
    <2>3. PICK t \in {"fresh", "verified", "error", "claimed", "done", "published", "checked"} :
            Goto(r, t) /\ (t = "done" => Kind[r] # "survey")
        BY <1>1 DEF ExpireFirst, Verify, InsertClaim, CountClaims, PublishHypothesis,
           CheckConflicts, CreateClaim, ListClaims
    <2>4. DOMAIN at' = Request /\ at'[r] = t /\ \A c \in Request \ {r} : at'[c] = at[c]
        BY <1>0, <2>3 DEF Goto
    <2> QED
        BY <2>1, <2>2, <2>3, <2>4, Aside
<1>2. CASE Score(r)
    <2>1. PICK focus \in {"replicate", "balanced"} :
            \E q \in Rankings(Candidates(focus), focus) : pool' = [pool EXCEPT ![r] = q]
        BY <1>2 DEF Score
    <2>2. PICK q \in Rankings(Candidates(focus), focus) : pool' = [pool EXCEPT ![r] = q]
        BY <2>1
    <2>3. PICK mode \in {"taking", "drawing"} : Goto(r, mode)
        BY <1>2 DEF Score
    <2>4. /\ Kind[r] = "survey" /\ at[r] = "unsent"
          /\ UNCHANGED <<atoms, served, slips>>
        BY <1>2 DEF Score, board
    <2>5. q \in Seq(Atom) /\ Distinct(q)
        <3> DEFINE C == Candidates(focus)
        <3>1. C \subseteq Atom
            BY DEF SurveyOK, Candidates
        <3>2. IsFiniteSet(C)
            BY <3>1, ClaimAssumption, FS_Subset
        <3>3. Cardinality(C) \in Nat
            BY <3>2, FS_CardinalityType
        <3>4. q \in [1..Cardinality(C) -> C]
              /\ \A i, j \in DOMAIN q : i < j => q[i] # q[j]
            BY DEF Rankings
        <3> HIDE DEF C
        <3>5. q \in Seq(Atom) /\ Len(q) = Cardinality(C) /\ DOMAIN q = 1..Len(q)
            BY <3>1, <3>3, <3>4
        <3>6. ASSUME NEW i \in 1..Len(q), NEW j \in 1..Len(q), i # j PROVE q[i] # q[j]
            <4>1. i < j \/ j < i
                BY <3>3, <3>5, <3>6
            <4> QED
                BY <3>4, <3>5, <4>1
        <3> QED
            BY <3>5, <3>6 DEF Distinct
    <2>6. served[r] = <<>> /\ slips[r] = 0
        BY <2>4 DEF PhaseOK
    <2>7. Serving(served[r], q, slips[r])
        BY <1>0, <2>5, <2>6 DEF Serving, Apart
    <2>8. DOMAIN pool' = Request /\ pool'[r] = q /\ \A c \in Request \ {r} : pool'[c] = pool[c]
        BY <1>0, <2>2
    <2>9. DOMAIN at' = Request /\ at'[r] = mode /\ \A c \in Request \ {r} : at'[c] = at[c]
        BY <1>0, <2>3 DEF Goto
    <2>10. SurveyOK'
        BY <2>4, <2>7, <2>8, <2>9 DEF SurveyOK
    <2>11. PhaseOK'
        BY <2>4, <2>8, <2>9 DEF PhaseOK
    <2> QED
        BY <2>10, <2>11
<1>3. CASE Draw(r)
    <2>1. at[r] \in {"taking", "drawing"} /\ Wanted(r) /\ UNCHANGED <<atoms, at, slips>>
        BY <1>3 DEF Draw, board
    <2>2. pool[r] \in Seq(Atom) /\ pool[r] # <<>>
        BY <1>0, <2>1 DEF Wanted, Serving
    <2>3. PICK i \in 1..Len(pool[r]) :
            /\ served' = [served EXCEPT ![r] = Append(@, pool[r][i])]
            /\ pool' = [pool EXCEPT ![r] = Drop(@, i)]
        <3>1. DOMAIN pool[r] = 1..Len(pool[r]) /\ 1 \in DOMAIN pool[r]
            BY <2>2
        <3>2. PICK i \in (IF at[r] = "taking" THEN {1} ELSE DOMAIN pool[r]) :
                /\ served' = [served EXCEPT ![r] = Append(@, pool[r][i])]
                /\ pool' = [pool EXCEPT ![r] = Drop(@, i)]
            BY <1>3 DEF Draw
        <3>3. i \in 1..Len(pool[r])
            BY <3>1, <3>2
        <3> QED
            BY <3>2, <3>3
    <2>4. /\ served'[r] = Append(served[r], pool[r][i]) /\ pool'[r] = Drop(pool[r], i)
          /\ \A c \in Request \ {r} : served'[c] = served[c] /\ pool'[c] = pool[c]
          /\ DOMAIN served' = Request /\ DOMAIN pool' = Request
        BY <1>0, <2>3
    <2>5. Serving(Append(served[r], pool[r][i]), Drop(pool[r], i), slips[r])
        <3>1. /\ served[r] \in Seq(Atom) /\ Distinct(served[r]) /\ Distinct(pool[r])
              /\ Apart(served[r], pool[r]) /\ slips[r] \in Nat
            BY <1>0 DEF Serving
        <3>2. Len(served[r]) + slips[r] < Limit /\ Len(served[r]) \in Nat
            BY <2>1, <3>1 DEF Wanted
        <3>3. Len(served[r]) + 1 + slips[r] <= Limit
            BY <3>1, <3>2, ClaimAssumption
        <3> QED
            BY <2>2, <3>1, <3>3, Drawn DEF Serving
    <2>6. SurveyOK'
        BY <2>1, <2>4, <2>5 DEF SurveyOK
    <2>7. PhaseOK'
        BY <2>1, <2>4 DEF PhaseOK
    <2> QED
        BY <2>6, <2>7
<1>4. CASE Slip(r)
    <2>1. at[r] = "drawing" /\ Wanted(r) /\ UNCHANGED <<atoms, at, served>>
          /\ pool' = [pool EXCEPT ![r] = Drop(@, 1)]
          /\ slips' = [slips EXCEPT ![r] = @ + 1]
        BY <1>4 DEF Slip, board
    <2>2. pool[r] \in Seq(Atom) /\ pool[r] # <<>>
        BY <1>0, <2>1 DEF Wanted, Serving
    <2>3. 1 \in 1..Len(pool[r])
        BY <2>2
    <2>4. /\ slips'[r] = slips[r] + 1 /\ pool'[r] = Drop(pool[r], 1)
          /\ \A c \in Request \ {r} : slips'[c] = slips[c] /\ pool'[c] = pool[c]
          /\ DOMAIN slips' = Request /\ DOMAIN pool' = Request
        BY <1>0, <2>1
    <2>5. Serving(served[r], Drop(pool[r], 1), slips[r] + 1)
        <3>1. /\ served[r] \in Seq(Atom) /\ Distinct(served[r]) /\ Distinct(pool[r])
              /\ Apart(served[r], pool[r]) /\ slips[r] \in Nat
            BY <1>0 DEF Serving
        <3>2. Len(served[r]) + slips[r] < Limit /\ Len(served[r]) \in Nat
            BY <2>1, <3>1 DEF Wanted
        <3>3. Len(served[r]) + (slips[r] + 1) <= Limit /\ slips[r] + 1 \in Nat
            BY <3>1, <3>2, ClaimAssumption
        <3> QED
            BY <2>2, <2>3, <3>1, <3>3, Drawn DEF Serving
    <2>6. SurveyOK'
        BY <2>1, <2>4, <2>5 DEF SurveyOK
    <2>7. PhaseOK'
        BY <2>1, <2>4 DEF PhaseOK
    <2> QED
        BY <2>6, <2>7
<1>5. CASE AnswerSurvey(r)
    <2>1. ~Wanted(r) /\ Goto(r, "done") /\ UNCHANGED <<atoms, pool, served, slips>>
        BY <1>5 DEF AnswerSurvey, board, survey
    <2>2. DOMAIN at' = Request /\ at'[r] = "done" /\ \A c \in Request \ {r} : at'[c] = at[c]
        BY <1>0, <2>1 DEF Goto
    <2>3. Len(served[r]) + slips[r] = Limit \/ pool[r] = <<>>
        <3>1. /\ Len(served[r]) \in Nat /\ slips[r] \in Nat
              /\ Len(served[r]) + slips[r] <= Limit
            BY <1>0 DEF Serving
        <3> QED
            <4>1. CASE pool[r] # <<>>
                <5>1. ~(Len(served[r]) + slips[r] < Limit) /\ Limit \in Nat
                    BY <2>1, <4>1, ClaimAssumption DEF Wanted
                <5> QED
                    BY <3>1, <5>1
            <4> QED
                BY <4>1
    <2>4. SurveyOK'
        BY <2>1, <2>2 DEF SurveyOK
    <2>5. PhaseOK'
        BY <2>1, <2>2, <2>3 DEF PhaseOK
    <2> QED
        BY <2>4, <2>5
<1> QED
    BY <1>1, <1>2, <1>3, <1>4, <1>5 DEF Handle

LEMMA NextSurvey == ASSUME SurveyOK, PhaseOK, [Next]_vars PROVE SurveyOK' /\ PhaseOK'
<1>1. DOMAIN at = Request /\ atoms \subseteq Atom
    BY DEF SurveyOK
<1>2. CASE Crash
    <2>1. UNCHANGED <<board, survey>>
          /\ at' = [r \in Request |-> IF InFlight(r) THEN "gone" ELSE at[r]]
        BY <1>2 DEF Crash
    <2> QED
        BY <1>1, <2>1, Aside DEF board
<1>3. ASSUME NEW r \in Request, Fail(r) PROVE SurveyOK' /\ PhaseOK'
    <2>1. UNCHANGED <<board, survey>> /\ at' = [at EXCEPT ![r] = "error"]
        BY <1>3 DEF Fail, Goto
    <2>2. DOMAIN at' = Request /\ \A c \in Request : at'[c] = at[c] \/ at'[c] = "error"
        BY <1>1, <2>1
    <2> QED
        BY <1>1, <2>1, <2>2, Aside DEF board
<1>4. ASSUME UNCHANGED <<atoms, at, survey>> PROVE SurveyOK' /\ PhaseOK'
    BY <1>1, <1>4, Aside
<1>5. ASSUME NEW r \in Request, Handle(r) PROVE SurveyOK' /\ PhaseOK'
    BY <1>5, HandledSurvey
<1>6. CASE Sweep \/ Tick \/ (\E x \in Atom : Retract(x))
           \/ (\E a \in Agent, c \in Request : Release(a, c)) \/ UNCHANGED vars
    BY <1>4, <1>6 DEF Sweep, Tick, Retract, Release, vars, board
<1> QED
    BY <1>2, <1>3, <1>5, <1>6 DEF Next

(* A survey serves distinct atoms, as many as asked for and to be found,    *)
(* less one for each draw past the last candidate (rpc_impl.rs, the loop    *)
(* that samples and removes), for every limit and however many candidates.  *)
THEOREM SurveysServe == Spec => []SurveyServes
<1>1. Init => SurveyOK /\ PhaseOK
    BY SurveyInit
<1>2. SurveyOK /\ PhaseOK /\ [Next]_vars => (SurveyOK /\ PhaseOK)'
    BY NextSurvey
<1>3. SurveyOK /\ PhaseOK => SurveyServes
    <2> SUFFICES ASSUME SurveyOK, PhaseOK, NEW r \in Request, Kind[r] = "survey"
                 PROVE  /\ \A i, j \in DOMAIN served[r] : i # j => served[r][i] # served[r][j]
                        /\ \A i \in DOMAIN served[r], j \in DOMAIN pool[r] :
                               served[r][i] # pool[r][j]
                        /\ at[r] = "done" =>
                               Len(served[r]) + slips[r] = Limit \/ pool[r] = <<>>
        BY DEF SurveyServes
    <2>1. Serving(served[r], pool[r], slips[r])
        BY DEF SurveyOK
    <2>2. DOMAIN served[r] = 1..Len(served[r]) /\ DOMAIN pool[r] = 1..Len(pool[r])
        BY <2>1 DEF Serving
    <2> QED
        BY <2>1, <2>2 DEF Serving, Distinct, Apart, PhaseOK
<1> QED
    BY <1>1, <1>2, <1>3, PTL DEF Spec

-----------------------------------------------------------------------------
(* Orphaned hypotheses.                                                     *)

\* A direction in error has had a call fail, one for each; its hypothesis is
\* there from the step that publishes it, and its row from "claimed" on.
Failed == {r \in Request : Kind[r] = "direction" /\ at[r] = "error"}

OrphanInv ==
    /\ at \in [Request -> Step] /\ DOMAIN row = Request
    /\ faults \in Nat /\ crashes \in Nat
    /\ Cardinality(Failed) <= faults
    /\ crashes = 0 => \A r \in Request : at[r] # "gone"
    /\ \A r \in Request : Kind[r] = "direction" =>
         /\ at[r] = "unsent" => On[r] \notin atoms
         /\ at[r] \in {"claimed", "done"} => row[r] # "none"
         /\ at[r] \in {"claimed", "done", "unsent", "fresh", "published", "checked", "error", "gone"}

LEMMA FailedCount ==
    /\ IsFiniteSet(Failed) /\ Cardinality(Failed) \in Nat
    /\ IsFiniteSet(Failed') /\ Cardinality(Failed') \in Nat
<1>1. Failed \in SUBSET Request /\ Failed' \in SUBSET Request
    BY DEF Failed
<1> QED
    BY <1>1, ClaimAssumption, FS_Subset, FS_CardinalityType

\* A step that takes no direction to its error, or withdraws a row.
LEMMA Unfailed ==
    ASSUME OrphanInv, at' \in [Request -> Step], DOMAIN row' = Request,
           Failed' \subseteq Failed, UNCHANGED faults,
           crashes' = crashes \/ crashes' = crashes + 1,
           crashes' = crashes => \A r \in Request : at'[r] = "gone" => at[r] = "gone",
           \A r \in Request : Kind[r] = "direction" =>
               /\ at'[r] = "unsent" => On[r] \notin atoms'
               /\ at'[r] \in {"claimed", "done"} => row'[r] # "none"
               /\ at'[r] \in {"claimed", "done", "unsent", "fresh", "published", "checked",
                              "error", "gone"}
    PROVE  OrphanInv'
<1>1. Cardinality(Failed') <= Cardinality(Failed)
    BY FailedCount, FS_Subset
<1>2. Cardinality(Failed') <= faults
    BY <1>1, FailedCount DEF OrphanInv
<1>3. crashes' \in Nat /\ (crashes' = 0 => crashes' = crashes)
    BY DEF OrphanInv
<1> QED
    BY <1>2, <1>3 DEF OrphanInv

LEMMA HandledOrphan == ASSUME OrphanInv, NEW r \in Request, Handle(r) PROVE OrphanInv'
<1> DEFINE Late == {"claimed", "done", "unsent", "fresh", "published", "checked", "error", "gone"}
<1>1. at \in [Request -> Step] /\ DOMAIN row = Request
    BY DEF OrphanInv
<1>2. UNCHANGED <<crashes, faults>>
    BY DEF Handle, ExpireFirst, Verify, InsertClaim, CountClaims, PublishHypothesis,
       CheckConflicts, CreateClaim, ListClaims, Score, Draw, Slip, AnswerSurvey
<1>3. CASE at' = at
    <2>1. UNCHANGED <<atoms, row>>
        BY <1>1, <1>3 DEF Handle, ExpireFirst, Verify, InsertClaim, CountClaims,
           PublishHypothesis, CheckConflicts, CreateClaim, ListClaims, Score, Draw, Slip,
           AnswerSurvey, Goto, board, table
    <2> QED
        BY <1>1, <1>2, <1>3, <2>1 DEF OrphanInv, Failed
<1>4. ASSUME NEW t \in Step \ {"unsent", "gone"}, at' = [at EXCEPT ![r] = t],
             Kind[r] = "direction" => t \in Late \ {"error"},
             Kind[r] = "direction" /\ t \in {"claimed", "done"} => row'[r] # "none",
             DOMAIN row' = Request, \A c \in Request : row[c] # "none" => row'[c] # "none",
             \A x \in atoms' \ atoms : x = On[r] /\ Kind[r] = "direction"
      PROVE  OrphanInv'
    <2>1. at' \in [Request -> Step] /\ at'[r] = t /\ \A c \in Request \ {r} : at'[c] = at[c]
        BY <1>1, <1>4
    <2>2. Failed' \subseteq Failed
        BY <1>4, <2>1 DEF Failed
    <2>3. ASSUME NEW c \in Request, Kind[c] = "direction"
          PROVE  /\ at'[c] = "unsent" => On[c] \notin atoms'
                 /\ at'[c] \in {"claimed", "done"} => row'[c] # "none"
                 /\ at'[c] \in Late
        <3>1. CASE c = r
            BY <1>4, <2>1, <2>3, <3>1
        <3>2. CASE c # r
            <4>1. at'[c] = at[c]
                BY <2>1, <3>2
            <4>2. On[c] \in atoms' => On[c] \in atoms
                BY <1>4, <2>3, <3>2, ClaimAssumption
            <4> QED
                BY <1>4, <2>3, <4>1, <4>2 DEF OrphanInv
        <3> QED
            BY <3>1, <3>2
    <2> QED
        BY <1>2, <1>4, <2>1, <2>2, <2>3, Unfailed
<1>5. CASE ExpireFirst(r)
    BY <1>1, <1>4, <1>5 DEF ExpireFirst, Expire, Goto, board, Step, Stale
<1>6. CASE Verify(r)
    BY <1>1, <1>4, <1>6 DEF Verify, Goto, board, table, Step
<1>7. CASE InsertClaim(r)
    BY <1>1, <1>4, <1>7 DEF InsertClaim, Goto, board, Step
<1>8. CASE CountClaims(r)
    BY <1>1, <1>4, <1>8 DEF CountClaims, Goto, board, table, Step
<1>9. CASE PublishHypothesis(r)
    BY <1>1, <1>4, <1>9 DEF PublishHypothesis, Goto, Step
<1>10. CASE CheckConflicts(r)
    BY <1>1, <1>4, <1>10 DEF CheckConflicts, Goto, board, table, Step
<1>11. CASE CreateClaim(r)
    BY <1>1, <1>4, <1>11 DEF CreateClaim, Goto, board, Step
<1>12. CASE ListClaims(r)
    <2>1. row[r] # "none"
        BY <1>12 DEF ListClaims, OrphanInv
    <2> QED
        BY <1>1, <1>4, <1>12, <2>1 DEF ListClaims, Goto, board, table, Step
<1>13. CASE Score(r)
    <2>1. PICK mode \in {"taking", "drawing"} : Goto(r, mode)
        BY <1>13 DEF Score
    <2>2. Kind[r] = "survey" /\ UNCHANGED <<atoms, row>>
        BY <1>13 DEF Score, board, table
    <2> QED
        BY <1>1, <1>4, <2>1, <2>2 DEF Goto, Step
<1>14. CASE Draw(r) \/ Slip(r)
    BY <1>3, <1>14 DEF Draw, Slip
<1>15. CASE AnswerSurvey(r)
    <2>1. Kind[r] # "direction"
        BY <1>15 DEF AnswerSurvey, OrphanInv
    <2> QED
        BY <1>1, <1>4, <1>15, <2>1 DEF AnswerSurvey, Goto, board, table, Step
<1> QED
    BY <1>5, <1>6, <1>7, <1>8, <1>9, <1>10, <1>11, <1>12, <1>13, <1>14, <1>15 DEF Handle

LEMMA OrphanStep == OrphanInv /\ [Next]_vars => OrphanInv'
<1> SUFFICES ASSUME OrphanInv, [Next]_vars PROVE OrphanInv'
    OBVIOUS
<1>1. at \in [Request -> Step] /\ DOMAIN row = Request /\ faults \in Nat /\ crashes \in Nat
    BY DEF OrphanInv
<1>2. ASSUME UNCHANGED <<atoms, at, crashes, faults>>, DOMAIN row' = Request,
             \A c \in Request : row[c] # "none" => row'[c] # "none"
      PROVE  OrphanInv'
    BY <1>2, Unfailed DEF OrphanInv, Failed
<1>3. CASE Sweep
    BY <1>1, <1>2, <1>3 DEF Sweep, Expire, Stale, board
<1>4. CASE Tick \/ (\E x \in Atom : Retract(x)) \/ UNCHANGED vars
    BY <1>1, <1>2, <1>4 DEF Tick, Retract, vars, board, table
<1>5. CASE \E a \in Agent, c \in Request : Release(a, c)
    BY <1>1, <1>2, <1>5 DEF Release, board
<1>6. CASE Crash
    <2>1. /\ at' = [r \in Request |-> IF InFlight(r) THEN "gone" ELSE at[r]]
          /\ crashes' = crashes + 1 /\ UNCHANGED <<atoms, row, faults>>
        BY <1>6 DEF Crash, board, table
    <2>2. at' \in [Request -> Step] /\ \A r \in Request : at'[r] = at[r] \/ at'[r] = "gone"
        BY <1>1, <2>1 DEF Step
    <2>3. Failed' \subseteq Failed
        BY <2>2 DEF Failed
    <2> QED
        BY <1>1, <2>1, <2>2, <2>3, Unfailed DEF OrphanInv
<1>7. ASSUME NEW r \in Request, Fail(r) PROVE OrphanInv'
    <2>1. /\ at' = [at EXCEPT ![r] = "error"] /\ faults' = faults + 1
          /\ UNCHANGED <<atoms, row, crashes>>
        BY <1>7 DEF Fail, Goto, board, table
    <2>2. at' \in [Request -> Step] /\ at'[r] = "error"
          /\ \A c \in Request \ {r} : at'[c] = at[c]
        BY <1>1, <2>1 DEF Step
    <2>3. Failed' \subseteq Failed \cup {r}
        BY <2>2 DEF Failed
    <2>4. IsFiniteSet(Failed \cup {r}) /\ Cardinality(Failed \cup {r}) <= Cardinality(Failed) + 1
        <3>1. IsFiniteSet(Failed) /\ Cardinality(Failed) \in Nat
            BY FailedCount
        <3> QED
            BY <3>1, FS_AddElement
    <2>5. Cardinality(Failed') <= Cardinality(Failed \cup {r})
        BY <2>3, <2>4, FS_Subset
    <2>6. Cardinality(Failed \cup {r}) \in Nat
        BY <2>4, FS_CardinalityType
    <2>7. Cardinality(Failed') <= faults'
        <3>1. Cardinality(Failed) <= faults
            BY DEF OrphanInv
        <3> QED
            BY <1>1, <2>1, <2>4, <2>5, <2>6, <3>1, FailedCount
    <2> QED
        BY <1>1, <2>1, <2>2, <2>7 DEF OrphanInv
<1>8. ASSUME NEW r \in Request, Handle(r) PROVE OrphanInv'
    BY <1>8, HandledOrphan
<1> QED
    BY <1>3, <1>4, <1>5, <1>6, <1>7, <1>8 DEF Next

(* Each hypothesis that was published for a direction and is claimed by     *)
(* nobody comes from a failed call or a process that died (rpc_impl.rs,     *)
(* claim_direction: publish_atom and create_claim are two transactions).    *)
THEOREM OrphansExplained == Spec => []OrphansFromFailures
<1>1. Init => OrphanInv
    <2> SUFFICES ASSUME Init PROVE OrphanInv
        OBVIOUS
    <2>1. Failed = {}
        BY DEF Init, Failed
    <2>2. Cardinality(Failed) = 0
        BY <2>1, FS_EmptySet
    <2> QED
        BY <2>2, ClaimAssumption DEF Init, OrphanInv, Step
<1>2. OrphanInv => OrphansFromFailures
    <2> SUFFICES ASSUME OrphanInv PROVE OrphansFromFailures
        OBVIOUS
    <2> DEFINE S == {r \in Request : Orphan(r) /\ at[r] # "gone"}
    <2>1. S \subseteq Failed
        BY DEF OrphanInv, Orphan, InFlight, Failed
    <2>2. Cardinality(S) <= Cardinality(Failed) /\ Cardinality(S) \in Nat
        BY <2>1, FailedCount, FS_Subset, FS_CardinalityType
    <2>3. Cardinality(S) <= faults
        BY <2>2, FailedCount DEF OrphanInv
    <2>4. crashes = 0 => \A r \in Request : Orphan(r) => at[r] # "gone"
        BY DEF OrphanInv
    <2> QED
        BY <2>3, <2>4 DEF OrphansFromFailures
<1> QED
    BY <1>1, <1>2, OrphanStep, PTL DEF Spec
-----------------------------------------------------------------------------
(* Types.                                                                   *)

\* What the other invariants leave out of the types: ranges, and that the
\* survey's variables are functions.
Ranges ==
    /\ now \in 0..Horizon /\ swept \in 0..Horizon /\ retracted \subseteq Atom
    /\ born \in [Request -> 0..Horizon] /\ cutoff \in [Request -> 0..Horizon]
    /\ pool \in [Request -> Seq(Atom)] /\ served \in [Request -> Seq(Atom)]
    /\ slips \in [Request -> Nat]
    /\ crashes \in Nat /\ faults \in Nat /\ crashes + faults <= MaxFailures
    /\ \A r \in Request : at[r] = "claimed" => row[r] # "none"

\* One entry of a function changes.
LEMMA EntryChanged ==
    ASSUME NEW S, NEW f \in [Request -> S], NEW r \in Request, NEW v \in S, NEW g,
           g = [f EXCEPT ![r] = v]
    PROVE  g \in [Request -> S]
OBVIOUS

\* What a request's step does to the ranges.
LEMMA HandledRanges ==
    ASSUME FreshOK, SurveyOK, PhaseOK, Ranges, NEW r \in Request, Handle(r) PROVE Ranges'
<1> DEFINE Clocks == /\ now' \in 0..Horizon /\ swept' \in 0..Horizon /\ retracted' \subseteq Atom
                     /\ born' \in [Request -> 0..Horizon] /\ cutoff' \in [Request -> 0..Horizon]
           Surveys == /\ pool' \in [Request -> Seq(Atom)] /\ served' \in [Request -> Seq(Atom)]
                      /\ slips' \in [Request -> Nat]
           Bounds == crashes' \in Nat /\ faults' \in Nat /\ crashes' + faults' <= MaxFailures
           Claimed == \A q \in Request : at'[q] = "claimed" => row'[q] # "none"
<1>1. SurveyOK'
    BY HandledSurvey
<1>2. at \in [Request -> Step] /\ row \in [Request -> {"none", "active", "ended"}]
    BY DEF FreshOK, ClockOK, TableOK
<1>3. Clocks /\ Bounds
    BY DEF Handle, ExpireFirst, Expire, Verify, InsertClaim, CountClaims, PublishHypothesis, CheckConflicts,
       CreateClaim, ListClaims, Score, Draw, Slip, AnswerSurvey, board, table, Ranges
<1>4. Surveys
    <2>1. pool[r] \in Seq(Atom) /\ served[r] \in Seq(Atom) /\ slips[r] \in Nat
        BY DEF Ranges
    <2>2. pool'[r] \in Seq(Atom) /\ served'[r] \in Seq(Atom) /\ slips'[r] \in Nat
        BY <1>1 DEF SurveyOK, Serving
    <2>3. CASE Score(r)
        <3>1. PICK focus \in {"replicate", "balanced"} :
                  \E q \in Rankings(Candidates(focus), focus) : pool' = [pool EXCEPT ![r] = q]
            BY <2>3 DEF Score
        <3>2. PICK q : pool' = [pool EXCEPT ![r] = q]
            BY <3>1
        <3>3. pool'[r] = q
            BY <3>2 DEF Ranges
        <3>4. pool' \in [Request -> Seq(Atom)]
            BY <2>2, <3>2, <3>3 DEF Ranges
        <3> QED
            BY <2>3, <3>4 DEF Score, Ranges
    <2>4. CASE Draw(r)
        <3>1. PICK i : /\ served' = [served EXCEPT ![r] = Append(@, pool[r][i])]
                       /\ pool' = [pool EXCEPT ![r] = Drop(@, i)]
            BY <2>4 DEF Draw
        <3>2. /\ served'[r] = Append(served[r], pool[r][i])
              /\ pool'[r] = Drop(pool[r], i)
            BY <3>1 DEF Ranges
        <3>3. served' = [served EXCEPT ![r] = served'[r]] /\ pool' = [pool EXCEPT ![r] = pool'[r]]
            BY <3>1, <3>2
        <3>4. served' \in [Request -> Seq(Atom)] /\ pool' \in [Request -> Seq(Atom)]
            BY <2>2, <3>3, EntryChanged DEF Ranges
        <3> QED
            BY <2>4, <3>4 DEF Draw, Ranges
    <2>5. CASE Slip(r)
        <3>1. /\ slips' = [slips EXCEPT ![r] = @ + 1] /\ UNCHANGED served
              /\ pool' = [pool EXCEPT ![r] = Drop(@, 1)]
            BY <2>5 DEF Slip
        <3>2. pool'[r] = Drop(pool[r], 1)
            BY <3>1 DEF Ranges
        <3>3. pool' = [pool EXCEPT ![r] = pool'[r]]
            BY <3>1, <3>2
        <3>4. pool' \in [Request -> Seq(Atom)]
            BY <2>2, <3>3, EntryChanged DEF Ranges
        <3> QED
            BY <3>1, <3>4 DEF Ranges
    <2>6. CASE ~(Score(r) \/ Draw(r) \/ Slip(r))
        BY <2>6 DEF Handle, ExpireFirst, Verify, InsertClaim, CountClaims, PublishHypothesis, CheckConflicts,
           CreateClaim, ListClaims, AnswerSurvey, survey, Ranges
    <2> QED
        BY <2>3, <2>4, <2>5, <2>6
<1>5. Claimed
    <2>1. CASE InsertClaim(r) \/ CreateClaim(r)
        BY <1>2, <2>1 DEF InsertClaim, CreateClaim, Goto, Ranges
    <2>2. CASE ExpireFirst(r)
        <3>1. /\ at' = [at EXCEPT ![r] = "fresh"]
              /\ \A q \in Request : row'[q] = "none" => row[q] = "none"
            BY <2>2 DEF ExpireFirst, Expire, Goto, Stale
        <3> QED
            BY <1>2, <3>1 DEF Ranges
    <2>3. CASE ~(InsertClaim(r) \/ CreateClaim(r) \/ ExpireFirst(r))
        <3>1. UNCHANGED row /\ (UNCHANGED at \/ \E t \in Step \ {"claimed"} : at' = [at EXCEPT ![r] = t])
            BY <2>3 DEF Handle, Verify, CountClaims, PublishHypothesis, CheckConflicts, ListClaims, Score,
               Draw, Slip, AnswerSurvey, Goto, table, Step
        <3> QED
            BY <1>2, <3>1 DEF Ranges
    <2> QED
        BY <2>1, <2>2, <2>3
<1> QED
    BY <1>3, <1>4, <1>5 DEF Ranges

\* What any step does to them.
LEMMA NextRanges ==
    ASSUME FreshOK, SurveyOK, PhaseOK, Ranges, [Next]_vars PROVE Ranges'
<1>1. at \in [Request -> Step] /\ row \in [Request -> {"none", "active", "ended"}]
    BY DEF FreshOK, ClockOK, TableOK
<1>2. CASE Sweep
    <2>1. \A q \in Request : row'[q] = "none" => row[q] = "none"
        BY <1>2 DEF Sweep, Expire, Stale
    <2> QED
        BY <1>2, <2>1 DEF Sweep, Expire, board, survey, Ranges
<1>3. CASE Tick
    BY <1>3, ClaimAssumption DEF Tick, board, table, survey, Ranges
<1>4. CASE Crash
    <2>1. \A r \in Request : at'[r] = "claimed" => at[r] = "claimed"
        BY <1>4 DEF Crash
    <2> QED
        BY <1>4, <2>1, ClaimAssumption DEF Crash, board, table, survey, Ranges
<1>5. ASSUME NEW x \in Atom, Retract(x) PROVE Ranges'
    BY <1>5 DEF Retract, table, survey, Ranges
<1>6. ASSUME NEW r \in Request, Fail(r) PROVE Ranges'
    <2>1. \A q \in Request : at'[q] = "claimed" => at[q] = "claimed"
        BY <1>1, <1>6 DEF Fail, Goto
    <2> QED
        BY <1>6, <2>1, ClaimAssumption DEF Fail, board, table, survey, Ranges
<1>7. ASSUME NEW a \in Agent, NEW c \in Request, Release(a, c) PROVE Ranges'
    <2>1. \A q \in Request : row'[q] = "none" => row[q] = "none"
        BY <1>1, <1>7 DEF Release
    <2> QED
        BY <1>7, <2>1 DEF Release, board, survey, Ranges
<1>8. CASE UNCHANGED vars
    BY <1>8 DEF vars, board, table, survey, Ranges
<1> QED
    BY <1>2, <1>3, <1>4, <1>5, <1>6, <1>7, <1>8, HandledRanges DEF Next

(* Every variable of the claims has its type; a request has a row from the  *)
(* step that inserts it and not before.                                     *)
THEOREM TypeCorrect == Spec => []TypeOK
<1>1. Init => FreshOK /\ SurveyOK /\ PhaseOK /\ Ranges
    <2>1. ASSUME Init PROVE Ranges
        BY <2>1, ClaimAssumption DEF Init, Ranges
    <2> QED
        BY <2>1, FreshInit, SurveyInit
<1>2. FreshOK /\ SurveyOK /\ PhaseOK /\ Ranges /\ [Next]_vars => (FreshOK /\ SurveyOK /\ PhaseOK /\ Ranges)'
    BY NextFresh, NextSurvey, NextRanges
<1>3. FreshOK /\ SurveyOK /\ PhaseOK /\ Ranges => TypeOK
    BY ClaimAssumption DEF FreshOK, ClockOK, TableOK, RowsOK, CountOK, Early, SurveyOK, Ranges, TypeOK
<1> QED
    BY <1>1, <1>2, <1>3, PTL DEF Spec
=============================================================================
