------------------------------- MODULE Claims -------------------------------
(***************************************************************************)
(* Claims on atoms and the surveys they weigh on.  A claim is a row with   *)
(* an expiry time and an active flag.  claim inserts one on an atom;       *)
(* claim_direction first publishes a hypothesis and then claims that;      *)
(* release_claim and two expiry UPDATEs (one in the worker, one at the     *)
(* head of each claiming request) clear the flag.  A survey ranks atoms    *)
(* by their signals over one plus their active claims, and samples.        *)
(*                                                                         *)
(* A claim is named by the request that makes it; times are in minutes.    *)
(* The request is authenticated (Agents) and the atoms are those of one    *)
(* domain and project.  The seen penalty and the focus weights only change *)
(* the odds of a sampled survey, where any candidate may be drawn.         *)
(***************************************************************************)
EXTENDS Integers, FiniteSets, Sequences

CONSTANTS
    Agent,
    Atom,
    Old,          \* atoms that are there from the start
    Doomed,       \* atoms that may be retracted
    Weight,       \* [Atom -> Nat]: the survey's score before claims
    Unreplicated, \* atoms provisional and without replication
    Request,
    Kind,         \* [Request -> {"claim", "direction", "survey"}]
    By,           \* [Request -> Agent]
    On,           \* [Request -> Atom]: what it claims; of a direction, its hypothesis
    Ttl,          \* [Request -> Int]: minutes, unchecked by the handler
    Limit,        \* suggestions asked of a survey
    Horizon,      \* bound: the clock
    MaxFailures   \* bound: process deaths and database calls that fail

ASSUME ClaimAssumption ==
    /\ IsFiniteSet(Request) /\ IsFiniteSet(Atom)
    /\ Old \subseteq Atom /\ Doomed \subseteq Atom
    /\ Weight \in [Atom -> Nat]
    /\ Kind \in [Request -> {"claim", "direction", "survey"}]
    /\ By \in [Request -> Agent] /\ On \in [Request -> Atom]
    /\ Ttl \in [Request -> Int]
    \* An atom's id is a hash with the time in it, and the primary key.
    /\ \A r \in Request : Kind[r] = "direction" =>
          On[r] \notin Old /\ \A q \in Request : Kind[q] = "direction" /\ On[q] = On[r] => q = r
    /\ Limit \in Nat /\ Horizon \in Nat
    /\ MaxFailures \in Nat

VARIABLES
    now,
    swept,    \* history: when an expiry UPDATE last ran
    atoms,    \* committed atoms
    retracted,
    row,      \* [Request -> {"none", "active", "ended"}]: its row of claims
    until,    \* [Request -> Int]: expires_at
    born,     \* history: [Request -> 0..Horizon]: when the row was inserted
    at,       \* [Request -> Step]
    cutoff,   \* history: [Request -> 0..Horizon]: the expiry its answer rests on
    counted,  \* [Request -> SUBSET Request]: the active claims it read
    pool,     \* [Request -> Seq(Atom)]: a survey's remaining candidates, ranked
    served,   \* [Request -> Seq(Atom)]: its suggestions
    slips,    \* [Request -> Nat]: draws that fell past the last candidate
    crashes,
    faults

board  == <<atoms, retracted>>
table  == <<row, until, born>>
survey == <<pool, served, slips>>
vars == <<now, swept, board, table, at, cutoff, counted, survey, crashes, faults>>

Step == {"unsent", "verified", "fresh", "published", "checked", "claimed",
         "taking", "drawing", "done", "error", "gone"}

Init ==
    /\ now = 0 /\ swept = 0
    /\ atoms = Old /\ retracted = {}
    /\ row = [r \in Request |-> "none"]
    /\ until = [r \in Request |-> 0]
    /\ born = [r \in Request |-> 0]
    /\ at = [r \in Request |-> "unsent"]
    /\ cutoff = [r \in Request |-> 0]
    /\ counted = [r \in Request |-> {}]
    /\ pool = [r \in Request |-> <<>>]
    /\ served = [r \in Request |-> <<>>]
    /\ slips = [r \in Request |-> 0]
    /\ crashes = 0 /\ faults = 0

Goto(r, step) == at' = [at EXCEPT ![r] = step]

Active == {c \in Request : row[c] = "active"}

(* Expiry *)

\* Mutant: the comparison is off by one.
StaleLate(c) == row[c] = "active" /\ until[c] + 1 < now

Stale(c) == row[c] = "active" /\ until[c] < now

Expire ==
    /\ row' = [c \in Request |-> IF Stale(c) THEN "ended" ELSE row[c]]
    /\ swept' = now

Sweep ==
    /\ \E c \in Request : Stale(c)
    /\ Expire
    /\ UNCHANGED <<now, board, until, born, at, cutoff, counted, survey, crashes, faults>>

ExpireFirst(r) ==
    /\ \/ Kind[r] = "claim" /\ at[r] = "verified"
       \/ Kind[r] = "direction" /\ at[r] = "unsent"
    /\ Expire
    /\ cutoff' = [cutoff EXCEPT ![r] = now]
    /\ Goto(r, "fresh")
    /\ UNCHANGED <<now, board, until, born, counted, survey, crashes, faults>>

(* claim: verify the atom, expire, insert, count the atom's claims *)

Verify(r) ==
    /\ Kind[r] = "claim" /\ at[r] = "unsent"
    /\ Goto(r, IF On[r] \in atoms THEN "verified" ELSE "error")
    /\ UNCHANGED <<now, swept, board, table, cutoff, counted, survey, crashes, faults>>

InsertClaim(r) ==
    /\ Kind[r] = "claim" /\ at[r] = "fresh"
    /\ row' = [row EXCEPT ![r] = "active"]
    /\ until' = [until EXCEPT ![r] = now + Ttl[r]]
    /\ born' = [born EXCEPT ![r] = now]
    /\ Goto(r, "claimed")
    /\ UNCHANGED <<now, swept, board, cutoff, counted, survey, crashes, faults>>

CountClaims(r) ==
    /\ Kind[r] = "claim" /\ at[r] = "claimed"
    /\ counted' = [counted EXCEPT ![r] = {c \in Active : On[c] = On[r]}]
    /\ Goto(r, "done")
    /\ UNCHANGED <<now, swept, board, table, cutoff, survey, crashes, faults>>

(* claim_direction: expire, publish the hypothesis, look for conflicts,     *)
(* insert the claim, list the domain's claims                               *)

PublishHypothesis(r) ==
    /\ Kind[r] = "direction" /\ at[r] = "fresh"
    /\ atoms' = atoms \cup {On[r]}
    /\ until' = [until EXCEPT ![r] = now + Ttl[r]]
    /\ Goto(r, "published")
    /\ UNCHANGED <<now, swept, retracted, row, born, cutoff, counted, survey, crashes, faults>>

\* The JOIN asks for the claim's own atom and for another than it: no row.
Conflicts(r) == {c \in Active : \E x \in atoms : x = On[c] /\ x # On[c]}

CheckConflicts(r) ==
    /\ Kind[r] = "direction" /\ at[r] = "published"
    /\ counted' = [counted EXCEPT ![r] = Conflicts(r)]
    /\ Goto(r, "checked")
    /\ UNCHANGED <<now, swept, board, table, cutoff, survey, crashes, faults>>

\* Mutant: a direction is refused while another agent holds a claim.
CreateFirstClaim(r) ==
    /\ Kind[r] = "direction" /\ at[r] = "checked"
    /\ LET held == \E c \in Active : By[c] # By[r]
       IN  /\ row' = [row EXCEPT ![r] = IF held THEN "none" ELSE "active"]
           /\ Goto(r, IF held THEN "error" ELSE "claimed")
    /\ born' = [born EXCEPT ![r] = now]
    /\ UNCHANGED <<now, swept, board, until, cutoff, counted, survey, crashes, faults>>

CreateClaim(r) ==
    /\ Kind[r] = "direction" /\ at[r] = "checked"
    /\ row' = [row EXCEPT ![r] = "active"]
    /\ born' = [born EXCEPT ![r] = now]
    /\ Goto(r, "claimed")
    /\ UNCHANGED <<now, swept, board, until, cutoff, counted, survey, crashes, faults>>

\* Mutant: claims are listed whether active or not.
ListAllClaims(r) ==
    /\ Kind[r] = "direction" /\ at[r] = "claimed"
    /\ counted' = [counted EXCEPT ![r] = {c \in Request : row[c] # "none"}]
    /\ Goto(r, "done")
    /\ UNCHANGED <<now, swept, board, table, cutoff, survey, crashes, faults>>

ListClaims(r) ==
    /\ Kind[r] = "direction" /\ at[r] = "claimed"
    /\ counted' = [counted EXCEPT ![r] = Active]
    /\ Goto(r, "done")
    /\ UNCHANGED <<now, swept, board, table, cutoff, survey, crashes, faults>>

(* release_claim: one UPDATE guarded by claim, agent and flag *)

MayRelease(a, c) == row[c] = "active" /\ By[c] = a

Release(a, c) ==
    /\ MayRelease(a, c)
    /\ row' = [row EXCEPT ![c] = "ended"]
    /\ UNCHANGED <<now, swept, board, until, born, at, cutoff, counted, survey, crashes, faults>>

(* survey *)

ClaimsOn(x) == Cardinality({c \in Active : On[c] = x})

Above(x, y, focus) ==
    IF focus = "replicate" THEN Weight[x] > Weight[y]
    ELSE Weight[x] * (1 + ClaimsOn(y)) > Weight[y] * (1 + ClaimsOn(x))

Candidates(focus) ==
    (atoms \ retracted) \cap (IF focus = "replicate" THEN Unreplicated ELSE Atom)

Rankings(C, focus) ==
    {q \in [1..Cardinality(C) -> C] :
        \A i, j \in DOMAIN q : i < j => q[i] # q[j] /\ ~Above(q[j], q[i], focus)}

\* A temperature of at most 0.01 takes the first candidates, another draws.
Score(r) ==
    /\ Kind[r] = "survey" /\ at[r] = "unsent"
    /\ \E focus \in {"replicate", "balanced"} :
        \E q \in Rankings(Candidates(focus), focus) : pool' = [pool EXCEPT ![r] = q]
    /\ \E mode \in {"taking", "drawing"} : Goto(r, mode)
    /\ counted' = [counted EXCEPT ![r] = Active]
    /\ cutoff' = [cutoff EXCEPT ![r] = swept]
    /\ UNCHANGED <<now, swept, board, table, served, slips, crashes, faults>>

Drop(q, i) == SubSeq(q, 1, i - 1) \o SubSeq(q, i + 1, Len(q))

Wanted(r) == Len(served[r]) + slips[r] < Limit /\ pool[r] # <<>>

\* Mutant: the candidate drawn stays among those left.
DrawAgain(r) ==
    /\ at[r] \in {"taking", "drawing"} /\ Wanted(r)
    /\ \E i \in (IF at[r] = "taking" THEN {1} ELSE DOMAIN pool[r]) :
        served' = [served EXCEPT ![r] = Append(@, pool[r][i])]
    /\ UNCHANGED <<now, swept, board, table, at, cutoff, counted, pool, slips, crashes, faults>>

Draw(r) ==
    /\ at[r] \in {"taking", "drawing"} /\ Wanted(r)
    /\ \E i \in (IF at[r] = "taking" THEN {1} ELSE DOMAIN pool[r]) :
        /\ served' = [served EXCEPT ![r] = Append(@, pool[r][i])]
        /\ pool' = [pool EXCEPT ![r] = Drop(@, i)]
    /\ UNCHANGED <<now, swept, board, table, at, cutoff, counted, slips, crashes, faults>>

\* The draw exceeds the sum of the weights left, rounded or underflowed:
\* the first candidate is removed and none is served.
Slip(r) ==
    /\ at[r] = "drawing" /\ Wanted(r)
    /\ pool' = [pool EXCEPT ![r] = Drop(@, 1)]
    /\ slips' = [slips EXCEPT ![r] = @ + 1]
    /\ UNCHANGED <<now, swept, board, table, at, cutoff, counted, served, crashes, faults>>

AnswerSurvey(r) ==
    /\ at[r] \in {"taking", "drawing"} /\ ~Wanted(r)
    /\ Goto(r, "done")
    /\ UNCHANGED <<now, swept, board, table, cutoff, counted, survey, crashes, faults>>

(* The rest of the hub *)

Retract(x) ==
    /\ x \in (Doomed \cap atoms) \ retracted
    /\ retracted' = retracted \cup {x}
    /\ UNCHANGED <<now, swept, atoms, table, at, cutoff, counted, survey, crashes, faults>>

Tick ==
    /\ now < Horizon
    /\ now' = now + 1
    /\ UNCHANGED <<swept, board, table, at, cutoff, counted, survey, crashes, faults>>

InFlight(r) == at[r] \notin {"unsent", "done", "error", "gone"}

\* A database call of the request fails and `?' ends it.  The conflict query
\* is the exception: unwrap_or_default makes of its failure an empty answer,
\* which is what it answers anyway.
Fail(r) ==
    /\ crashes + faults < MaxFailures
    /\ InFlight(r) /\ at[r] # "published"
    /\ Goto(r, "error")
    /\ faults' = faults + 1
    /\ UNCHANGED <<now, swept, board, table, cutoff, counted, survey, crashes>>

Crash ==
    /\ crashes + faults < MaxFailures
    /\ at' = [r \in Request |-> IF InFlight(r) THEN "gone" ELSE at[r]]
    /\ crashes' = crashes + 1
    /\ UNCHANGED <<now, swept, board, table, cutoff, counted, survey, faults>>

Handle(r) ==
    \/ ExpireFirst(r)
    \/ Verify(r) \/ InsertClaim(r) \/ CountClaims(r)
    \/ PublishHypothesis(r) \/ CheckConflicts(r) \/ CreateClaim(r) \/ ListClaims(r)
    \/ Score(r) \/ Draw(r) \/ Slip(r) \/ AnswerSurvey(r)

Next ==
    \/ Sweep \/ Tick \/ Crash
    \/ \E x \in Atom : Retract(x)
    \/ \E r \in Request : Handle(r) \/ Fail(r)
    \/ \E a \in Agent, c \in Request : Release(a, c)

\* Only the worker's loop is fair: an agent need not ask for anything, and
\* the worker logs a failed UPDATE and comes back.
Spec == Init /\ [][Next]_vars /\ WF_vars(Sweep)
-----------------------------------------------------------------------------
(* Every variable has its type, and a request has a row from the step that  *)
(* inserts it and not before.                                               *)
TypeOK ==
    /\ now \in 0..Horizon /\ swept \in 0..Horizon
    /\ atoms \subseteq Atom /\ retracted \subseteq Atom
    /\ row \in [Request -> {"none", "active", "ended"}]
    /\ until \in [Request -> Int]
    /\ born \in [Request -> 0..Horizon]
    /\ at \in [Request -> Step]
    /\ cutoff \in [Request -> 0..Horizon]
    /\ counted \in [Request -> SUBSET Request]
    /\ pool \in [Request -> Seq(Atom)] /\ served \in [Request -> Seq(Atom)]
    /\ slips \in [Request -> Nat]
    /\ crashes \in 0..MaxFailures /\ faults \in 0..MaxFailures
    /\ \A r \in Request :
        /\ at[r] \in {"unsent", "verified", "fresh", "published", "checked"} => row[r] = "none"
        /\ at[r] = "claimed" => row[r] # "none"

(* Whatever an answer counts, claim or survey, is a claim that the expiry   *)
(* it rests on kept, or one inserted since, be it by a request that took    *)
(* longer than its own time to live or that asked for a negative one.       *)
CountsFresh ==
    \A r \in Request : at[r] = "done" =>
        \A c \in counted[r] : until[c] >= cutoff[r] \/ born[c] >= cutoff[r]

(* A hypothesis published for a direction that nobody holds comes from a    *)
(* request cut short: one failed call or one process death for each.        *)
Orphan(r) == Kind[r] = "direction" /\ On[r] \in atoms /\ row[r] = "none" /\ ~InFlight(r)

OrphansFromFailures ==
    /\ Cardinality({r \in Request : Orphan(r) /\ at[r] # "gone"}) <= faults
    /\ crashes = 0 => \A r \in Request : Orphan(r) => at[r] # "gone"

(* A survey serves distinct atoms, as many as it was asked for and could    *)
(* find, less one for each draw that slipped past the last candidate.       *)
SurveyServes ==
    \A r \in Request : Kind[r] = "survey" =>
        /\ \A i, j \in DOMAIN served[r] : i # j => served[r][i] # served[r][j]
        /\ \A i \in DOMAIN served[r], j \in DOMAIN pool[r] : served[r][i] # pool[r][j]
        /\ at[r] = "done" => Len(served[r]) + slips[r] = Limit \/ pool[r] = <<>>

(* A claim past its time is ended although no agent ever claims again.      *)
EventuallyEnded ==
    \A c \in Request : (row[c] = "active" /\ until[c] < now) ~> row[c] = "ended"
=============================================================================
