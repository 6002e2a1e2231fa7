------------------------------ MODULE BillStatus ------------------------------
(***************************************************************************)
(* bills.status of the bills of one session: derived from each bill's      *)
(* actions, from the fate of the session, and, for a bill that was         *)
(* substituted, from its survivor.  Three callers derive it: the sync      *)
(* worker for what a sync touched, its sweep for what the calendar ended,  *)
(* and the operator's recompute-status, chunk by chunk over everything.    *)
(* Each is one transaction and one step here; two at once are SyncWorker's *)
(* matter.                                                                 *)
(***************************************************************************)
EXTENDS Integers, FiniteSets, FiniteSetsExt, Sequences, SequencesExt

CONSTANTS
    Measures,     \* bill ids, naturals: recompute-status walks them in order
    Idents,       \* identifiers, as normalize_bill_number gives them
    Ident,        \* per bill: identifier_norm, another for each
    Stripped,     \* per identifier: it without a print suffix
    Actions,      \* what upstream may record of a bill
    ChunkSize,    \* args.chunk
    SweepBatch,   \* ADJOURNMENT_SWEEP_BATCH
    MaxChanges    \* bound: changes from upstream

None == "none"
Terminal == {"enacted", "vetoed", "dead", "withdrawn", "died_on_adjournment"}
Live == {"introduced", "in_committee", "substituted", "passed_one_chamber", "passed_both"}
Statuses == Terminal \cup Live \cup {"enrolled"}

\* _RANK
StatusRank == [introduced |-> 1, in_committee |-> 2, substituted |-> 3, passed_one_chamber |-> 4,
               passed_both |-> 5, enrolled |-> 6, died_on_adjournment |-> 7, withdrawn |-> 8,
               dead |-> 9, vetoed |-> 10, enacted |-> 11]

\* What status_for_action says of an action, whether it is forward motion
\* (_PROGRESS_CLASSIFICATIONS, or a passage), and the chamber that passed the bill.
ActionKinds == {"introduction", "referral", "passage_lower", "passage_upper",
             "enrollment", "signature", "veto", "death", "withdrawal", "substitution"}
Implies(kind) ==
    CASE kind = "introduction" -> "introduced"
      [] kind = "referral" -> "in_committee"
      [] kind \in {"passage_lower", "passage_upper"} -> "passed_one_chamber"
      [] kind = "enrollment" -> "enrolled"
      [] kind = "signature" -> "enacted"
      [] kind = "veto" -> "vetoed"
      [] kind = "death" -> "dead"
      [] kind = "withdrawal" -> "withdrawn"
      [] kind = "substitution" -> "substituted"
Passages == {"passage_lower", "passage_upper"}
Progress == Passages \cup {"referral"}

Procedure == [kind : ActionKinds \ {"substitution"}, date : Nat]
Substitution == [kind : {"substitution"}, date : Nat, by : Idents]
Rows == [ident : Idents, to : Measures \cup {0}]   \* a related_bills row; 0 for NULL

ASSUME StatusAssumption ==
    /\ Measures \subseteq Nat \ {0} /\ IsFiniteSet(Measures)
    /\ Ident \in [Measures -> Idents] /\ Stripped \in [Idents -> Idents]
    /\ \A b, c \in Measures : Ident[b] = Ident[c] => b = c
    /\ IsFiniteSet(Actions)
    /\ \A a \in Actions : a \in IF a.kind = "substitution" THEN Substitution ELSE Procedure
    /\ ChunkSize \in Nat \ {0} /\ SweepBatch \in Nat \ {0} /\ MaxChanges \in Nat

VARIABLES
    known,     \* bills that are in the database
    actions,   \* bill_actions, per bill
    related,   \* related_bills of type substituted-by, per bill, oldest first
    status,    \* bills.status
    pending,   \* pending_status_bills and what the syncs touched since
    phase,     \* of the session: sitting, silent past its date, over
    step,      \* where the sync worker's cycle is
    pass,      \* recompute-status: the last id it has done, or -1
    passes,    \* its whole passes since anything else changed, up to two; -1 if that
               \* was in this pass
    changes

statusVars == <<known, actions, related, status, pending, phase, step, pass, passes, changes>>

StatusTypeOK ==
    /\ known \in SUBSET Measures
    /\ actions \in [Measures -> SUBSET Actions]
    /\ related \in [Measures -> Seq(Rows)]
    /\ status \in [Measures -> Statuses \cup {None}]
    /\ pending \in SUBSET known
    /\ phase \in {"sitting", "silent", "over"}
    /\ step \in {"derive", "sweep"}
    /\ pass \in Measures \cup {-1, 0} /\ passes \in -1..2
    /\ changes \in 0..MaxChanges

StatusInit ==
    /\ known = {} /\ actions = [b \in Measures |-> {}] /\ related = [b \in Measures |-> <<>>]
    /\ status = [b \in Measures |-> None] /\ pending = {}
    /\ phase = "sitting" /\ step = "derive" /\ pass = -1 /\ passes = 0 /\ changes = 0

-----------------------------------------------------------------------------
(* status.py                                                               *)

\* The winner: the latest, and of one date the highest rank.
Winner(acts) ==
    CHOOSE a \in acts : \A o \in acts :
        o.date < a.date \/ (o.date = a.date /\ StatusRank[Implies(o.kind)] <= StatusRank[Implies(a.kind)])

MovedOnAfter(acts, a) == \E p \in acts : p.kind \in Progress /\ p.date > a.date

\* Mutant: later progress undoes any outcome.
AnyOutcome(acts, a) == Implies(a.kind) \in Terminal /\ MovedOnAfter(acts, a)

\* A death that the record itself contradicts: year one of a carryover session.
StaleDeath(acts, a) == Implies(a.kind) = "dead" /\ MovedOnAfter(acts, a)

\* derive_status: an outcome stands over any procedure.
Derived(acts) ==
    LET standing == {a \in acts : ~StaleDeath(acts, a)}
        outcomes == {a \in standing : Implies(a.kind) \in Terminal}
        pool == IF outcomes # {} THEN outcomes ELSE standing
        said == Implies(Winner(pool).kind)
    IN IF pool = {} THEN None
       ELSE IF said = "passed_one_chamber" /\ Passages \subseteq {a.kind : a \in acts} THEN "passed_both"
       ELSE said

\* apply_session_outcome
SessionOutcome(said) ==
    IF said \notin Live \cup {None} \/ phase = "sitting" THEN said
    ELSE IF phase = "over" THEN "died_on_adjournment"
    ELSE None

Own(b) == SessionOutcome(Derived(actions[b]))

\* substitution_target of the latest action that has one: None, or an identifier.
Substitutions(b) == {a \in actions[b] : a.kind = "substitution"}
TextTarget(b) ==
    IF Substitutions(b) = {} THEN None
    ELSE (CHOOSE a \in Substitutions(b) : \A o \in Substitutions(b) : o.date <= a.date).by

-----------------------------------------------------------------------------
(* recompute_status_for_bills: who is the survivor.                        *)

\* A stored row that is resolved, unless the text now names another.
StoredSurvivor(b) ==
    LET resolved == {i \in DOMAIN related[b] : /\ related[b][i].to # 0
                                               /\ TextTarget(b) \in {None, related[b][i].ident}}
    IN IF resolved = {} THEN 0 ELSE related[b][Max(resolved)].to

\* What else to look up: the text's target, or the newest unresolved row's.
LookedUp(b) ==
    LET open == {i \in DOMAIN related[b] : related[b][i].to = 0}
    IN IF TextTarget(b) # None THEN TextTarget(b)
       ELSE IF open = {} THEN None ELSE related[b][Max(open)].ident

Candidates(ident) == IF Stripped[ident] = ident THEN <<ident>> ELSE <<ident, Stripped[ident]>>

Named(b, some, ident) == {o \in some \ {b} : Ident[o] = ident}
AtRank(b, chunk, ident) ==
    IF Named(b, chunk, ident) # {} THEN Named(b, chunk, ident) ELSE Named(b, known, ident)

\* Mutant: every candidate is looked for in the chunk before any in the database.
ChunkFirst(b, chunk) ==
    LET c == Candidates(LookedUp(b))
        found == {i \in DOMAIN c : Named(b, chunk, c[i]) # {}} IN
    IF found # {} THEN Named(b, chunk, c[Min(found)])
    ELSE UNION {Named(b, known, c[i]) : i \in {j \in DOMAIN c : \A k \in 1..(j - 1) : Named(b, known, c[k]) = {}}}

\* Candidate by candidate, each in the chunk and then in the database.
RankByRank(b, chunk) ==
    LET c == Candidates(LookedUp(b))
        found == {i \in DOMAIN c : AtRank(b, chunk, c[i]) # {}} IN
    IF found = {} THEN {} ELSE AtRank(b, chunk, c[Min(found)])

\* The bill that b's status defers to, or 0.
Survivor(b, chunk) ==
    IF StoredSurvivor(b) # 0 THEN StoredSurvivor(b)
    ELSE IF LookedUp(b) = None \/ RankByRank(b, chunk) = {} THEN 0
    ELSE CHOOSE s \in RankByRank(b, chunk) : TRUE

-----------------------------------------------------------------------------
(* recompute_status_for_bills: what it writes.                             *)

\* Mutant: a survivor that still moves is inherited from too.
AnyStatus(s) == s # None

Outcome(s) == s \in Terminal

\* Pass 2 goes through the substituted bills in this order: those with a stored
\* row, then those looked up, rank by rank, in the chunk before in the database.
Turn(b, chunk) ==
    LET c == Candidates(LookedUp(b))
        rank == Min({i \in DOMAIN c : AtRank(b, chunk, c[i]) # {}})
        far == IF Named(b, chunk, c[rank]) = {} THEN 1 ELSE 0
        most == Max(Measures) + 1 IN
    IF StoredSurvivor(b) # 0 THEN b ELSE most * (2 * rank + far) + b

\* What b reads of its survivor: in the chunk as derived so far, elsewhere as stored.
Inherited(new, b, chunk) ==
    LET s == Survivor(b, chunk) IN
    IF s \notin chunk THEN status[s]
    ELSE IF Survivor(s, chunk) # 0 /\ Turn(s, chunk) < Turn(b, chunk) THEN new[s]
    ELSE Own(s)

\* Both passes, over one chunk.
NewStatus(chunk) ==
    LET new[b \in chunk] ==
            LET read == Inherited(new, b, chunk) IN
            IF Survivor(b, chunk) = 0 THEN Own(b) ELSE IF Outcome(read) THEN read ELSE "substituted"
    IN new

\* Of the rows for the text's target the newest that is resolved is kept, or
\* else the oldest, and is resolved if it can be; all others go.
Kept(b) ==
    LET same == {i \in DOMAIN related[b] : related[b][i].ident = TextTarget(b)}
        resolved == {i \in same : related[b][i].to # 0} IN
    IF resolved # {} THEN related[b][Max(resolved)]
    ELSE IF same # {} THEN related[b][Min(same)] ELSE [ident |-> TextTarget(b), to |-> 0]

\* Mutant: stale rows stay beside the one for the text's target.
RowsPile(b, chunk) ==
    IF TextTarget(b) = None \/ \E i \in DOMAIN related[b] : related[b][i].ident = TextTarget(b)
    THEN related[b]
    ELSE Append(related[b], [ident |-> TextTarget(b), to |-> Survivor(b, chunk)])

NewRelated(b, chunk) ==
    IF TextTarget(b) = None THEN related[b]
    ELSE <<IF Kept(b).to # 0 THEN Kept(b) ELSE [Kept(b) EXCEPT !.to = Survivor(b, chunk)]>>

Recompute(chunk) ==
    /\ status' = LET new == NewStatus(chunk) IN
                 [b \in Measures |-> IF b \in chunk THEN new[b] ELSE status[b]]
    /\ related' = [b \in Measures |-> IF b \in chunk THEN NewRelated(b, chunk) ELSE related[b]]

-----------------------------------------------------------------------------
(* Upstream, the importer and the calendar.                                *)

\* No pass that began before this one counts.
StartOver == passes' = IF pass = -1 THEN 0 ELSE -1
Upstream == changes < MaxChanges /\ changes' = changes + 1 /\ StartOver

\* A sync writes a bill and an action of it; of one date, it has one target,
\* and not itself.
Sync(b, a) ==
    /\ Upstream
    /\ a \notin actions[b] /\ (a.kind = "substitution" => a.by # Ident[b])
    /\ a.kind = "substitution" => \A o \in Substitutions(b) : o.date # a.date
    /\ known' = known \cup {b}
    /\ actions' = [actions EXCEPT ![b] = @ \cup {a}]
    /\ pending' = pending \cup {b}
    /\ UNCHANGED <<related, status, phase, step, pass>>

\* The bulk importer adds the relation that upstream's file has, unresolved.
Import(b, ident) ==
    /\ Upstream
    /\ b \in known /\ ident # Ident[b] /\ \A i \in DOMAIN related[b] : related[b][i].ident # ident
    /\ related' = [related EXCEPT ![b] = Append(@, [ident |-> ident, to |-> 0])]
    /\ UNCHANGED <<known, actions, status, pending, phase, step, pass>>

\* The source stops to call it active, and its end date passes if it has one.
SessionEnds ==
    /\ StartOver
    /\ phase = "sitting" /\ phase' \in {"silent", "over"}
    /\ UNCHANGED <<known, actions, related, status, pending, step, pass, changes>>

\* cmd_sync_worker, step 3a: a session without an end date is given one.
DateFilled ==
    /\ StartOver
    /\ phase = "silent" /\ phase' = "over"
    /\ UNCHANGED <<known, actions, related, status, pending, step, pass, changes>>

-----------------------------------------------------------------------------
(* Who recomputes.                                                         *)

Rewritten == <<status', related'>> # <<status, related>>
NoteChange == IF Rewritten THEN StartOver ELSE passes' = passes

\* cmd_sync_worker, step 3.
DeriveTouched ==
    /\ step = "derive" /\ step' = "sweep"
    /\ IF pending = {} THEN UNCHANGED <<status, related>> ELSE Recompute(pending)
    /\ pending' = {}
    /\ NoteChange
    /\ UNCHANGED <<known, actions, phase, pass, changes>>

\* Mutant: only bills that have a status.
LiveOnly == {b \in known : phase = "over" /\ status[b] \in Live}

\* Bills whose session has ended and whose status does not say so.
Overdue == {b \in known : phase = "over" /\ status[b] \in Live \cup {None}}

\* cmd_sync_worker, step 3b; which of them a LIMIT returns is the planner's choice.
Sweep ==
    /\ step = "sweep" /\ step' = "derive"
    /\ \E some \in SUBSET Overdue :
        /\ Cardinality(some) = Min({SweepBatch, Cardinality(Overdue)})
        /\ IF some = {} THEN UNCHANGED <<status, related>> ELSE Recompute(some)
    /\ NoteChange
    /\ UNCHANGED <<known, actions, pending, phase, pass, changes>>

StartPass ==
    /\ pass = -1 /\ pass' = 0 /\ passes < 2
    /\ UNCHANGED <<known, actions, related, status, pending, phase, step, passes, changes>>

Ahead == {b \in known : b > pass}
\* cmd_recompute_status: the next chunk, by id.
PassChunk ==
    /\ pass >= 0
    /\ IF Ahead = {}
       THEN /\ pass' = -1
            /\ passes' = passes + 1
            /\ UNCHANGED <<related, status>>
       ELSE LET chunk == {b \in Ahead : Cardinality({o \in Ahead : o < b}) < ChunkSize} IN
            /\ Recompute(chunk)
            /\ pass' = Max(chunk)
            /\ passes' = passes
    /\ UNCHANGED <<known, actions, pending, phase, step, changes>>

StatusNext ==
    \/ \E b \in Measures, a \in Actions : Sync(b, a)
    \/ \E b \in Measures, ident \in Idents : Import(b, ident)
    \/ SessionEnds \/ DateFilled
    \/ DeriveTouched \/ Sweep \/ StartPass \/ PassChunk

\* The worker's cycle goes on for ever, by DeriveTouched and Sweep; the operator
\* need not.
CycleGoesOn == step' = IF step = "derive" THEN "sweep" ELSE "derive"
StatusSpec == StatusInit /\ [][StatusNext]_statusVars /\ WF_step(CycleGoesOn)

-----------------------------------------------------------------------------
(* Properties.                                                             *)

\* Which bill a substituted print defers to does not depend on what else is
\* derived with it: a survivor that has the named identifier exactly is found
\* before one that has it without its suffix, wherever either is.
ChunkBlind ==
    \A chunk \in SUBSET known : \A b \in chunk : Survivor(b, chunk) = Survivor(b, {b})

\* recompute-status converges in two passes over everything, whatever syncs and
\* sweeps left behind: every status then says what its bill's record and session
\* say, or what its survivor's status says.  Survivors that were themselves
\* substituted are left out: their order within a chunk decides.
TwoPassesSettle ==
    passes = 2 => \A b \in known :
        LET s == Survivor(b, {b}) IN
        IF s = 0 THEN status[b] = Own(b)
        ELSE Survivor(s, {s}) = 0 =>
                 status[b] = (IF status[s] \in Terminal THEN status[s] ELSE "substituted")

\* After one pass the stored relations are those of the text: one row, for its
\* target, resolved if the target is there, whatever was stored before.
RowsFollowText ==
    passes >= 1 => \A b \in known :
        TextTarget(b) # None =>
            related[b] = <<[ident |-> TextTarget(b), to |-> Survivor(b, {b})]>>

\* An action never takes an outcome back, except a death that later progress
\* contradicts: what was enacted, vetoed or withdrawn stays decided.
OutcomesStand ==
    [][\A b \in Measures :
          Derived(actions[b]) \in Terminal \ {"dead"} => Derived(actions'[b]) \in Terminal]_statusVars

\* Bills without an end, and of them the substituted prints that a sweep takes
\* and leaves as they are: their survivor has no outcome.
Endless == {b \in known : status[b] \in Live \cup {None}}
Stuck == {b \in Endless : LET s == Survivor(b, {b}) IN s # 0 /\ status[s] \notin Terminal}

\* When a session is over, the calendar reaches every bill in the end, though no
\* sync touches it and a sweep takes no more than its batch of those it finds:
\* what is left with a live status, or none, is such a print.  Only a whole batch
\* of such prints may be taken every time, and hold up the others.
CalendarReaches ==
    <>[](phase = "over" /\ Cardinality(Stuck) < SweepBatch) => <>[](Endless \subseteq Stuck)

\* What the comments at the sweep say of it: that it finds nothing on most nights,
\* which such prints make false, and that the next cycle picks up what a batch has
\* left, which a whole batch of them makes false.
SweepRunsDry == <>[](phase = "over") => <>[](Endless = {})
SweepGetsToAll == <>[](phase = "over") => <>[](Endless \subseteq Stuck)

=============================================================================
