------------------------------- MODULE BulkLoad -------------------------------
(***************************************************************************)
(* The bulk load of one session: ingest_session_csv_zip walks the files of *)
(* an Open States session zip, section by section, and writes what is not  *)
(* there yet.  It commits at the end of a section and after every chunk of *)
(* PROGRESS_CHUNK rows, so that a process that dies, or an error, leaves a *)
(* prefix of the load behind: the next load has to complete it.  Nothing   *)
(* keeps two loads of the session apart, and beside them the API sync      *)
(* writes its bills, under the same natural keys.                          *)
(*                                                                         *)
(* A child row is its natural key: the table, the bill, and a fact that    *)
(* stands for the rest of the key.  Bills, subjects and organizations have *)
(* a unique constraint, which fails the later of two writers that overlap. *)
(* Nothing else has, and they store one key twice: that is followed for    *)
(* votes, which are counted, and for no other rows.                        *)
(* Organizations are rows without a bill.  What a bill derives from its    *)
(* actions, and what a vote's row says, are not kept.                      *)
(***************************************************************************)
EXTENDS Integers, FiniteSets, Sequences

CONSTANTS
    Loaders,     \* processes that may load: crawl workers, which boot, and operators
    Bills,       \* identifiers (identifier_norm) of the session's bills
    Votes,       \* upstream ids of its vote events
    BillOf,      \* the bill of a vote
    Zips,        \* the exports of the session, as a sequence
    Payloads,    \* the rows a bill's API payload may hold, one set per payload
    NoBill,      \* the bill of an organization: a value of its own
    MaxMishaps   \* bound: crashes, errors, bills the API sync writes and loads by
                 \* an operator, together

Absent == 0
ByApi == 1   \* the checksum of an API payload is none of a zip's

Tables == {"organizations", "subjects", "identifiers", "sources", "related",
           "companions", "sponsorships", "actions", "versions", "links",
           "placeholder", "orphans", "records"}

\* A zip: the checksum of each bill it lists, its child rows, and its votes.  One
\* without a bill is refused with a warning, and rows of a bill, a version or a
\* vote it does not list are skipped: there are none here.
ASSUME BulkAssumption ==
    /\ BillOf \in [Votes -> Bills]
    /\ \A n \in DOMAIN Zips :
           /\ DOMAIN Zips[n].bills \in SUBSET Bills \ {{}}
           /\ \A b \in DOMAIN Zips[n].bills : Zips[n].bills[b] \in Nat \ {Absent, ByApi}
           /\ Zips[n].votes \subseteq {v \in Votes : BillOf[v] \in DOMAIN Zips[n].bills}
           /\ \A r \in Zips[n].rows :
                  /\ r = [table |-> r.table, bill |-> r.bill, fact |-> r.fact]
                  /\ r.table \in Tables \ {"companions", "placeholder"}
                  /\ IF r.table = "organizations" THEN r.bill = NoBill
                     ELSE r.bill \in DOMAIN Zips[n].bills
                  /\ r.table = "links" => [r EXCEPT !.table = "versions"] \in Zips[n].rows
                  /\ r.table = "records" => r.fact \in Zips[n].votes
    /\ MaxMishaps \in Nat

VARIABLES
    bills,     \* per identifier: the bill's checksum, Absent if there is no row
    rows,      \* the child rows stored
    votes,     \* per vote: the rows stored of it
    told,      \* per vote: the VOTES events recorded of it
    stray,     \* votes whose event an unreadable row had committed without them
    load,      \* per loader: its load in progress
    raced,     \* history: votes that were not stored when two loads were in the
               \* votes of the session at once
    complete,  \* the exports a load of which returned success
    mishaps

bulkVars == <<bills, rows, votes, told, stray, load, raced, complete, mishaps>>

Sections == <<"organizations", "bills", "subjects", "details", "sponsorships",
              "actions", "versions", "documents", "votes">>

\* `left` is what is left of the section's file, `known` the bills and `seen` the
\* votes as preloaded, `touched` bill_by_openstates_id.
NoLoad == [at |-> 0, zip |-> 1, left |-> {}, known |-> [b \in Bills |-> Absent],
           touched |-> {}, seen |-> {}]

Checksums == {Absent, ByApi} \cup UNION {{Zips[n].bills[b] : b \in DOMAIN Zips[n].bills} :
                                           n \in DOMAIN Zips}
AllRows == UNION {Zips[n].rows : n \in DOMAIN Zips} \cup UNION Payloads
           \cup [table : {"placeholder"}, bill : Bills, fact : {0}]
           \cup [table : {"companions"}, bill : Bills, fact : Bills]

BulkTypeOK ==
    /\ bills \in [Bills -> Checksums]
    /\ rows \subseteq AllRows
    /\ votes \in [Votes -> Nat] /\ told \in [Votes -> Nat]
    /\ stray \subseteq Votes
    /\ load \in [Loaders -> [at : 0..Len(Sections), zip : DOMAIN Zips,
                            left : SUBSET (Bills \cup Votes \cup AllRows),
                            known : [Bills -> Checksums], touched : SUBSET Bills,
                            seen : SUBSET Votes]]
    /\ raced \subseteq Votes
    /\ complete \subseteq DOMAIN Zips
    /\ mishaps \in 0..MaxMishaps

BulkInit ==
    /\ bills = [b \in Bills |-> Absent] /\ rows = {}
    /\ votes = [v \in Votes |-> 0] /\ told = [v \in Votes |-> 0]
    /\ stray = {} /\ load = [l \in Loaders |-> NoLoad] /\ raced = {}
    /\ complete = {} /\ mishaps = 0

Mishap == mishaps < MaxMishaps /\ mishaps' = mishaps + 1

Export(l) == Zips[load[l].zip]
Loading(l) == load[l].at # 0
In(l, section) == Loading(l) /\ Sections[load[l].at] = section
InZip(l, tables, touched) ==
    {r \in Export(l).rows : r.table \in tables /\ (r.bill = NoBill \/ r.bill \in touched)}

\* The rows of the file a section goes through.  A row of a bill that is not in
\* bill_by_openstates_id is skipped.
File(l, section, touched) ==
    CASE section = "bills" -> DOMAIN Export(l).bills
      [] section = "votes" -> {v \in Export(l).votes : BillOf[v] \in touched}
      [] section = "documents" -> InZip(l, {"orphans"}, touched)
      [] section = "details" -> InZip(l, {"identifiers", "sources", "related"}, touched)
      [] OTHER -> InZip(l, {section}, touched)

\* What a section has to load: subjects that are stored when it begins are skipped,
\* as organizations are, and their constraint is unique.
ToLoad(l, section, touched) ==
    IF section = "subjects" THEN File(l, section, touched) \ rows ELSE File(l, section, touched)

\* The next chunk, for a section that commits as it goes: any rows of what is
\* left, and nothing when the file has none.
Chunks(l) == IF load[l].left = {} THEN {{}} ELSE SUBSET load[l].left \ {{}}

StoredVotes == {v \in Votes : votes[v] > 0}

\* Past chunk, and past the section when nothing is left: the next one preloads
\* what is stored by then.
Past(l, chunk, touched) ==
    LET left == load[l].left \ chunk
        at == IF left = {} THEN load[l].at + 1 ELSE load[l].at
        Enters(section) == at # load[l].at /\ Sections[at] = section
    IN IF at > Len(Sections)
       THEN NoLoad
       ELSE [at |-> at, zip |-> load[l].zip, touched |-> touched,
             left |-> IF at = load[l].at THEN left ELSE ToLoad(l, Sections[at], touched),
             known |-> IF Enters("bills") THEN bills ELSE load[l].known,
             seen |-> IF Enters("votes") THEN StoredVotes ELSE load[l].seen]

\* l goes on to s, in the votes perhaps, and another load may be there already.
GoesTo(l, s) ==
    /\ load' = [load EXCEPT ![l] = s]
    /\ raced' = IF s.at = Len(Sections) /\ \E o \in Loaders \ {l} : In(o, "votes")
                THEN raced \cup (Votes \ StoredVotes) ELSE raced
Ends(l) == GoesTo(l, NoLoad)

\* cmd_bootstrap: the session is resolved, the zip is read, organizations first.
\* It takes no lock, whoever else is loading.
Begin(l, n) ==
    /\ ~Loading(l)
    /\ GoesTo(l, [NoLoad EXCEPT !.at = 1, !.zip = n,
                                !.left = {r \in Zips[n].rows : r.table = "organizations"} \ rows])
    /\ UNCHANGED <<bills, rows, votes, told, stray, complete>>

\* Bills the chunk inserts, and those whose checksum it finds changed.
Missing(l, chunk) == {b \in chunk : load[l].known[b] = Absent}
Changed(l, chunk) == {b \in chunk \ Missing(l, chunk) : load[l].known[b] # Export(l).bills[b]}

\* Mutant: bills of an unchanged checksum are skipped with their children.
ChangedOnly(l, chunk) == load[l].touched \cup Missing(l, chunk) \cup Changed(l, chunk)

\* bill_by_openstates_id takes unchanged bills too: their children may differ.
Touched(l, chunk) == load[l].touched \cup chunk

\* A chunk of _bills.csv.  bills(session_id, identifier_norm) is unique, so that
\* a bill the API sync or another load inserted since the preload fails the load.
LoadBills(l) ==
    /\ In(l, "bills")
    /\ \E chunk \in Chunks(l) :
           /\ \A b \in Missing(l, chunk) : bills[b] = Absent
           /\ bills' = [b \in Bills |-> IF b \in Missing(l, chunk) \cup Changed(l, chunk)
                                        THEN Export(l).bills[b] ELSE bills[b]]
           /\ GoesTo(l, Past(l, chunk, Touched(l, chunk)))
    /\ UNCHANGED <<rows, votes, told, stray, complete, mishaps>>

\* A chunk of the rows of one table.
LoadChunk(l) ==
    /\ \E chunk \in Chunks(l) :
           rows' = rows \cup chunk /\ GoesTo(l, Past(l, chunk, load[l].touched))
    /\ UNCHANGED <<bills, votes, told, stray, complete, mishaps>>

\* The rows of a section that commits once, at its end.  One that another load has
\* stored since this one looked fails the load.
LoadAll(l) ==
    /\ load[l].left \cap rows = {}
    /\ rows' = rows \cup load[l].left
    /\ GoesTo(l, Past(l, load[l].left, load[l].touched))
    /\ UNCHANGED <<bills, votes, told, stray, complete, mishaps>>

\* Every organization of the zip, and the subjects, which come in the bills' file.
LoadOrganizations(l) == In(l, "organizations") /\ LoadAll(l)
LoadSubjects(l) == In(l, "subjects") /\ LoadAll(l)

\* _bill_sponsorships.csv and _bill_actions.csv.
LoadSponsorships(l) == In(l, "sponsorships") /\ LoadChunk(l)
LoadActions(l) == In(l, "actions") /\ LoadChunk(l)

\* The companion links whose target is a bill of the session by now, of this
\* load or left dangling by an earlier one.
Companions(stored) ==
    {[table |-> "companions", bill |-> r.bill, fact |-> r.fact] :
         r \in {s \in stored : s.table = "related" /\ s.fact \in Bills
                               /\ bills[s.fact] # Absent}}

\* Abstracts, alternate identifiers, sources and related bills are flushed, and
\* committed with the UPDATE that resolves companions.
LoadDetails(l) ==
    /\ In(l, "details")
    /\ rows' = LET stored == rows \cup load[l].left IN stored \cup Companions(stored)
    /\ GoesTo(l, Past(l, load[l].left, load[l].touched))
    /\ UNCHANGED <<bills, votes, told, stray, complete, mishaps>>

\* A chunk of versions, each with its links as documents, parents first.
LoadVersions(l) ==
    /\ In(l, "versions")
    /\ \E chunk \in Chunks(l) :
           /\ rows' = rows \cup chunk
                      \cup {r \in InZip(l, {"links"}, load[l].touched) :
                                [r EXCEPT !.table = "versions"] \in chunk}
           /\ GoesTo(l, Past(l, chunk, load[l].touched))
    /\ UNCHANGED <<bills, votes, told, stray, complete, mishaps>>

\* Documents without a version go under one placeholder version of their bill.
Placeholders(documents) ==
    {[table |-> "placeholder", bill |-> r.bill, fact |-> 0] : r \in documents}

LoadDocuments(l) ==
    /\ In(l, "documents")
    /\ \E chunk \in Chunks(l) : /\ rows' = rows \cup Placeholders(chunk) \cup chunk
                                /\ GoesTo(l, Past(l, chunk, load[l].touched))
    /\ UNCHANGED <<bills, votes, told, stray, complete, mishaps>>

\* Mutant: vote rows are buffered to the end of the file, past the commits that
\* bring their events.
AtTheEnd(l, chunk) == IF chunk = load[l].left THEN Export(l).votes ELSE {}

\* The vote rows a chunk flushes: those it went through, before it commits.
Flushed(l, chunk) == chunk

\* The votes of a chunk that the preload of the section did not find.
Unseen(l, chunk) == chunk \ load[l].seen
OneMore(count, some) == [v \in Votes |-> IF v \in some THEN count[v] + 1 ELSE count[v]]

\* A chunk of _votes.csv.  A vote that is new to the load is inserted and announced,
\* in one transaction; one it has seen is updated in place when it differs.
\* Votes of (voter, option) are only ever added.
LoadVotes(l) ==
    /\ In(l, "votes")
    /\ \E chunk \in Chunks(l) :
           /\ votes' = OneMore(votes, Unseen(l, Flushed(l, chunk)))
           /\ told' = OneMore(told, Unseen(l, chunk))
           /\ rows' = rows \cup {r \in Export(l).rows :
                                   r.table = "records" /\ r.fact \in Flushed(l, chunk)}
           /\ GoesTo(l, Past(l, chunk, load[l].touched))
    /\ complete' = IF load'[l] = NoLoad THEN complete \cup {load[l].zip} ELSE complete
    /\ UNCHANGED <<bills, stray, mishaps>>

\* An error, or what another writer has stored under a unique key, rolls the open
\* chunk back and fails the run; what the chunks before it committed stays.
Conflict(l) ==
    \/ In(l, "bills") /\ \E b \in Missing(l, load[l].left) : bills[b] # Absent
    \/ (In(l, "organizations") \/ In(l, "subjects")) /\ load[l].left \cap rows # {}

LoadFails(l) ==
    /\ Loading(l)
    /\ \/ Mishap
       \/ Conflict(l) /\ UNCHANGED mishaps
    /\ Ends(l)
    /\ UNCHANGED <<bills, rows, votes, told, stray, complete>>

\* The tables of the details that may be flushed when a later one breaks.
Earlier == {{}, {"identifiers"}, {"identifiers", "sources"}}

\* A row that cannot be read breaks the open chunk.  cmd_bootstrap commits the
\* run as failed, and with it what the session holds of the chunk: bills
\* overwritten in place, rows already flushed, and the events of votes whose own
\* rows are in a buffer nobody flushes any more.
LoadBreaks(l) ==
    /\ Loading(l) /\ Mishap
    /\ \E part \in SUBSET load[l].left, flushed \in Earlier :
           /\ bills' = [b \in Bills |-> IF In(l, "bills") /\ b \in Changed(l, part)
                                        THEN Export(l).bills[b] ELSE bills[b]]
           /\ rows' = IF In(l, "details") THEN rows \cup {r \in load[l].left : r.table \in flushed}
                      ELSE rows
           /\ told' = IF In(l, "votes") THEN OneMore(told, Unseen(l, part)) ELSE told
           /\ stray' = IF In(l, "votes") THEN stray \cup Unseen(l, part) ELSE stray
    /\ Ends(l)
    /\ UNCHANGED <<votes, complete>>

\* Documents of the API payload without a version go under the same placeholder.
UpsertVersions(payload) ==
    LET documents == {r \in payload : r.table = "orphans"}
    IN {r \in payload : r.table \in {"versions", "links"}} \cup documents \cup Placeholders(documents)
UpsertActions(payload) == {r \in payload : r.table = "actions"}
UpsertSponsorships(payload) == {r \in payload : r.table = "sponsorships"}

\* The API sync commits a page with bill b in it: it inserts the bill or writes
\* over it, and adds what is missing of its children.
SyncBill(b) ==
    /\ Mishap
    /\ bills' = [bills EXCEPT ![b] = ByApi]
    /\ \E payload \in {p \in Payloads : \A r \in p : r.bill = b} :
           rows' = rows \cup UpsertVersions(payload) \cup UpsertActions(payload)
                        \cup UpsertSponsorships(payload)
    /\ UNCHANGED <<votes, told, stray, load, raced, complete>>

LoadStep(l) ==
    \/ LoadOrganizations(l) \/ LoadBills(l) \/ LoadSubjects(l) \/ LoadDetails(l)
    \/ LoadSponsorships(l) \/ LoadActions(l) \/ LoadVersions(l) \/ LoadDocuments(l)
    \/ LoadVotes(l)

-----------------------------------------------------------------------------
(* Properties.                                                             *)

\* Once a load has returned success, everything its zip holds is stored,
\* whatever earlier loads of any export left half done and whatever loads ran
\* beside it: an unchanged bill is no reason to believe its children are there.
LoadedWhole ==
    \A n \in complete :
        /\ \A b \in DOMAIN Zips[n].bills : bills[b] # Absent
        /\ Zips[n].votes \subseteq StoredVotes
        /\ Zips[n].rows \subseteq rows
        /\ \A r \in Zips[n].rows : r.table = "related" /\ r.fact \in DOMAIN Zips[n].bills =>
               [r EXCEPT !.table = "companions"] \in rows

\* Every row of a vote is announced with it, and a vote gets one row: no crash
\* between two commits, no second load and no corrected export announces it again,
\* and none is stored in silence.  A load that broke on an unreadable row is an
\* exception.  Two loads at once double a vote only if neither found it when the
\* later of them came to the votes; elsewhere they may overlap as they like.
VotesAnnouncedOnce ==
    \A v \in Votes \ stray : told[v] = votes[v] /\ (votes[v] <= 1 \/ v \in raced)

\* What the comment in the loop over _votes.csv says of a re-run of the zip, and
\* what two loads at once do not keep.
ReRunsAreSilent == \A v \in Votes \ stray : told[v] <= 1
=============================================================================
