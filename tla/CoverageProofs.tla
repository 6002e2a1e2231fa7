---------------------------- MODULE CoverageProofs ----------------------------
(***************************************************************************)
(* Proofs about the bulk load inside Coverage: a load that returned        *)
(* success has stored all of its zip, and a vote has one row and one event *)
(* of it unless two loads raced for it, for any exports, payloads, bills,  *)
(* votes and loaders, wherever loads, crashes, errors and the API sync     *)
(* interleave.                                                             *)
(***************************************************************************)
EXTENDS Coverage, TLAPS

-----------------------------------------------------------------------------
(* The invariant.                                                          *)

StoreType ==
    /\ bills \in [Bills -> Nat]
    /\ votes \in [Votes -> Nat] /\ told \in [Votes -> Nat]
    /\ stray \subseteq Votes
    /\ complete \subseteq DOMAIN Zips

LoadType(l) ==
    /\ load[l] = [at |-> load[l].at, zip |-> load[l].zip, left |-> load[l].left,
                  known |-> load[l].known, touched |-> load[l].touched, seen |-> load[l].seen]
    /\ load[l].at \in 0..9
    /\ load[l].known \in [Bills -> Nat] /\ load[l].seen \subseteq Votes
    /\ load[l].at # 0 => load[l].zip \in DOMAIN Zips

LoadersType == load = [l \in Loaders |-> load[l]] /\ \A l \in Loaders : LoadType(l)

BulkType == StoreType /\ LoadersType

Listed(l) == DOMAIN Export(l).bills

\* bill_by_openstates_id fills up in the bills' section, with bills that are
\* stored, and is the whole zip from there on.
TouchedInv(l) ==
    Loading(l) =>
        /\ load[l].touched \subseteq Listed(l)
        /\ load[l].at = 1 => load[l].touched = {}
        /\ load[l].at = 2 => Listed(l) \subseteq load[l].touched \cup load[l].left
        /\ load[l].at > 2 => load[l].touched = Listed(l)
        /\ \A b \in load[l].touched : bills[b] # Absent
        /\ \A b \in Bills : load[l].known[b] # Absent => bills[b] # Absent

\* What is left of the section's file is of that file.
LeftInv(l) == Loading(l) => load[l].left \subseteq File(l, Sections[load[l].at], load[l].touched)

\* The section that stores the rows of a table, and what a row waits for in it:
\* a link for its version, a record for its vote.
SectionOf(table) ==
    CASE table = "organizations" -> 1
      [] table = "subjects" -> 3
      [] table \in {"identifiers", "sources", "related"} -> 4
      [] table = "sponsorships" -> 5
      [] table = "actions" -> 6
      [] table \in {"versions", "links"} -> 7
      [] table = "orphans" -> 8
      [] table = "records" -> 9
      [] OTHER -> 10

Awaited(r, left) ==
    CASE r.table = "links" -> [r EXCEPT !.table = "versions"] \in left
      [] r.table = "records" -> r.fact \in left
      [] OTHER -> r \in left

\* Every row of a section past is stored; of the section in progress it is
\* stored or awaited.
RowsInv(l) ==
    Loading(l) => \A r \in Export(l).rows :
        /\ SectionOf(r.table) < load[l].at => r \in rows
        /\ SectionOf(r.table) = load[l].at => r \in rows \/ Awaited(r, load[l].left)

Resolved(l, r) == r.table = "related" /\ r.fact \in Listed(l)
Companion(r) == [r EXCEPT !.table = "companions"]
CompanionsInv(l) ==
    Loading(l) /\ load[l].at > 4 => \A r \in Export(l).rows : Resolved(l, r) => Companion(r) \in rows

VotesInv(l) ==
    Loading(l) /\ load[l].at = 9 =>
        /\ \A v \in load[l].seen : votes[v] > 0
        /\ \A v \in Export(l).votes : v \in load[l].left \/ votes[v] > 0

\* The parts of the invariant that speak of one load in progress.
ProgressInv(l) ==
    TouchedInv(l) /\ LeftInv(l) /\ RowsInv(l) /\ CompanionsInv(l) /\ VotesInv(l)
Progress == \A l \in Loaders : ProgressInv(l)

\* A vote that two loads have not raced for: one that a load has still to go
\* through and has not seen is not stored, and of two loads in the votes one at
\* least has seen it, the one that came later.
Ahead(l, v) == load[l].at = 9 /\ v \in load[l].left /\ v \notin load[l].seen
Apart(l, o, v) ==
    load[l].at = 9 /\ load[o].at = 9 => v \in load[l].seen \/ v \in load[o].seen
RaceInv ==
    \A v \in Votes \ raced :
        /\ votes[v] <= 1
        /\ \A l \in Loaders : Ahead(l, v) => votes[v] = 0
        /\ \A l, o \in Loaders : l = o \/ Apart(l, o, v)

\* An event for every row.
ToldInv == \A v \in Votes \ stray : told[v] = votes[v]

LoadInv == BulkType /\ Progress /\ LoadedWhole /\ RaceInv /\ ToldInv

-----------------------------------------------------------------------------
(* Exports and sections.                                                   *)

LEMMA Exported ==
    ASSUME NEW n \in DOMAIN Zips
    PROVE  /\ DOMAIN Zips[n].bills \subseteq Bills
           /\ \A b \in DOMAIN Zips[n].bills : Zips[n].bills[b] \in Nat /\ Zips[n].bills[b] # Absent
           /\ Zips[n].votes \subseteq Votes
           /\ \A v \in Zips[n].votes : BillOf[v] \in DOMAIN Zips[n].bills
  BY BulkAssumption

LEMMA ExportedRows ==
    ASSUME NEW n \in DOMAIN Zips, NEW r \in Zips[n].rows
    PROVE  /\ r = [table |-> r.table, bill |-> r.bill, fact |-> r.fact]
           /\ r.table \in Tables \ {"companions", "placeholder"}
           /\ r.table = "organizations" => r.bill = NoBill
           /\ r.table # "organizations" => r.bill \in DOMAIN Zips[n].bills
           /\ r.table = "links" => [r EXCEPT !.table = "versions"] \in Zips[n].rows
           /\ r.table = "records" => r.fact \in Zips[n].votes
  BY BulkAssumption

LEMMA SectionNames ==
    /\ Len(Sections) = 9
    /\ Sections[1] = "organizations" /\ Sections[2] = "bills" /\ Sections[3] = "subjects"
    /\ Sections[4] = "details" /\ Sections[5] = "sponsorships" /\ Sections[6] = "actions"
    /\ Sections[7] = "versions" /\ Sections[8] = "documents" /\ Sections[9] = "votes"
  BY DEF Sections

LEMMA Numbered ==
    ASSUME NEW l \in Loaders, load[l].at \in 0..9
    PROVE  /\ In(l, "organizations") <=> load[l].at = 1
           /\ In(l, "bills") <=> load[l].at = 2
           /\ In(l, "subjects") <=> load[l].at = 3
           /\ In(l, "details") <=> load[l].at = 4
           /\ In(l, "sponsorships") <=> load[l].at = 5
           /\ In(l, "actions") <=> load[l].at = 6
           /\ In(l, "versions") <=> load[l].at = 7
           /\ In(l, "documents") <=> load[l].at = 8
           /\ In(l, "votes") <=> load[l].at = 9
<1>1. load[l].at = 0 \/ load[l].at = 1 \/ load[l].at = 2 \/ load[l].at = 3 \/ load[l].at = 4 \/ load[l].at = 5
      \/ load[l].at = 6 \/ load[l].at = 7 \/ load[l].at = 8 \/ load[l].at = 9
  OBVIOUS
<1> QED BY <1>1, SectionNames DEF In, Loading

\* The chunk a step takes is of what is left.
LEMMA ChunksAreLeft ==
    ASSUME NEW l \in Loaders PROVE \A chunk \in Chunks(l) : chunk \subseteq load[l].left
  BY DEF Chunks

\* Past a chunk there are three places to be: out of the load, in the same
\* section, or at the start of the next.
PastIs(l, chunk, touched, p) ==
    \/ p = NoLoad /\ load[l].at = 9 /\ load[l].left \ chunk = {}
    \/ p = [at |-> load[l].at, zip |-> load[l].zip, left |-> load[l].left \ chunk,
            known |-> load[l].known, touched |-> touched, seen |-> load[l].seen]
    \/ /\ load[l].at < 9 /\ load[l].left \ chunk = {}
       /\ p = [at |-> load[l].at + 1, zip |-> load[l].zip,
               left |-> ToLoad(l, Sections[load[l].at + 1], touched),
               known |-> IF load[l].at = 1 THEN bills ELSE load[l].known,
               touched |-> touched,
               seen |-> IF load[l].at = 8 THEN StoredVotes ELSE load[l].seen]

LEMMA PastCases ==
    ASSUME BulkType, NEW l \in Loaders, Loading(l), NEW chunk \in SUBSET load[l].left, NEW touched
    PROVE  PastIs(l, chunk, touched, Past(l, chunk, touched))
<1> DEFINE p == Past(l, chunk, touched)
<1> DEFINE rest == load[l].left \ chunk
<1> DEFINE next == IF rest = {} THEN load[l].at + 1 ELSE load[l].at
<1> DEFINE file == ToLoad(l, Sections[next], touched)
<1>0. load[l] = [at |-> load[l].at, zip |-> load[l].zip, left |-> load[l].left,
                 known |-> load[l].known, touched |-> load[l].touched, seen |-> load[l].seen]
      /\ load[l].at \in 1..9
  BY DEF BulkType, LoadersType, LoadType, Loading
<1> DEFINE known == IF next # load[l].at /\ Sections[next] = "bills" THEN bills ELSE load[l].known
<1> DEFINE seen == IF next # load[l].at /\ Sections[next] = "votes" THEN StoredVotes
                   ELSE load[l].seen
<1> DEFINE left == IF next = load[l].at THEN rest ELSE file
<1>3. p = IF next > 9 THEN NoLoad
          ELSE [at |-> next, zip |-> load[l].zip, left |-> left, known |-> known,
                touched |-> touched, seen |-> seen]
  BY SectionNames DEF Past
<1> HIDE DEF file, known, left, seen, p
<1>4. CASE rest # {}
  <2>1. next = load[l].at /\ ~(next > 9)
    BY <1>0, <1>4
  <2>2. left = rest /\ known = load[l].known /\ seen = load[l].seen
    BY <2>1 DEF left, known, seen
  <2>3. p = [at |-> next, zip |-> load[l].zip, left |-> left, known |-> known,
             touched |-> touched, seen |-> seen]
    BY <1>3, <2>1
  <2> HIDE DEF next
  <2>4. p = [at |-> load[l].at, zip |-> load[l].zip, left |-> rest,
             known |-> load[l].known, touched |-> touched, seen |-> load[l].seen]
    BY <2>1, <2>2, <2>3
  <2> QED BY <2>4 DEF PastIs, p
<1>5. CASE rest = {} /\ load[l].at = 9
  <2>1. next > 9
    BY <1>0, <1>5
  <2>2. p = NoLoad
    BY <1>3, <2>1
  <2> QED BY <1>5, <2>2 DEF PastIs, p
<1>6. CASE rest = {} /\ load[l].at # 9
  <2>1. next = load[l].at + 1 /\ next \in 2..9
    BY <1>0, <1>6
  <2>2. (Sections[next] = "bills" <=> load[l].at = 1) /\ (Sections[next] = "votes" <=> load[l].at = 8)
    <3>1. next = 2 \/ next = 3 \/ next = 4 \/ next = 5 \/ next = 6 \/ next = 7 \/ next = 8
          \/ next = 9
      BY <2>1
    <3> QED BY <3>1, <2>1, <1>0, SectionNames
  <2>3. next # load[l].at /\ ~(next > 9) /\ load[l].at < 9
    BY <2>1, <1>0
  <2>4. /\ left = file /\ known = (IF load[l].at = 1 THEN bills ELSE load[l].known)
        /\ seen = IF load[l].at = 8 THEN StoredVotes ELSE load[l].seen
    BY <2>2, <2>3 DEF left, known, seen
  <2>5. file = ToLoad(l, Sections[load[l].at + 1], touched)
    BY <2>1 DEF file
  <2>6. p = [at |-> next, zip |-> load[l].zip, left |-> left, known |-> known,
             touched |-> touched, seen |-> seen]
    BY <1>3, <2>3
  <2> HIDE DEF next, rest
  <2>7. p = [at |-> load[l].at + 1, zip |-> load[l].zip,
             left |-> ToLoad(l, Sections[load[l].at + 1], touched),
             known |-> IF load[l].at = 1 THEN bills ELSE load[l].known,
             touched |-> touched,
             seen |-> IF load[l].at = 8 THEN StoredVotes ELSE load[l].seen]
    BY <2>1, <2>4, <2>5, <2>6
  <2> USE DEF rest
  <2> QED BY <1>6, <2>3, <2>7 DEF PastIs, p
<1> QED BY <1>4, <1>5, <1>6

LEMMA NoLoadIs == NoLoad.at = 0 /\ NoLoad.zip = 1 /\ NoLoad.left = {} /\ NoLoad.touched = {}
                  /\ NoLoad.seen = {}
                  /\ NoLoad.known \in [Bills -> Nat]
                  /\ NoLoad = [at |-> NoLoad.at, zip |-> NoLoad.zip, left |-> NoLoad.left,
                               known |-> NoLoad.known, touched |-> NoLoad.touched,
                               seen |-> NoLoad.seen]
  BY DEF NoLoad, Absent

-----------------------------------------------------------------------------
(* The files of a section.                                                 *)

LEMMA SectionsOfTables ==
    ASSUME NEW table \in Tables \ {"companions", "placeholder"}
    PROVE  SectionOf(table) \in (1..9) \ {2}
  BY DEF SectionOf, Tables

LEMMA TablesOfSections ==
    ASSUME NEW table \in Tables \ {"companions", "placeholder"}
    PROVE  /\ SectionOf(table) = 7 => table \in {"versions", "links"}
           /\ SectionOf(table) = 9 => table = "records"
  BY DEF SectionOf, Tables

\* Once every bill is in bill_by_openstates_id, the file of a section holds what
\* each row of its tables waits for.
LEMMA FilesAwait ==
    ASSUME NEW l \in Loaders, load[l].zip \in DOMAIN Zips, NEW r \in Export(l).rows, NEW at \in 3..9, NEW touched,
           touched = Listed(l), SectionOf(r.table) = at
    PROVE  Awaited(r, File(l, Sections[at], touched))
<1>1. /\ r.table \in Tables \ {"companions", "placeholder"}
      /\ r.table # "organizations" => r.bill \in touched
      /\ r.table = "links" => [r EXCEPT !.table = "versions"] \in Export(l).rows
      /\ r.table = "records" => r.fact \in Export(l).votes
      /\ r = [table |-> r.table, bill |-> r.bill, fact |-> r.fact]
  BY ExportedRows DEF Export, Listed
<1>2. at = 3 \/ at = 4 \/ at = 5 \/ at = 6 \/ at = 7 \/ at = 8 \/ at = 9
  OBVIOUS
<1>3. CASE at = 3
  <2>1. r.table = "subjects" /\ File(l, Sections[at], touched) = InZip(l, {"subjects"}, touched)
    BY <1>1, <1>3, SectionNames DEF SectionOf, File, Tables
  <2> QED BY <1>1, <2>1 DEF Awaited, InZip
<1>4. CASE at = 4
  <2>1. r.table \in {"identifiers", "sources", "related"}
        /\ File(l, Sections[at], touched) = InZip(l, {"identifiers", "sources", "related"}, touched)
    BY <1>1, <1>4, SectionNames DEF SectionOf, File, Tables
  <2> QED BY <1>1, <2>1 DEF Awaited, InZip
<1>5. CASE at = 5
  <2>1. r.table = "sponsorships" /\ File(l, Sections[at], touched) = InZip(l, {"sponsorships"}, touched)
    BY <1>1, <1>5, SectionNames DEF SectionOf, File, Tables
  <2> QED BY <1>1, <2>1 DEF Awaited, InZip
<1>6. CASE at = 6
  <2>1. r.table = "actions" /\ File(l, Sections[at], touched) = InZip(l, {"actions"}, touched)
    BY <1>1, <1>6, SectionNames DEF SectionOf, File, Tables
  <2> QED BY <1>1, <2>1 DEF Awaited, InZip
<1>7. CASE at = 7
  <2>1. r.table \in {"versions", "links"}
        /\ File(l, Sections[at], touched) = InZip(l, {"versions"}, touched)
    BY <1>1, <1>7, SectionNames DEF SectionOf, File, Tables
  <2>2. CASE r.table = "versions"
    BY <1>1, <2>1, <2>2 DEF Awaited, InZip
  <2>3. CASE r.table = "links"
    <3> DEFINE version == [r EXCEPT !.table = "versions"]
    <3>1. version.table = "versions" /\ version.bill = r.bill
      BY <1>1
    <3>2. version \in InZip(l, {"versions"}, touched)
      BY <1>1, <2>3, <3>1 DEF InZip
    <3> QED BY <2>1, <2>3, <3>2 DEF Awaited
  <2> QED BY <2>1, <2>2, <2>3
<1>8. CASE at = 8
  <2>1. r.table = "orphans" /\ File(l, Sections[at], touched) = InZip(l, {"orphans"}, touched)
    BY <1>1, <1>8, SectionNames DEF SectionOf, File, Tables
  <2> QED BY <1>1, <2>1 DEF Awaited, InZip
<1>9. CASE at = 9
  <2>1. r.table = "records"
        /\ File(l, Sections[at], touched) = {v \in Export(l).votes : BillOf[v] \in touched}
    BY <1>1, <1>9, SectionNames DEF SectionOf, File, Tables
  <2>2. r.fact \in Export(l).votes /\ BillOf[r.fact] \in touched
    BY <1>1, <2>1, Exported DEF Export, Listed
  <2> QED BY <2>1, <2>2 DEF Awaited
<1> QED BY <1>2, <1>3, <1>4, <1>5, <1>6, <1>7, <1>8, <1>9

LEMMA FileOfBills ==
    ASSUME NEW l \in Loaders PROVE \A touched : File(l, Sections[2], touched) = Listed(l)
  BY SectionNames DEF File, Listed

LEMMA FileOfVotes ==
    ASSUME NEW l \in Loaders, load[l].zip \in DOMAIN Zips
    PROVE  File(l, Sections[9], Listed(l)) = Export(l).votes
<1>1. File(l, Sections[9], Listed(l)) = {v \in Export(l).votes : BillOf[v] \in Listed(l)}
  BY SectionNames DEF File
<1> QED BY <1>1, Exported DEF Export, Listed

LEMMA ReadDirectly ==
    ASSUME NEW r, SectionOf(r.table) # 7, SectionOf(r.table) # 9, NEW left, Awaited(r, left)
    PROVE  r \in left
  BY DEF Awaited, SectionOf

LEMMA NothingAwaits == \A r : ~Awaited(r, {})
  BY DEF Awaited

-----------------------------------------------------------------------------
(* What a load's step does.                                                *)

Whole(n) ==
    /\ \A b \in DOMAIN Zips[n].bills : bills[b] # Absent
    /\ \A v \in Zips[n].votes : votes[v] > 0
    /\ Zips[n].rows \subseteq rows
    /\ \A r \in Zips[n].rows : r.table = "related" /\ r.fact \in DOMAIN Zips[n].bills =>
           [r EXCEPT !.table = "companions"] \in rows

LEMMA WholeParts ==
    ASSUME complete \subseteq DOMAIN Zips PROVE LoadedWhole <=> \A n \in complete : Whole(n)
  BY Exported DEF LoadedWhole, Whole, StoredVotes

\* Nothing stored is taken away.
Grown ==
    /\ bills' \in [Bills -> Nat] /\ votes' \in [Votes -> Nat]
    /\ rows \subseteq rows'
    /\ \A b \in Bills : bills[b] # Absent => bills'[b] # Absent
    /\ \A v \in Votes : votes[v] > 0 => votes'[v] > 0

LEMMA WholeStays ==
    ASSUME Grown, NEW n \in DOMAIN Zips, Whole(n)
    PROVE  Whole(n)'
  BY Exported DEF Grown, Whole

\* bill_by_openstates_id after a chunk.
TouchedBy(l, chunk, touched) ==
    touched = IF load[l].at = 2 THEN load[l].touched \cup chunk ELSE load[l].touched

\* What a chunk has to store of its section.
Stored(l, chunk, touched) ==
    /\ \A b \in touched : bills'[b] # Absent
    /\ \A r \in Export(l).rows :
           SectionOf(r.table) = load[l].at /\ Awaited(r, load[l].left)
               => Awaited(r, load[l].left \ chunk) \/ r \in rows'
    /\ load[l].at = 4 => /\ load[l].left \ chunk = {}
                      /\ \A r \in Export(l).rows : Resolved(l, r) => Companion(r) \in rows'
    /\ load[l].at = 9 => \A v \in chunk : votes'[v] > 0

\* A section that went on.
LEMMA SameSection ==
    ASSUME BulkType, NEW l \in Loaders, ProgressInv(l), Loading(l), Grown,
           NEW chunk \in SUBSET load[l].left, NEW touched, TouchedBy(l, chunk, touched),
           Stored(l, chunk, touched),
           load'[l] = [at |-> load[l].at, zip |-> load[l].zip, left |-> load[l].left \ chunk,
                       known |-> load[l].known, touched |-> touched, seen |-> load[l].seen]
    PROVE  ProgressInv(l)'
<1>1. /\ load'[l].at = load[l].at /\ load'[l].zip = load[l].zip /\ load'[l].left = load[l].left \ chunk
      /\ load'[l].known = load[l].known /\ load'[l].touched = touched /\ load'[l].seen = load[l].seen
      /\ Loading(l)' /\ Export(l)' = Export(l) /\ Listed(l)' = Listed(l)
      /\ load[l].at \in 1..9 /\ load[l].zip \in DOMAIN Zips /\ Listed(l) \subseteq Bills
  BY Exported DEF Loading, Export, Listed, BulkType, LoadersType, LoadType
<1>2. load[l].left \subseteq File(l, Sections[load[l].at], load[l].touched)
  BY DEF ProgressInv, LeftInv
<1>3. load[l].at # 2 => touched = load[l].touched
  BY DEF TouchedBy
<1>4. load[l].at = 2 => touched = load[l].touched \cup chunk /\ chunk \subseteq Listed(l)
  BY <1>2, FileOfBills DEF TouchedBy
<1>5. TouchedInv(l)'
  <2>1. \A b \in touched : bills'[b] # Absent
    BY DEF Stored
  <2>2. \A b \in Bills : load[l].known[b] # Absent => bills'[b] # Absent
    BY DEF ProgressInv, TouchedInv, Grown
  <2>3. touched \subseteq Listed(l) /\ (load[l].at = 1 => touched = {})
        /\ (load[l].at = 2 => Listed(l) \subseteq touched \cup (load[l].left \ chunk))
        /\ (load[l].at > 2 => touched = Listed(l))
    BY <1>1, <1>3, <1>4 DEF ProgressInv, TouchedInv
  <2> QED BY <1>1, <2>1, <2>2, <2>3 DEF TouchedInv
<1>6. LeftInv(l)'
  <2>1. \A section, some : File(l, section, some)' = File(l, section, some)
    BY <1>1 DEF File, InZip
  <2>2. File(l, Sections[load[l].at], load[l].touched) = File(l, Sections[load[l].at], touched)
    BY <1>3, FileOfBills
  <2> QED BY <1>1, <1>2, <2>1, <2>2 DEF LeftInv
<1>7. RowsInv(l)'
  <2>1. \A r \in Export(l).rows : SectionOf(r.table) < load[l].at => r \in rows'
    BY DEF ProgressInv, RowsInv, Grown
  <2>2. \A r \in Export(l).rows : SectionOf(r.table) = load[l].at
                                   => r \in rows' \/ Awaited(r, load[l].left \ chunk)
    BY DEF ProgressInv, RowsInv, Grown, Stored
  <2> QED BY <1>1, <2>1, <2>2 DEF RowsInv
<1>8. CompanionsInv(l)'
  BY <1>1 DEF ProgressInv, CompanionsInv, Grown, Resolved, Companion
<1>9. VotesInv(l)'
  <2>1. load[l].at = 9 => \A v \in Export(l).votes :
                           v \in load[l].left \ chunk \/ votes'[v] > 0
    BY <1>1, Exported DEF ProgressInv, VotesInv, Grown, Stored, Export
  <2>2. load[l].at = 9 => \A v \in load[l].seen : votes'[v] > 0
    BY <1>1 DEF ProgressInv, VotesInv, Grown, BulkType, LoadersType, LoadType
  <2> QED BY <1>1, <2>1, <2>2 DEF VotesInv
<1> QED BY <1>5, <1>6, <1>7, <1>8, <1>9 DEF ProgressInv

\* A section that ended, and the next one that starts.
LEMMA NextSection ==
    ASSUME BulkType, NEW l \in Loaders, ProgressInv(l), Loading(l), Grown,
           NEW chunk \in SUBSET load[l].left, NEW touched, TouchedBy(l, chunk, touched),
           Stored(l, chunk, touched), load[l].at < 9, load[l].left \ chunk = {},
           load'[l] = [at |-> load[l].at + 1, zip |-> load[l].zip,
                    left |-> ToLoad(l, Sections[load[l].at + 1], touched),
                       known |-> IF load[l].at = 1 THEN bills ELSE load[l].known,
                       touched |-> touched,
                       seen |-> IF load[l].at = 8 THEN StoredVotes ELSE load[l].seen]
    PROVE  ProgressInv(l)'
<1> DEFINE next == load[l].at + 1
<1>1. /\ load'[l].at = next /\ load'[l].zip = load[l].zip
      /\ load'[l].left = ToLoad(l, Sections[next], touched)
      /\ load'[l].known = (IF load[l].at = 1 THEN bills ELSE load[l].known) /\ load'[l].touched = touched
      /\ load'[l].seen = (IF load[l].at = 8 THEN StoredVotes ELSE load[l].seen)
      /\ Export(l)' = Export(l) /\ Listed(l)' = Listed(l)
  BY DEF Export, Listed
<1>2. load[l].at \in 1..8 /\ next \in 2..9 /\ load[l].zip \in DOMAIN Zips /\ Listed(l) \subseteq Bills
  BY Exported DEF Loading, BulkType, LoadersType, LoadType, Listed, Export
<1>13. /\ load'[l].left \subseteq File(l, Sections[next], touched)
       /\ File(l, Sections[next], touched) \subseteq load'[l].left \cup rows
       /\ next # 3 => load'[l].left = File(l, Sections[next], touched)
  <2>1. Sections[next] = "subjects" <=> next = 3
    <3>1. next = 2 \/ next = 3 \/ next = 4 \/ next = 5 \/ next = 6 \/ next = 7 \/ next = 8
          \/ next = 9
      BY <1>2
    <3> QED BY <3>1, SectionNames
  <2> QED BY <1>1, <2>1 DEF ToLoad
<1>3. Loading(l)'
  BY <1>1, <1>2 DEF Loading
<1>4. load[l].at # 2 => touched = load[l].touched
  BY DEF TouchedBy
<1>5. load[l].at = 2 => touched = Listed(l)
  <2>1. load[l].at = 2 => load[l].left \subseteq Listed(l)
    BY FileOfBills DEF ProgressInv, LeftInv
  <2> QED BY <2>1 DEF TouchedBy, ProgressInv, TouchedInv
<1>6. next = 2 => touched = {}
  BY <1>2, <1>4 DEF ProgressInv, TouchedInv
<1>7. next > 2 => touched = Listed(l)
  <2>1. load[l].at > 2 => load[l].touched = Listed(l)
    BY DEF ProgressInv, TouchedInv
  <2> QED BY <1>2, <1>4, <1>5, <2>1
<1>8. TouchedInv(l)'
  <2>1. \A b \in touched : bills'[b] # Absent
    BY DEF Stored
  <2>2. \A b \in Bills : load'[l].known[b] # Absent => bills'[b] # Absent
    BY <1>1 DEF ProgressInv, TouchedInv, Grown
  <2>3. next = 2 => Listed(l) \subseteq touched \cup load'[l].left
    BY <1>13, FileOfBills
  <2>4. next # 1
    BY <1>2
  <2>5. touched \subseteq Listed(l)
    <3>1. next = 2 \/ next > 2
      BY <1>2
    <3> QED BY <3>1, <1>6, <1>7
  <2> QED BY <1>1, <1>7, <2>1, <2>2, <2>3, <2>4, <2>5 DEF TouchedInv
<1>9. LeftInv(l)'
  <2>1. \A section, some : File(l, section, some)' = File(l, section, some)
    BY <1>1 DEF File, InZip
  <2> QED BY <1>1, <1>13, <2>1 DEF LeftInv
<1>10. RowsInv(l)'
  <2>1. ASSUME NEW r \in Export(l).rows, SectionOf(r.table) < next
        PROVE  r \in rows'
    <3>1. SectionOf(r.table) \in 1..9
      BY <1>2, ExportedRows, SectionsOfTables DEF Export
    <3>2. CASE SectionOf(r.table) < load[l].at
      BY <3>2 DEF ProgressInv, RowsInv, Grown
    <3>3. CASE SectionOf(r.table) = load[l].at
      BY <3>3, NothingAwaits DEF ProgressInv, RowsInv, Grown, Stored
    <3> QED BY <1>2, <2>1, <3>1, <3>2, <3>3
  <2>2. ASSUME NEW r \in Export(l).rows, SectionOf(r.table) = next
        PROVE  r \in rows' \/ Awaited(r, load'[l].left)
    <3>1. next # 2
      BY <2>2, <1>2, ExportedRows, SectionsOfTables DEF Export
    <3>2. Awaited(r, File(l, Sections[next], touched))
      BY <1>1, <1>2, <1>7, <2>2, <3>1, FilesAwait
    <3>3. CASE next = 3
      BY <1>13, <2>2, <3>2, <3>3, ReadDirectly DEF Awaited, Grown
    <3> QED BY <1>13, <3>2, <3>3
  <2> HIDE DEF next
  <2> QED BY <1>1, <2>1, <2>2 DEF RowsInv
<1>11. CompanionsInv(l)'
  <2>1. CASE load[l].at = 4
    BY <1>1, <2>1 DEF Stored, CompanionsInv, Resolved, Companion
  <2>2. CASE load[l].at > 4
    BY <1>1, <2>2 DEF ProgressInv, CompanionsInv, Grown, Resolved, Companion
  <2>3. CASE load[l].at < 4
    BY <1>1, <1>2, <2>3 DEF CompanionsInv
  <2> QED BY <1>2, <2>1, <2>2, <2>3
<1>12. VotesInv(l)'
  <2>1. next = 9 => load'[l].left = Export(l).votes
    BY <1>2, <1>7, <1>13, FileOfVotes
  <2>2. next = 9 => \A v \in load'[l].seen : votes'[v] > 0
    BY <1>1, <1>2 DEF StoredVotes, Grown
  <2> QED BY <1>1, <2>1, <2>2 DEF VotesInv
<1> QED BY <1>8, <1>9, <1>10, <1>11, <1>12 DEF ProgressInv

\* The load that ended has stored its zip.
LEMMA LastSection ==
    ASSUME BulkType, NEW l \in Loaders, ProgressInv(l), Loading(l), Grown,
           NEW chunk \in SUBSET load[l].left, NEW touched, TouchedBy(l, chunk, touched),
           Stored(l, chunk, touched), load[l].at = 9, load[l].left \ chunk = {},
           NEW n \in DOMAIN Zips, n = load[l].zip
    PROVE  Whole(n)'
<1>1. load[l].zip \in DOMAIN Zips /\ load[l].touched = Listed(l) /\ touched = Listed(l)
  BY DEF BulkType, LoadersType, LoadType, Loading, ProgressInv, TouchedInv, TouchedBy
<1>2. \A b \in Listed(l) : bills'[b] # Absent
  BY <1>1 DEF Stored
<1>3. \A v \in Export(l).votes : votes'[v] > 0
  BY <1>1, Exported DEF ProgressInv, VotesInv, Grown, Stored, Export
<1>4. ASSUME NEW r \in Export(l).rows
      PROVE  r \in rows'
  <2>1. SectionOf(r.table) \in 1..9
    BY <1>1, ExportedRows, SectionsOfTables DEF Export
  <2>2. CASE SectionOf(r.table) < load[l].at
    BY <2>2 DEF ProgressInv, RowsInv, Grown
  <2>3. CASE SectionOf(r.table) = load[l].at
    BY <2>3, NothingAwaits DEF ProgressInv, RowsInv, Grown, Stored
  <2> QED BY <2>1, <2>2, <2>3
<1>5. \A r \in Export(l).rows : Resolved(l, r) => Companion(r) \in rows'
  BY DEF ProgressInv, CompanionsInv, Grown
<1>6. n = load[l].zip /\ Export(l) = Zips[n] /\ Listed(l) = DOMAIN Zips[n].bills
  BY DEF Export, Listed
<1> QED BY <1>2, <1>3, <1>4, <1>5, <1>6 DEF Whole, Resolved, Companion

-----------------------------------------------------------------------------
(* The steps of a load.                                                    *)

\* Out of a load there is no progress to speak of.
LEMMA NoProgress ==
    ASSUME NEW l \in Loaders, load'[l] = NoLoad PROVE ProgressInv(l)' /\ LoadType(l)'
<1>1. ~Loading(l)' /\ load'[l].at = 0
  BY NoLoadIs DEF Loading
<1>2. LoadType(l)'
  BY <1>1, NoLoadIs DEF LoadType
<1> QED BY <1>1, <1>2 DEF ProgressInv, TouchedInv, LeftInv, RowsInv, CompanionsInv, VotesInv

\* What another writer adds is no harm to a load's progress.
LEMMA BesideIt ==
    ASSUME BulkType, Progress, Grown, NEW l \in Loaders, load'[l] = load[l]
    PROVE  ProgressInv(l)' /\ LoadType(l)'
<1>1. ProgressInv(l) /\ LoadType(l)
  BY DEF Progress, BulkType, LoadersType
<1>2. LoadType(l)'
  BY <1>1 DEF LoadType
<1>3. Loading(l)' = Loading(l) /\ Export(l)' = Export(l) /\ Listed(l)' = Listed(l)
  BY DEF Loading, Export, Listed
<1>4. Loading(l) => Listed(l) \subseteq Bills /\ Export(l).votes \subseteq Votes
  BY <1>1, Exported DEF Loading, Listed, Export, LoadType
<1>5. LeftInv(l)'
  <2>1. \A section, some : File(l, section, some)' = File(l, section, some)
    BY <1>3 DEF File, InZip
  <2> QED BY <1>1, <1>3, <2>1 DEF ProgressInv, LeftInv
<1>6. TouchedInv(l)'
  BY <1>1, <1>3, <1>4 DEF Grown, ProgressInv, TouchedInv
<1>7. RowsInv(l)'
  BY <1>1, <1>3 DEF ProgressInv, RowsInv, Grown
<1>8. CompanionsInv(l)'
  BY <1>1, <1>3 DEF ProgressInv, CompanionsInv, Resolved, Companion, Grown
<1>9. VotesInv(l)'
  BY <1>1, <1>3, <1>4 DEF ProgressInv, VotesInv, Grown, LoadType
<1> QED BY <1>2, <1>5, <1>6, <1>7, <1>8, <1>9 DEF ProgressInv

\* One loader goes on; the others are where they were.
LEMMA GoesOn ==
    ASSUME BulkType, NEW l \in Loaders, NEW s, GoesTo(l, s)
    PROVE  /\ load'[l] = s /\ raced \subseteq raced'
           /\ \A o \in Loaders \ {l} : load'[o] = load[o]
           /\ load' = [o \in Loaders |-> load'[o]]
           /\ s.at = 9 => \A o \in Loaders \ {l} : load[o].at = 9 => Votes \ StoredVotes \subseteq raced'
<1>1. load = [o \in Loaders |-> load[o]]
  BY DEF BulkType, LoadersType
<1>2. load' = [load EXCEPT ![l] = s]
  BY DEF GoesTo
<1>3. s.at = 9 => \A o \in Loaders \ {l} : load[o].at = 9 => Votes \ StoredVotes \subseteq raced'
  <2>1. \A o \in Loaders : load[o].at = 9 => In(o, "votes")
    BY Numbered
  <2> QED BY <2>1, SectionNames DEF GoesTo
<1>4. raced \subseteq raced'
  BY DEF GoesTo
<1> QED BY <1>1, <1>2, <1>3, <1>4

LEMMA OthersGoOn ==
    ASSUME BulkType, Progress, Grown, NEW l \in Loaders, NEW s, GoesTo(l, s),
           ProgressInv(l)', LoadType(l)'
    PROVE  Progress' /\ LoadersType'
<1>1. ASSUME NEW o \in Loaders
      PROVE  ProgressInv(o)' /\ LoadType(o)'
  <2>1. CASE o = l
    BY <2>1
  <2>2. CASE o # l
    <3>1. load'[o] = load[o]
      BY <2>2, GoesOn
    <3> QED BY <3>1, BesideIt
  <2> QED BY <2>1, <2>2
<1>2. load' = [o \in Loaders |-> load'[o]]
  BY GoesOn
<1> QED BY <1>1, <1>2 DEF Progress, LoadersType

\* The votes a chunk adds a row of, once each: those it went through that the load
\* had not seen.
Counted(l, chunk) ==
    \A v \in Votes : \/ votes'[v] = votes[v]
                     \/ /\ load[l].at = 9 /\ v \in chunk /\ v \notin load[l].seen
                        /\ votes'[v] = votes[v] + 1

\* A load that leaves the votes alone and is not about to be in them.
LEMMA NoRace ==
    ASSUME BulkType, RaceInv, NEW l \in Loaders, NEW s, GoesTo(l, s), s.at # 9, votes' = votes
    PROVE  RaceInv'
<1>1. raced \subseteq raced' /\ load'[l].at # 9 /\ \A o \in Loaders \ {l} : load'[o] = load[o]
  BY GoesOn
<1> QED BY <1>1 DEF RaceInv, Ahead, Apart

\* What a load does to the races of votes when it goes on.
LEMMA RaceGoesOn ==
    ASSUME BulkType, RaceInv, NEW l \in Loaders, Loading(l),
           NEW chunk \in SUBSET load[l].left, NEW touched,
           GoesTo(l, Past(l, chunk, touched)), Counted(l, chunk)
    PROVE  RaceInv'
<1> DEFINE s == Past(l, chunk, touched)
<1>1. \/ s.at # 9
      \/ load[l].at = 9 /\ s.at = 9 /\ s.left = load[l].left \ chunk /\ s.seen = load[l].seen
      \/ load[l].at = 8 /\ s.at = 9 /\ s.seen = StoredVotes
  <2>1. load[l].at \in 0..9
    BY DEF BulkType, LoadersType, LoadType
  <2> HIDE DEF s
  <2>2. /\ s = NoLoad => s.at # 9
        /\ s = [at |-> load[l].at, zip |-> load[l].zip, left |-> load[l].left \ chunk,
                known |-> load[l].known, touched |-> touched, seen |-> load[l].seen]
           => s.at = load[l].at /\ s.left = load[l].left \ chunk /\ s.seen = load[l].seen
    BY NoLoadIs
  <2>3. s = [at |-> load[l].at + 1, zip |-> load[l].zip,
             left |-> ToLoad(l, Sections[load[l].at + 1], touched),
             known |-> IF load[l].at = 1 THEN bills ELSE load[l].known,
             touched |-> touched,
             seen |-> IF load[l].at = 8 THEN StoredVotes ELSE load[l].seen]
        => s.at = load[l].at + 1 /\ (load[l].at = 8 => s.seen = StoredVotes)
    OBVIOUS
  <2>4. PastIs(l, chunk, touched, s)
    BY PastCases DEF s
  <2> QED BY <2>1, <2>2, <2>3, <2>4 DEF PastIs
<1> HIDE DEF s
<1>2. /\ load'[l] = s /\ raced \subseteq raced'
      /\ \A o \in Loaders \ {l} : load'[o] = load[o]
      /\ s.at = 9 => \A o \in Loaders \ {l} : load[o].at = 9 => Votes \ StoredVotes \subseteq raced'
  BY GoesOn DEF s
<1>3. votes \in [Votes -> Nat]
  BY DEF BulkType, StoreType
<1> SUFFICES ASSUME NEW v \in Votes \ raced'
             PROVE  /\ votes'[v] <= 1
                    /\ \A o \in Loaders : Ahead(o, v)' => votes'[v] = 0
                    /\ \A o, p \in Loaders : o = p \/ Apart(o, p, v)'
  BY DEF RaceInv
<1>4. /\ votes[v] \in Nat /\ votes[v] <= 1
      /\ \A o \in Loaders : Ahead(o, v) => votes[v] = 0
      /\ \A o, p \in Loaders : o = p \/ Apart(o, p, v)
  BY <1>2, <1>3 DEF RaceInv
\* Two in the votes: the later one has seen what is stored.
<1>5. \A o \in Loaders \ {l} : Apart(l, o, v)' /\ Apart(o, l, v)'
  <2> SUFFICES ASSUME NEW o \in Loaders \ {l}, s.at = 9, load[o].at = 9
               PROVE  v \in s.seen \/ v \in load[o].seen
    BY <1>2 DEF Apart
  <2>1. CASE load[l].at = 9 /\ s.seen = load[l].seen
    BY <1>4, <2>1 DEF Apart
  <2>2. CASE s.seen = StoredVotes
    BY <1>2, <2>2
  <2> QED BY <1>1, <2>1, <2>2
<1>6. \A o, p \in Loaders : o = p \/ Apart(o, p, v)'
  <2> SUFFICES ASSUME NEW o \in Loaders, NEW p \in Loaders, o # p
               PROVE  Apart(o, p, v)'
    OBVIOUS
  <2>1. CASE o # l /\ p # l
    BY <1>2, <1>4, <2>1 DEF Apart
  <2> QED BY <1>5, <2>1
<1>7. CASE votes'[v] = votes[v]
  <2>1. ASSUME NEW o \in Loaders, Ahead(o, v)'
        PROVE  votes[v] = 0
    <3>1. CASE o # l
      BY <1>2, <1>4, <2>1, <3>1 DEF Ahead
    <3>2. CASE o = l
      <4>1. CASE load[l].at = 9 /\ s.left = load[l].left \ chunk /\ s.seen = load[l].seen
        BY <1>2, <1>4, <2>1, <3>2, <4>1 DEF Ahead
      <4>2. CASE s.seen = StoredVotes
        BY <1>2, <1>4, <2>1, <3>2, <4>2 DEF Ahead, StoredVotes
      <4> QED BY <1>1, <1>2, <2>1, <3>2, <4>1, <4>2 DEF Ahead
    <3> QED BY <3>1, <3>2
  <2> QED BY <1>4, <1>6, <1>7, <2>1
<1>8. CASE load[l].at = 9 /\ v \in chunk /\ v \notin load[l].seen /\ votes'[v] = votes[v] + 1
  <2>1. votes[v] = 0
    BY <1>4, <1>8 DEF Ahead
  <2>2. ASSUME NEW o \in Loaders
        PROVE  ~Ahead(o, v)'
    <3>1. CASE o = l
      BY <1>1, <1>2, <1>8, <3>1 DEF Ahead
    <3>2. CASE o # l
      BY <1>2, <1>4, <1>8, <3>2 DEF Ahead, Apart
    <3> QED BY <3>1, <3>2
  <2> QED BY <1>6, <1>8, <2>1, <2>2
<1> QED BY <1>7, <1>8 DEF Counted

\* A load that returns success has its zip stored.
Completes(l) ==
    \/ complete' = complete
    \/ load'[l] = NoLoad /\ complete' = complete \cup {load[l].zip}

\* What is kept of the invariant when a load goes on.
LEMMA LoadGoesOn ==
    ASSUME BulkType, Progress, LoadedWhole, RaceInv, NEW l \in Loaders, Loading(l), Grown,
           NEW chunk \in SUBSET load[l].left, NEW touched \in SUBSET Bills,
           TouchedBy(l, chunk, touched), Stored(l, chunk, touched), Counted(l, chunk),
           GoesTo(l, Past(l, chunk, touched)), Completes(l)
    PROVE  Progress' /\ LoadersType' /\ LoadedWhole' /\ complete' \subseteq DOMAIN Zips /\ RaceInv'
<1>0. load[l].seen \subseteq Votes /\ StoredVotes \subseteq Votes
  BY DEF BulkType, LoadersType, LoadType, StoredVotes
<1>1. load[l].at \in 1..9 /\ load[l].zip \in DOMAIN Zips /\ load[l].known \in [Bills -> Nat]
      /\ bills \in [Bills -> Nat] /\ complete \subseteq DOMAIN Zips
      /\ ProgressInv(l) /\ load'[l] = Past(l, chunk, touched)
  BY GoesOn DEF BulkType, StoreType, LoadersType, LoadType, Loading, Progress
<1>2. complete' \subseteq DOMAIN Zips
  BY <1>1 DEF Completes
<1>3. ASSUME load'[l] = NoLoad, load[l].at = 9, load[l].left \ chunk = {}
      PROVE  LoadedWhole'
  <2>1. \A n \in complete' : Whole(n)'
    <3>1. \A n \in complete : Whole(n)'
      BY <1>1, WholeParts, WholeStays
    <3>2. \A n \in {load[l].zip} : Whole(n)'
      BY <1>1, <1>3, LastSection
    <3> QED BY <3>1, <3>2 DEF Completes
  <2> QED BY <1>2, <2>1, Exported DEF LoadedWhole, Whole, StoredVotes
<1>4. ASSUME load'[l] # NoLoad
      PROVE  LoadedWhole'
  <2>1. \A n \in complete' : Whole(n)'
    BY <1>1, <1>4, WholeParts, WholeStays DEF Completes
  <2> QED BY <1>2, <2>1, Exported DEF LoadedWhole, Whole, StoredVotes
<1>5. ProgressInv(l)' /\ LoadType(l)' /\ LoadedWhole'
  <2>1. CASE load'[l] = NoLoad /\ load[l].at = 9 /\ load[l].left \ chunk = {}
    BY <1>3, <2>1, NoProgress
  <2>2. CASE load'[l] = [at |-> load[l].at, zip |-> load[l].zip, left |-> load[l].left \ chunk,
                         known |-> load[l].known, touched |-> touched, seen |-> load[l].seen]
    <3>1. ProgressInv(l)'
      BY <1>1, <2>2, SameSection
    <3>2. LoadType(l)'
      BY <1>0, <1>1, <2>2 DEF LoadType
    <3>3. load'[l] # NoLoad
      BY <1>1, <2>2, NoLoadIs
    <3> QED BY <1>4, <3>1, <3>2, <3>3
  <2>3. CASE /\ load[l].at < 9 /\ load[l].left \ chunk = {}
             /\ load'[l] = [at |-> load[l].at + 1, zip |-> load[l].zip,
                            left |-> ToLoad(l, Sections[load[l].at + 1], touched),
                            known |-> IF load[l].at = 1 THEN bills ELSE load[l].known,
                            touched |-> touched,
                            seen |-> IF load[l].at = 8 THEN StoredVotes ELSE load[l].seen]
    <3>1. ProgressInv(l)'
      BY <1>1, <2>3, NextSection
    <3>2. LoadType(l)'
      BY <1>0, <1>1, <2>3 DEF LoadType
    <3>3. load'[l] # NoLoad
      BY <1>1, <2>3, NoLoadIs
    <3> QED BY <1>4, <3>1, <3>2, <3>3
  <2>4. PastIs(l, chunk, touched, load'[l])
    BY <1>1, PastCases
  <2> QED BY <2>1, <2>2, <2>3, <2>4, Zenon DEF PastIs
<1>6. Progress' /\ LoadersType'
  BY <1>5, OthersGoOn
<1>7. RaceInv'
  BY RaceGoesOn
<1> QED BY <1>2, <1>5, <1>6, <1>7

LEMMA LoadFacts ==
    ASSUME LoadInv, NEW l \in Loaders, Loading(l)
    PROVE  /\ BulkType /\ ProgressInv(l) /\ LoadType(l)
           /\ load[l].at \in 1..9 /\ load[l].zip \in DOMAIN Zips
           /\ load[l].touched \subseteq Bills /\ load[l].touched \subseteq Listed(l)
           /\ \A b \in load[l].touched : bills[b] # Absent
           /\ load[l].at > 2 => load[l].touched = Listed(l)
           /\ load[l].left \subseteq File(l, Sections[load[l].at], load[l].touched)
  BY Exported DEF LoadInv, BulkType, LoadersType, LoadType, Loading, Progress, ProgressInv,
     TouchedInv, LeftInv, Listed, Export

\* A section whose rows are stored as they are read, with any others.
LEMMA RowsStored ==
    ASSUME LoadInv, NEW l \in Loaders, Loading(l), load[l].at # 2, load[l].at # 4,
           load[l].at # 7, load[l].at # 9,
           NEW chunk \in SUBSET load[l].left,
           rows \cup chunk \subseteq rows', GoesTo(l, Past(l, chunk, load[l].touched)),
           UNCHANGED <<bills, votes, told, stray, complete>>
    PROVE  LoadInv'
<1>1. Grown
  BY DEF Grown, LoadInv, BulkType, StoreType
<1>2. TouchedBy(l, chunk, load[l].touched)
  BY DEF TouchedBy
<1>3. Stored(l, chunk, load[l].touched)
  <2>1. \A b \in load[l].touched : bills'[b] # Absent
    BY LoadFacts
  <2>2. \A r \in Export(l).rows : SectionOf(r.table) = load[l].at /\ Awaited(r, load[l].left)
                                   => Awaited(r, load[l].left \ chunk) \/ r \in rows'
    BY ReadDirectly DEF Awaited
  <2> QED BY <2>1, <2>2 DEF Stored
<1>4. Completes(l) /\ Counted(l, chunk)
  BY DEF Completes, Counted
<1>5. Progress' /\ LoadersType' /\ LoadedWhole' /\ RaceInv'
  BY <1>1, <1>2, <1>3, <1>4, LoadFacts, LoadGoesOn DEF LoadInv
<1>6. StoreType' /\ ToldInv'
  BY DEF LoadInv, BulkType, StoreType, ToldInv
<1> QED BY <1>5, <1>6 DEF LoadInv, BulkType

LEMMA OrganizationsStay ==
    ASSUME LoadInv, NEW l \in Loaders, LoadOrganizations(l) PROVE LoadInv'
  BY RowsStored, Numbered
  DEF LoadOrganizations, LoadAll, In, LoadInv, BulkType, LoadersType, LoadType

LEMMA SubjectsStay == ASSUME LoadInv, NEW l \in Loaders, LoadSubjects(l) PROVE LoadInv'
  BY RowsStored, Numbered
  DEF LoadSubjects, LoadAll, In, LoadInv, BulkType, LoadersType, LoadType

LEMMA ChunkStays ==
    ASSUME LoadInv, NEW l \in Loaders, LoadSponsorships(l) \/ LoadActions(l) PROVE LoadInv'
<1>1. Loading(l) /\ (load[l].at = 5 \/ load[l].at = 6) /\ LoadChunk(l)
  BY Numbered DEF LoadSponsorships, LoadActions, In, LoadInv, BulkType, LoadersType, LoadType
<1>2. PICK chunk \in Chunks(l) : rows' = rows \cup chunk /\ GoesTo(l, Past(l, chunk, load[l].touched))
  BY <1>1 DEF LoadChunk
<1>3. chunk \subseteq load[l].left
  BY ChunksAreLeft
<1> QED BY <1>1, <1>2, <1>3, RowsStored DEF LoadChunk

LEMMA DocumentsStay == ASSUME LoadInv, NEW l \in Loaders, LoadDocuments(l) PROVE LoadInv'
<1>1. Loading(l) /\ load[l].at = 8
  BY Numbered DEF LoadDocuments, In, LoadInv, BulkType, LoadersType, LoadType
<1>2. PICK chunk \in Chunks(l) : /\ rows' = rows \cup Placeholders(chunk) \cup chunk
                              /\ GoesTo(l, Past(l, chunk, load[l].touched))
  BY DEF LoadDocuments
<1>3. chunk \subseteq load[l].left /\ rows \cup chunk \subseteq rows'
  BY <1>2, ChunksAreLeft
<1> QED BY <1>1, <1>2, <1>3, RowsStored DEF LoadDocuments

LEMMA BillsStay == ASSUME LoadInv, NEW l \in Loaders, LoadBills(l) PROVE LoadInv'
<1>1. Loading(l) /\ load[l].at = 2
  BY Numbered DEF LoadBills, In, LoadInv, BulkType, LoadersType, LoadType
<1>2. PICK chunk \in Chunks(l) :
          /\ bills' = [b \in Bills |-> IF b \in Missing(l, chunk) \cup Changed(l, chunk)
                                       THEN Export(l).bills[b] ELSE bills[b]]
          /\ GoesTo(l, Past(l, chunk, Touched(l, chunk)))
  BY DEF LoadBills
<1> DEFINE touched == load[l].touched \cup chunk
<1>3. load[l].left \subseteq Listed(l) /\ chunk \subseteq load[l].left /\ touched = Touched(l, chunk)
      /\ Listed(l) \subseteq Bills /\ touched \subseteq Bills
      /\ \A b \in Listed(l) : Export(l).bills[b] \in Nat /\ Export(l).bills[b] # Absent
  BY <1>1, ChunksAreLeft, LoadFacts, FileOfBills, Exported DEF Touched, Listed, Export
<1>4. Missing(l, chunk) \cup Changed(l, chunk) \subseteq chunk
  BY DEF Missing, Changed
<1>5. \A b \in chunk : b \in Missing(l, chunk) \/ bills[b] # Absent
  BY <1>1, <1>3, LoadFacts DEF Missing, ProgressInv, TouchedInv
<1>6. bills' \in [Bills -> Nat]
      /\ \A b \in Bills : bills'[b] = IF b \in Missing(l, chunk) \cup Changed(l, chunk)
                                      THEN Export(l).bills[b] ELSE bills[b]
  <2>1. \A b \in Bills : bills[b] \in Nat
    BY DEF LoadInv, BulkType, StoreType
  <2>2. \A b \in Missing(l, chunk) \cup Changed(l, chunk) : Export(l).bills[b] \in Nat
    BY <1>3, <1>4
  <2> QED BY <1>2, <2>1, <2>2
<1> HIDE DEF touched
<1>7. Grown
  BY <1>3, <1>4, <1>6 DEF Grown, LoadBills, LoadInv, BulkType, StoreType
<1>8. TouchedBy(l, chunk, touched)
  BY <1>1 DEF TouchedBy, touched
<1>9. Stored(l, chunk, touched)
  <2>1. ASSUME NEW b \in touched
        PROVE  bills'[b] # Absent
    <3>1. b \in Bills
      BY <1>3
    <3>2. CASE b \in Missing(l, chunk) \cup Changed(l, chunk)
      BY <1>3, <1>4, <1>6, <3>1, <3>2
    <3>3. CASE b \notin Missing(l, chunk) \cup Changed(l, chunk)
      <4>1. bills[b] # Absent
        BY <1>1, <1>5, <3>3, LoadFacts DEF touched
      <4> QED BY <1>6, <3>1, <3>3, <4>1
    <3> QED BY <3>2, <3>3
  <2>2. \A r \in Export(l).rows : SectionOf(r.table) # load[l].at
    BY <1>1, LoadFacts, ExportedRows, SectionsOfTables DEF Export
  <2> QED BY <1>1, <2>1, <2>2 DEF Stored
<1>10. Completes(l) /\ Counted(l, chunk)
  BY DEF Completes, Counted, LoadBills
<1>11. Progress' /\ LoadersType' /\ LoadedWhole' /\ RaceInv'
  BY <1>1, <1>2, <1>3, <1>7, <1>8, <1>9, <1>10, LoadFacts, LoadGoesOn DEF LoadInv
<1>12. StoreType' /\ ToldInv'
  BY <1>6 DEF LoadBills, LoadInv, BulkType, StoreType, ToldInv
<1> QED BY <1>11, <1>12 DEF LoadInv, BulkType

\* The companions of the zip are among those the UPDATE resolves: every bill it
\* lists is stored by then.
LEMMA DetailsStay == ASSUME LoadInv, NEW l \in Loaders, LoadDetails(l) PROVE LoadInv'
<1> DEFINE stored == rows \cup load[l].left
<1>1. Loading(l) /\ load[l].at = 4 /\ load[l].touched = Listed(l)
  BY Numbered, LoadFacts DEF LoadDetails, In, LoadInv, BulkType, LoadersType, LoadType
<1>2. rows' = stored \cup Companions(stored) /\ GoesTo(l, Past(l, load[l].left, load[l].touched))
  BY DEF LoadDetails
<1>3. Grown
  BY <1>2 DEF Grown, LoadDetails, LoadInv, BulkType, StoreType
<1>4. TouchedBy(l, load[l].left, load[l].touched)
  BY <1>1 DEF TouchedBy
<1>5. Stored(l, load[l].left, load[l].touched)
  <2>1. \A b \in load[l].touched : bills'[b] # Absent
    BY <1>1, LoadFacts DEF LoadDetails
  <2>2. \A r \in Export(l).rows : SectionOf(r.table) = load[l].at /\ Awaited(r, load[l].left)
                                   => r \in rows'
    BY <1>1, <1>2, ReadDirectly
  <2>3. ASSUME NEW r \in Export(l).rows, Resolved(l, r)
        PROVE  Companion(r) \in rows'
    <3>1. r = [table |-> r.table, bill |-> r.bill, fact |-> r.fact] /\ r.table = "related"
          /\ r.fact \in Listed(l) /\ Listed(l) \subseteq Bills
      BY <1>1, <2>3, LoadFacts, ExportedRows, Exported DEF Resolved, Export, Listed
    <3>2. SectionOf(r.table) = 4
      BY <3>1 DEF SectionOf
    <3>3. r \in stored
      BY <1>1, <3>2, ReadDirectly, LoadFacts DEF ProgressInv, RowsInv
    <3>4. bills[r.fact] # Absent
      BY <1>1, <3>1, LoadFacts
    <3>5. Companion(r) = [table |-> "companions", bill |-> r.bill, fact |-> r.fact]
      BY <3>1 DEF Companion
    <3> QED BY <1>2, <3>1, <3>3, <3>4, <3>5 DEF Companions
  <2> QED BY <1>1, <2>1, <2>2, <2>3 DEF Stored
<1>6. Completes(l) /\ Counted(l, load[l].left)
  BY DEF Completes, Counted, LoadDetails
<1>7. Progress' /\ LoadersType' /\ LoadedWhole' /\ RaceInv'
  BY <1>1, <1>2, <1>3, <1>4, <1>5, <1>6, LoadFacts, LoadGoesOn DEF LoadInv
<1>8. StoreType' /\ ToldInv'
  BY DEF LoadDetails, LoadInv, BulkType, StoreType, ToldInv
<1> QED BY <1>7, <1>8 DEF LoadInv, BulkType

\* A link is stored with its version.
LEMMA VersionsStay == ASSUME LoadInv, NEW l \in Loaders, LoadVersions(l) PROVE LoadInv'
<1>1. Loading(l) /\ load[l].at = 7 /\ load[l].touched = Listed(l)
  BY Numbered, LoadFacts DEF LoadVersions, In, LoadInv, BulkType, LoadersType, LoadType
<1>2. PICK chunk \in Chunks(l) :
          /\ rows' = rows \cup chunk \cup {r \in InZip(l, {"links"}, load[l].touched) :
                                               [r EXCEPT !.table = "versions"] \in chunk}
          /\ GoesTo(l, Past(l, chunk, load[l].touched))
  BY DEF LoadVersions
<1>3. chunk \subseteq load[l].left
  BY ChunksAreLeft
<1>4. Grown
  BY <1>2 DEF Grown, LoadVersions, LoadInv, BulkType, StoreType
<1>5. TouchedBy(l, chunk, load[l].touched)
  BY <1>1 DEF TouchedBy
<1>6. Stored(l, chunk, load[l].touched)
  <2>1. \A b \in load[l].touched : bills'[b] # Absent
    BY <1>1, LoadFacts DEF LoadVersions
  <2>2. ASSUME NEW r \in Export(l).rows, SectionOf(r.table) = load[l].at, Awaited(r, load[l].left)
        PROVE  Awaited(r, load[l].left \ chunk) \/ r \in rows'
    <3>0. load[l].zip \in DOMAIN Zips
      BY <1>1, LoadFacts
    <3>1. r.table \in {"versions", "links"} /\ r.bill \in load[l].touched
      BY <1>1, <2>2, <3>0, ExportedRows, TablesOfSections DEF Export, Listed
    <3>2. CASE r.table = "versions"
      BY <1>2, <2>2, <3>2 DEF Awaited
    <3>3. CASE r.table = "links" /\ [r EXCEPT !.table = "versions"] \in load[l].left
      <4>1. r \in InZip(l, {"links"}, load[l].touched)
        BY <3>1, <3>3 DEF InZip
      <4> QED BY <1>2, <3>3, <4>1 DEF Awaited
    <3> QED BY <2>2, <3>1, <3>2, <3>3 DEF Awaited
  <2> QED BY <1>1, <2>1, <2>2 DEF Stored
<1>7. Completes(l) /\ Counted(l, chunk)
  BY DEF Completes, Counted, LoadVersions
<1>8. Progress' /\ LoadersType' /\ LoadedWhole' /\ RaceInv'
  BY <1>1, <1>2, <1>3, <1>4, <1>5, <1>6, <1>7, LoadFacts, LoadGoesOn DEF LoadInv
<1>9. StoreType' /\ ToldInv'
  BY DEF LoadVersions, LoadInv, BulkType, StoreType, ToldInv
<1> QED BY <1>8, <1>9 DEF LoadInv, BulkType

\* A vote's row and its event are of one chunk, and one that the load has seen
\* gets neither.
LEMMA VotesStay == ASSUME LoadInv, NEW l \in Loaders, LoadVotes(l) PROVE LoadInv'
<1>1. Loading(l) /\ load[l].at = 9 /\ load[l].touched = Listed(l) /\ ProgressInv(l)
  BY Numbered, LoadFacts DEF LoadVotes, In, LoadInv, BulkType, LoadersType, LoadType
<1>2. PICK chunk \in Chunks(l) :
          /\ votes' = OneMore(votes, Unseen(l, chunk))
          /\ told' = OneMore(told, Unseen(l, chunk))
          /\ rows' = rows \cup {r \in Export(l).rows : r.table = "records" /\ r.fact \in chunk}
          /\ GoesTo(l, Past(l, chunk, load[l].touched))
  BY DEF LoadVotes, Flushed
<1>3. chunk \subseteq load[l].left /\ chunk \subseteq Votes
  BY <1>1, ChunksAreLeft, LoadFacts, FileOfVotes, Exported DEF Export
<1>4. votes \in [Votes -> Nat] /\ told \in [Votes -> Nat]
  BY DEF LoadInv, BulkType, StoreType
<1>5. votes' \in [Votes -> Nat] /\ told' \in [Votes -> Nat]
  BY <1>2, <1>4 DEF OneMore
<1>6. Grown
  BY <1>2, <1>4, <1>5 DEF OneMore, Grown, LoadVotes, LoadInv, BulkType, StoreType
<1>7. TouchedBy(l, chunk, load[l].touched)
  BY <1>1 DEF TouchedBy
<1>8. Stored(l, chunk, load[l].touched)
  <2>1. \A b \in load[l].touched : bills'[b] # Absent
    BY <1>1, LoadFacts DEF LoadVotes
  <2>2. ASSUME NEW r \in Export(l).rows, SectionOf(r.table) = load[l].at, Awaited(r, load[l].left)
        PROVE  Awaited(r, load[l].left \ chunk) \/ r \in rows'
    <3>1. r.table = "records"
      BY <1>1, <2>2, LoadFacts, ExportedRows, TablesOfSections DEF Export
    <3>2. CASE r.fact \in chunk
      BY <1>2, <3>1, <3>2
    <3>3. CASE r.fact \in load[l].left \ chunk
      BY <3>1, <3>3 DEF Awaited
    <3> QED BY <2>2, <3>1, <3>2, <3>3 DEF Awaited
  <2>3. ASSUME NEW v \in chunk
        PROVE  votes'[v] > 0
    <3>1. v \in Votes /\ votes[v] \in Nat
      BY <1>3, <1>4
    <3>2. CASE v \in load[l].seen
      BY <1>1, <1>2, <3>1, <3>2 DEF OneMore, Unseen, ProgressInv, VotesInv
    <3>3. CASE v \notin load[l].seen
      BY <1>2, <3>1, <3>3 DEF OneMore, Unseen
    <3> QED BY <3>2, <3>3
  <2> QED BY <1>1, <2>1, <2>2, <2>3 DEF Stored
<1>9. Counted(l, chunk)
  BY <1>1, <1>2 DEF Counted, OneMore, Unseen
<1>10. Completes(l)
  BY DEF Completes, LoadVotes
<1>11. Progress' /\ LoadersType' /\ LoadedWhole' /\ complete' \subseteq DOMAIN Zips /\ RaceInv'
  BY <1>1, <1>2, <1>3, <1>6, <1>7, <1>8, <1>9, <1>10, LoadFacts, LoadGoesOn DEF LoadInv
<1>12. StoreType'
  BY <1>5, <1>6, <1>11 DEF Grown, LoadVotes, LoadInv, BulkType, StoreType
<1>13. ToldInv'
  BY <1>2, <1>4 DEF ToldInv, LoadVotes, LoadInv, OneMore
<1> QED BY <1>11, <1>12, <1>13 DEF LoadInv, BulkType

-----------------------------------------------------------------------------
(* A load that starts or ends early, and the other writers.                *)

\* What stands grows, so that what was whole stays whole.
LEMMA GrownWhole ==
    ASSUME LoadInv, Grown, complete' = complete
    PROVE  LoadedWhole'
<1>1. complete \subseteq DOMAIN Zips
  BY DEF LoadInv, BulkType, StoreType
<1>2. \A n \in complete' : Whole(n)'
  BY <1>1, WholeParts, WholeStays DEF LoadInv
<1> QED BY <1>1, <1>2, Exported DEF LoadedWhole, Whole, StoredVotes

LEMMA BeginStays ==
    ASSUME LoadInv, NEW l \in Loaders, NEW n \in DOMAIN Zips, Begin(l, n)
    PROVE  LoadInv'
<1> DEFINE file == {r \in Zips[n].rows : r.table = "organizations"} \ rows
<1> DEFINE s == [NoLoad EXCEPT !.at = 1, !.zip = n, !.left = file]
<1>1. /\ s = [at |-> 1, zip |-> n, left |-> file, known |-> NoLoad.known,
              touched |-> {}, seen |-> NoLoad.seen]
      /\ s.at = 1 /\ s.zip = n /\ s.left = file /\ s.touched = {} /\ s.known = NoLoad.known
      /\ s.seen = NoLoad.seen
  <2> DEFINE idle == NoLoad
  <2>1. idle = [at |-> idle.at, zip |-> idle.zip, left |-> idle.left, known |-> idle.known,
                touched |-> idle.touched, seen |-> idle.seen] /\ idle.touched = {}
    BY NoLoadIs
  <2> HIDE DEF idle
  <2>2. s = [idle EXCEPT !.at = 1, !.zip = n, !.left = file]
    BY DEF idle
  <2> HIDE DEF s, file
  <2>3. s = [at |-> 1, zip |-> n, left |-> file, known |-> idle.known,
             touched |-> {}, seen |-> idle.seen]
    BY <2>1, <2>2
  <2> QED BY <2>3 DEF idle
<1>2. GoesTo(l, s) /\ UNCHANGED <<bills, rows, votes, told, stray, complete>>
  BY DEF Begin
<1> HIDE DEF s
<1>3. load'[l] = s
  BY <1>2, GoesOn DEF LoadInv
<1>4. /\ load'[l].at = 1 /\ load'[l].zip = n /\ load'[l].left = file /\ load'[l].touched = {}
      /\ load'[l].known = NoLoad.known /\ Export(l)' = Zips[n]
  BY <1>1, <1>3 DEF Export
<1>5. LoadType(l)'
  BY <1>1, <1>3, <1>4, NoLoadIs DEF LoadType
<1>6. TouchedInv(l)'
  BY <1>4 DEF TouchedInv, NoLoad, Absent
<1>7. LeftInv(l)'
  <2>1. File(l, Sections[1], {})' = InZip(l, {"organizations"}, {})'
    BY SectionNames DEF File
  <2>2. \A r \in file : r \in InZip(l, {"organizations"}, {})'
    BY <1>4, ExportedRows DEF InZip
  <2> QED BY <1>4, <2>1, <2>2 DEF LeftInv
<1>8. RowsInv(l)'
  <2>1. ASSUME NEW r \in Zips[n].rows
        PROVE  /\ ~(SectionOf(r.table) < 1)
               /\ SectionOf(r.table) = 1 => r \in rows \/ Awaited(r, file)
    <3>1. r.table \in Tables \ {"companions", "placeholder"}
      BY ExportedRows
    <3>2. SectionOf(r.table) \in 1..9
      BY <3>1, SectionsOfTables
    <3>3. SectionOf(r.table) = 1 => r.table = "organizations"
      BY <3>1 DEF SectionOf, Tables
    <3> QED BY <3>2, <3>3 DEF Awaited
  <2> QED BY <1>2, <1>4, <2>1 DEF RowsInv
<1>9. CompanionsInv(l)' /\ VotesInv(l)'
  BY <1>4 DEF CompanionsInv, VotesInv
<1>10. ProgressInv(l)'
  BY <1>6, <1>7, <1>8, <1>9 DEF ProgressInv
<1>11. Grown
  BY <1>2 DEF Grown, LoadInv, BulkType, StoreType
<1>12. Progress' /\ LoadersType'
  BY <1>2, <1>5, <1>10, <1>11, OthersGoOn DEF LoadInv
<1>13. RaceInv'
  BY <1>1, <1>2, NoRace DEF LoadInv
<1>14. StoreType' /\ LoadedWhole' /\ ToldInv'
  BY <1>2, <1>11, GrownWhole DEF LoadInv, BulkType, StoreType, ToldInv
<1> QED BY <1>12, <1>13, <1>14 DEF LoadInv, BulkType

\* A load that ends, and what it leaves: it fails, or dies with its process.
LEMMA EndStays ==
    ASSUME LoadInv, NEW l \in Loaders, Ends(l), Grown, UNCHANGED <<votes, complete>>,
           StoreType', ToldInv'
    PROVE  LoadInv'
<1>1. load'[l] = NoLoad
  BY GoesOn DEF Ends, LoadInv
<1>2. ProgressInv(l)' /\ LoadType(l)'
  BY <1>1, NoProgress
<1>3. Progress' /\ LoadersType'
  BY <1>2, OthersGoOn DEF Ends, LoadInv
<1>4. RaceInv'
  BY NoLoadIs, NoRace DEF Ends, LoadInv
<1> QED BY <1>3, <1>4, GrownWhole DEF LoadInv, BulkType

LEMMA EndsAsItWas ==
    ASSUME LoadInv, NEW l \in Loaders, Ends(l),
           UNCHANGED <<bills, rows, votes, told, stray, complete>>
    PROVE  LoadInv'
<1>1. Grown
  BY DEF Grown, LoadInv, BulkType, StoreType
<1>2. StoreType' /\ ToldInv'
  BY DEF LoadInv, BulkType, StoreType, ToldInv
<1> QED BY <1>1, <1>2, EndStays

\* A chunk that breaks leaves events of votes without a row: of the stray ones.
LEMMA BreakStays == ASSUME LoadInv, NEW l \in Loaders, LoadBreaks(l) PROVE LoadInv'
<1>1. PICK part \in SUBSET load[l].left, flushed \in Earlier :
          /\ bills' = [b \in Bills |-> IF In(l, "bills") /\ b \in Changed(l, part)
                                       THEN Export(l).bills[b] ELSE bills[b]]
          /\ rows' = IF In(l, "details") THEN rows \cup {r \in load[l].left : r.table \in flushed}
                     ELSE rows
          /\ told' = IF In(l, "votes") THEN OneMore(told, Unseen(l, part)) ELSE told
          /\ stray' = IF In(l, "votes") THEN stray \cup Unseen(l, part) ELSE stray
  BY DEF LoadBreaks
<1>2. Loading(l) /\ Ends(l) /\ votes' = votes /\ complete' = complete
  BY DEF LoadBreaks
<1>3. load[l].at \in 0..9 /\ bills \in [Bills -> Nat] /\ votes \in [Votes -> Nat]
      /\ told \in [Votes -> Nat] /\ stray \subseteq Votes
  BY DEF LoadInv, BulkType, StoreType, LoadersType, LoadType
<1>4. In(l, "bills") => \A b \in Changed(l, part) : Export(l).bills[b] \in Nat
                                                  /\ Export(l).bills[b] # Absent
  <2>1. In(l, "bills") => load[l].left \subseteq Listed(l)
    BY <1>2, <1>3, LoadFacts, FileOfBills, Numbered
  <2> QED BY <1>2, <2>1, LoadFacts, Exported DEF Changed, Listed, Export
<1>5. In(l, "votes") => part \subseteq Votes
  <2>1. In(l, "votes") => load[l].left \subseteq Export(l).votes
    BY <1>2, <1>3, LoadFacts, FileOfVotes, Numbered
  <2> QED BY <1>2, <2>1, LoadFacts, Exported DEF Export
<1>6. bills' \in [Bills -> Nat] /\ told' \in [Votes -> Nat]
  BY <1>1, <1>3, <1>4 DEF OneMore
<1>7. stray' \subseteq Votes
  BY <1>1, <1>3, <1>5 DEF Unseen
<1>8. Grown
  <2>1. rows \subseteq rows'
    BY <1>1
  <2>2. \A b \in Bills : bills[b] # Absent => bills'[b] # Absent
    BY <1>1, <1>4
  <2> QED BY <1>2, <1>3, <1>6, <2>1, <2>2 DEF Grown
<1>9. ToldInv'
  <2>1. ASSUME NEW v \in Votes \ stray'
        PROVE  told'[v] = votes'[v]
    <3>1. v \notin stray /\ ~(In(l, "votes") /\ v \in Unseen(l, part))
      BY <1>1, <2>1
    <3>2. told[v] = votes[v]
      BY <3>1 DEF LoadInv, ToldInv
    <3>3. told'[v] = told[v]
      BY <1>1, <3>1 DEF OneMore
    <3> QED BY <1>2, <3>2, <3>3
  <2> QED BY <2>1 DEF ToldInv
<1>10. StoreType'
  BY <1>2, <1>3, <1>6, <1>7 DEF LoadInv, BulkType, StoreType
<1> QED BY <1>2, <1>8, <1>9, <1>10, EndStays

LEMMA SyncStays == ASSUME LoadInv, NEW b \in Bills, SyncBill(b) PROVE LoadInv'
<1>1. bills' = [bills EXCEPT ![b] = ByApi] /\ rows \subseteq rows'
      /\ UNCHANGED <<votes, told, stray, load, raced, complete>>
  BY DEF SyncBill
<1>2. Grown
  BY <1>1 DEF Grown, LoadInv, BulkType, StoreType, ByApi, Absent
<1>3. LoadedWhole'
  BY <1>1, <1>2, GrownWhole
<1>4. Progress' /\ LoadersType'
  BY <1>1, <1>2, BesideIt DEF LoadInv, BulkType, LoadersType, Progress
<1>5. StoreType' /\ ToldInv'
  BY <1>1, <1>2 DEF Grown, LoadInv, BulkType, StoreType, ToldInv
<1>6. RaceInv'
  BY <1>1 DEF LoadInv, RaceInv, Ahead, Apart
<1> QED BY <1>3, <1>4, <1>5, <1>6 DEF LoadInv, BulkType

LEMMA IdleStays == ASSUME LoadInv, UNCHANGED loadVars PROVE LoadInv'
<1>1. UNCHANGED <<bills, rows, votes, told, stray, load, raced, complete>>
  BY DEF loadVars
<1>2. Grown
  BY <1>1 DEF Grown, LoadInv, BulkType, StoreType
<1>3. LoadedWhole'
  BY <1>1, <1>2, GrownWhole
<1>4. Progress' /\ LoadersType'
  BY <1>1, <1>2, BesideIt DEF LoadInv, BulkType, LoadersType, Progress
<1>5. StoreType' /\ ToldInv'
  BY <1>1 DEF LoadInv, BulkType, StoreType, ToldInv
<1>6. RaceInv'
  BY <1>1 DEF LoadInv, RaceInv, Ahead, Apart
<1> QED BY <1>3, <1>4, <1>5, <1>6 DEF LoadInv, BulkType

-----------------------------------------------------------------------------
(* The theorems.                                                           *)

LEMMA LoadInit == Init => LoadInv
<1> SUFFICES ASSUME Init PROVE LoadInv
  OBVIOUS
<1>1. bills = [b \in Bills |-> Absent] /\ votes = [v \in Votes |-> 0]
      /\ told = [v \in Votes |-> 0] /\ stray = {} /\ load = [l \in Loaders |-> NoLoad]
      /\ complete = {}
  BY DEF Init, BulkInit
<1>2. \A l \in Loaders : LoadType(l) /\ ~Loading(l) /\ load[l].at = 0
  BY <1>1, NoLoadIs DEF LoadType, Loading
<1>3. StoreType /\ LoadersType /\ LoadedWhole /\ ToldInv
  BY <1>1, <1>2 DEF StoreType, LoadersType, LoadedWhole, ToldInv, Absent
<1>4. Progress
  BY <1>2 DEF Progress, ProgressInv, TouchedInv, LeftInv, RowsInv, CompanionsInv, VotesInv
<1>5. RaceInv
  BY <1>1, <1>2 DEF RaceInv, Ahead, Apart
<1> QED BY <1>3, <1>4, <1>5 DEF LoadInv, BulkType

LEMMA LoadNext == LoadInv /\ [Next]_vars => LoadInv'
<1> SUFFICES ASSUME LoadInv, [Next]_vars PROVE LoadInv'
  OBVIOUS
<1>1. ASSUME NEW w \in Workers, Boot(w)
      PROVE  LoadInv'
  <2>1. (\E n \in DOMAIN Zips : Begin(w, n)) \/ UNCHANGED loadVars
    BY <1>1 DEF Boot
  <2> QED BY <2>1, BeginStays, IdleStays, CoverageAssumption
<1>2. ASSUME NEW w \in Workers, Dies(w)
      PROVE  LoadInv'
  BY <1>2, EndsAsItWas, CoverageAssumption DEF Dies
<1>3. ASSUME NEW l \in Loaders, Bootstrap(l)
      PROVE  LoadInv'
  BY <1>3, BeginStays DEF Bootstrap
<1>4. ASSUME NEW l \in Loaders, Load(l)
      PROVE  LoadInv'
  <2>1. CASE LoadStep(l)
    BY <2>1, OrganizationsStay, BillsStay, SubjectsStay, DetailsStay, ChunkStays, VersionsStay,
       DocumentsStay, VotesStay DEF LoadStep
  <2>2. CASE LoadFails(l)
    BY <2>2, EndsAsItWas DEF LoadFails
  <2>3. CASE LoadBreaks(l)
    BY <2>3, BreakStays
  <2> QED BY <1>4, <2>1, <2>2, <2>3 DEF Load
<1>5. CASE Sync
  BY <1>5, SyncStays DEF Sync
<1>6. CASE RecomputeReads \/ RecomputeCommits \/ RecomputeFails
  BY <1>6, IdleStays DEF RecomputeReads, RecomputeCommits, RecomputeFails, bulkVars, loadVars
<1>7. CASE \E j \in Jurisdictions : Block(j)
  BY <1>7, IdleStays DEF Block, bulkVars, loadVars
<1>8. CASE \E v \in Validators : Select(v) \/ Judge(v) \/ JudgeFails(v)
  BY <1>8, IdleStays DEF Select, Judge, JudgeFails, bulkVars, loadVars
<1>9. CASE UNCHANGED vars
  BY <1>9, IdleStays DEF vars, bulkVars, loadVars
<1> QED BY <1>1, <1>2, <1>3, <1>4, <1>5, <1>6, <1>7, <1>8, <1>9 DEF Next

LEMMA LoadInvariant == Spec => []LoadInv
<1>1. Init => LoadInv
  BY LoadInit
<1>2. LoadInv /\ [Next]_vars => LoadInv'
  BY LoadNext
<1> QED BY <1>1, <1>2, PTL DEF Spec

\* A load that returned success has stored every bill, row, vote and companion
\* link of its zip, whatever other loads of any export, crashes, errors and the
\* API sync left or wrote before, beside it and after.
THEOREM LoadsAreWhole == Spec => []LoadedWhole
<1>1. LoadInv => LoadedWhole
  BY DEF LoadInv
<1> QED BY <1>1, LoadInvariant, PTL

\* Every stored row of a vote is announced by an event of its own, and there is
\* one of it, unless a load broke on a row it could not read with the vote in its
\* open chunk, or two loads were in the votes at once before the vote was stored:
\* overlapping as such, anywhere and of any number of loads, doubles nothing.
THEOREM VotesAreAnnouncedOnce == Spec => []VotesAnnouncedOnce
<1>1. LoadInv => VotesAnnouncedOnce
  BY DEF LoadInv, ToldInv, RaceInv, VotesAnnouncedOnce
<1> QED BY <1>1, LoadInvariant, PTL
=============================================================================
