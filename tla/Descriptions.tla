---------------------------- MODULE Descriptions ----------------------------
(***************************************************************************)
(* Descriptions: the text an agent wrote about a declaration, kept in a    *)
(* column of its database row.  Agents write and clear them by id, and do  *)
(* not take the topology lock; scans rebuild the rows from the source and  *)
(* carry the texts over, by id (restoreDescriptions) and, in a full scan,  *)
(* by identity too (remapByIdentity); and a sidecar file exports them and  *)
(* imports them again through the same matcher.                            *)
(*                                                                         *)
(* THINGS are declarations that share kind and name, so that only where    *)
(* they are and what they say can tell them apart.  They have no doc       *)
(* comment: one that has is described from the source by every parse.      *)
(***************************************************************************)
EXTENDS Naturals, FiniteSets

CONSTANTS
    Things,
    Files,
    Homes, Home,    \* [Files -> Homes]: what an id is rooted in: the package of
                    \* a Go file, the module that another language's file is
    Owners,         \* enclosing types
    Projects,       \* what the project manifest says; ids begin with it
    Bodies,
    Codes, Code,    \* [Bodies -> Codes]: the body without comments and blanks
    Long,           \* the codes of at least WeakTierMinLines lines
    Gone,           \* no such declaration
    Start,          \* [Things -> Place \cup {Gone}]: the source at first
    MaxEdits,       \* bound: edits of the source and the manifest, and imports
    MaxTexts        \* bound: texts written

Place == [file: Files, owner: Owners, body: Bodies]

ASSUME DescriptionsAssumption ==
    /\ Home \in [Files -> Homes] /\ Code \in [Bodies -> Codes] /\ Long \subseteq Codes
    /\ Gone \notin Place
    /\ Start \in [Things -> Place \cup {Gone}]
    /\ Projects # {}
    /\ MaxEdits \in Nat /\ MaxTexts \in Nat

VARIABLES
    source,     \* [Things -> Place \cup {Gone}]: the tree on disk
    project,    \* the project manifest on disk
    db,         \* the resources table: id -> Row
    scan,       \* the one scan that holds the topology lock
    sidecar,    \* descriptions.jsonl: id -> Row
    import,     \* the import under way
    word,       \* id -> Text: the last word on each row; history
    astray,     \* the rows that are known not to have it; history
    edits, texts

tree == <<source, project>>
history == <<word, astray>>
counts == <<edits, texts>>
vars == <<tree, db, scan, sidecar, import, history, counts>>

-----------------------------------------------------------------------------
Ids == [project: Projects, home: Homes, owner: Owners]
Text == 0 .. MaxTexts
NoText == 0
Row == [thing: Things, file: Files, owner: Owners, body: Bodies, text: Text]
Nothing == [i \in {} |-> 0]

\* before: the rows as the scan read them; found: the rows it parsed; raced: the
\* ids written to since it read.
NoScan == [on |-> FALSE, full |-> FALSE, batch |-> {}, raced |-> {},
           before |-> Nothing, found |-> Nothing]
NoImport == [on |-> FALSE, updates |-> Nothing, raced |-> {}]

IsTable(t, S) == DOMAIN t \subseteq Ids /\ \A i \in DOMAIN t : t[i] \in S

TypeOK ==
    /\ source \in [Things -> Place \cup {Gone}]
    /\ project \in Projects
    /\ IsTable(db, Row) /\ IsTable(sidecar, Row)
    /\ scan.on \in BOOLEAN /\ scan.full \in BOOLEAN
    /\ scan.batch \subseteq Files /\ scan.raced \subseteq Ids
    /\ IsTable(scan.before, Row) /\ IsTable(scan.found, Row)
    /\ import.on \in BOOLEAN /\ IsTable(import.updates, Text) /\ import.raced \subseteq Ids
    /\ IsTable(word, Text) /\ DOMAIN word = DOMAIN db
    /\ astray \subseteq DOMAIN db
    /\ \A i \in DOMAIN sidecar : sidecar[i].text # NoText
    /\ \A i \in DOMAIN import.updates : import.updates[i] # NoText
    /\ edits \in Nat /\ texts \in Nat

\* What a parser makes of these files; a text is not in them.
IdOf(p) == [project |-> project, home |-> Home[p.file], owner |-> p.owner]
Parsed(files) ==
    LET here == {t \in Things : source[t] # Gone /\ source[t].file \in files}
    IN [i \in {IdOf(source[t]) : t \in here} |->
          LET t == CHOOSE u \in here : IdOf(source[u]) = i
          IN [thing |-> t, file |-> source[t].file, owner |-> source[t].owner,
              body |-> source[t].body, text |-> NoText]]

\* No two declarations of one name in one place compile.
Compiles(s) ==
    \A t, u \in Things : t # u /\ s[t] # Gone /\ s[u] # Gone
        => <<Home[s[t].file], s[t].owner>> # <<Home[s[u].file], s[u].owner>>

\* A first scan has been made; nothing is described.
Init ==
    /\ source = Start /\ project = (CHOOSE p \in Projects : TRUE)
    /\ db = Parsed(Files)
    /\ scan = NoScan /\ sidecar = Nothing /\ import = NoImport
    /\ word = [i \in DOMAIN db |-> NoText] /\ astray = {}
    /\ edits = 0 /\ texts = 0

-----------------------------------------------------------------------------
(* The matcher.                                                            *)

\* (Two operators named for a slip -- DescribedOrNot, RewrittenAll -- are variants of
\* the next one that the checked properties must reject.)
Only(S) == IF Cardinality(S) = 1 THEN S ELSE {}
OrElse(S, T) == IF S # {} THEN S ELSE T

\* MatchDescriptions: the id a record's text belongs to, as a set that may be
\* empty.  A tier with several candidates decides nothing.
Match(id, rec, rows) ==
    LET all == DOMAIN rows
        SameId == {i \in all : i = id}
        SamePlace == {i \in all : rows[i].file = rec.file /\ rows[i].owner = rec.owner}
        Moved(S) == {i \in S : rows[i].owner = rec.owner}
        Exact == {i \in all : rows[i].body = rec.body}
        Normal == {i \in all : Code[rows[i].body] = Code[rec.body]}
        Weak(S) == IF Code[rec.body] \in Long THEN Only(S) ELSE {}
    IN OrElse(SameId, OrElse(Only(SamePlace), OrElse(Only(Moved(Exact)),
         OrElse(Only(Moved(Normal)), OrElse(Weak(Exact), Weak(Normal))))))

DescribedOrNot(rows) == DOMAIN rows
Described(rows) == {i \in DOMAIN rows : rows[i].text # NoText}
RecordsFor(i, recs, rows) == {r \in Described(recs) : i \in Match(r, recs[r], rows)}

\* What an import, or a remap, gives to the rows that have no text.
Offered(recs, rows) ==
    [i \in {j \in DOMAIN rows \ Described(rows) : RecordsFor(j, recs, rows) # {}} |->
        recs[CHOOSE r \in RecordsFor(i, recs, rows) : TRUE].text]

WithTexts(rows, given) ==
    [i \in DOMAIN rows |->
        IF i \in DOMAIN given THEN [rows[i] EXCEPT !.text = given[i]] ELSE rows[i]]

\* restoreDescriptions, and the first loop of fullReScanLocked.
Restored(rows, before) ==
    WithTexts(rows, [i \in DOMAIN rows \cap DOMAIN before |-> before[i].text])

-----------------------------------------------------------------------------
(* Scans.  One that fails, or dies, before its write leaves nothing behind  *)
(* and is no step here.                                                    *)

\* IncrementalScan and UpdateFile read the database, then parse; FullReScan parses
\* first.  Either way it is one step: nobody else moves rows, so that an edit
\* between the two is as if it came before, or after, and so is a text.  Which files
\* are parsed or resolved again is left open: ScanSync has that.
BeginUpdate ==
    /\ scan = NoScan
    /\ \E files \in SUBSET Files \ {{}} :
         scan' = [on |-> TRUE, full |-> FALSE, batch |-> files, raced |-> {},
                  before |-> db, found |-> Parsed(files)]
    /\ UNCHANGED <<tree, db, sidecar, import, history, counts>>

BeginFull ==
    /\ scan = NoScan
    /\ scan' = [on |-> TRUE, full |-> TRUE, batch |-> Files, raced |-> {},
                before |-> db, found |-> Parsed(Files)]
    /\ UNCHANGED <<tree, db, sidecar, import, history, counts>>

\* WriteIncremental with DiffResources: the rows that changed, and no others.  A
\* row of a file that was parsed or resolved again may have changed in its span
\* or its edges.
RewrittenAll(after, more) == DOMAIN after
Rewritten(after, more) ==
    {i \in DOMAIN after : i \notin DOMAIN scan.before \/ after[i] # scan.before[i]} \cup more

WriteUpdate ==
    /\ scan.on /\ ~scan.full
    /\ LET kept == {i \in DOMAIN scan.before : scan.before[i].file \notin scan.batch}
           bare == [i \in kept \cup DOMAIN scan.found |->
                       IF i \in DOMAIN scan.found THEN scan.found[i] ELSE scan.before[i]]
           after == Restored(bare, scan.before)
           mine == {i \in DOMAIN after : after[i].file \in scan.batch}
       IN /\ \E more \in SUBSET mine :
               db' = [i \in DOMAIN after |->
                         IF i \in Rewritten(after, more) THEN after[i] ELSE db[i]]
          /\ word' = [i \in DOMAIN after |-> IF i \in DOMAIN db THEN word[i] ELSE NoText]
          /\ astray' = (astray \cup (scan.raced \cap mine)) \cap DOMAIN after
    /\ scan' = NoScan
    /\ UNCHANGED <<tree, sidecar, import, counts>>

\* History: what a full scan is to make of the last words.  A row that keeps its id
\* keeps its word.  One that has none takes that of the row its declaration had,
\* if place or code still tell that it is the same; where another row's could be
\* taken for it, or it for another, or the old row was written to meanwhile, there is
\* no telling.
Alike(r, n) ==
    \/ r.file = n.file /\ r.owner = n.owner
    \/ Code[r.body] = Code[n.body] /\ (r.owner = n.owner \/ Code[r.body] \in Long)

FollowTexts(new) ==
    LET old == scan.before
        gone == Described(old) \ DOMAIN new
        Former(i) == {g \in gone : old[g].thing = new[i].thing}
        Known(i) == {g \in Former(i) : Alike(old[g], new[i])}
        Doubtful(i) ==
            \/ \E g, h \in Former(i) : g # h
            \/ \E g \in gone \ Former(i) : Alike(old[g], new[i])
            \/ \E g \in Former(i) : g \in scan.raced \cup astray
            \/ \E g \in Former(i), j \in DOMAIN new \ {i} : Alike(old[g], new[j])
        Heir(i) == Known(i) # {} /\ (i \in DOMAIN word => word[i] = NoText)
    IN /\ word' = [i \in DOMAIN new |->
                     IF Heir(i) THEN word[CHOOSE g \in Known(i) : TRUE]
                     ELSE IF i \in DOMAIN word THEN word[i] ELSE NoText]
       /\ astray' = {i \in DOMAIN new : i \in astray \cup scan.raced \/ Doubtful(i)}

\* WriteDb, after remapByIdentity.
WriteFull ==
    /\ scan.on /\ scan.full
    /\ LET rows == Restored(scan.found, scan.before)
           new == WithTexts(rows, Offered(scan.before, rows))
       IN /\ db' = new
          /\ FollowTexts(new)
    /\ scan' = NoScan
    /\ UNCHANGED <<tree, sidecar, import, counts>>

-----------------------------------------------------------------------------
(* Texts.                                                                  *)

\* These rows are written to, whoever reads or writes them meanwhile.
Race(ids) ==
    /\ scan' = IF scan.on THEN [scan EXCEPT !.raced = @ \cup ids] ELSE scan
    /\ import' = IF import.on THEN [import EXCEPT !.raced = @ \cup ids] ELSE import

\* UpdateDescription.
UpdateDescription ==
    /\ texts < MaxTexts /\ texts' = texts + 1
    /\ \E i \in DOMAIN db :
         /\ db' = [db EXCEPT ![i].text = texts']
         /\ word' = [word EXCEPT ![i] = texts']
         /\ astray' = astray \ {i}
         /\ Race({i})
    /\ UNCHANGED <<tree, sidecar, edits>>

ClearDescriptions ==
    /\ Described(db) # {}
    /\ db' = [i \in DOMAIN db |-> [db[i] EXCEPT !.text = NoText]]
    /\ word' = [i \in DOMAIN db |-> NoText]
    /\ astray' = {}
    /\ Race(Described(db))
    /\ UNCHANGED <<tree, sidecar, counts>>

\* RunDescriptionsExport.
Export ==
    /\ sidecar = Nothing        \* bound: one export
    /\ Described(db) # {}
    /\ sidecar' = [i \in Described(db) |-> db[i]]
    /\ UNCHANGED <<tree, db, scan, import, history, counts>>

\* RunDescriptionsImport reads the rows and matches; then UpdateDescriptions.
ImportRead ==
    /\ edits < MaxEdits /\ edits' = edits + 1
    /\ ~import.on /\ sidecar # Nothing
    /\ import' = [on |-> TRUE, updates |-> Offered(sidecar, db), raced |-> {}]
    /\ UNCHANGED <<tree, db, scan, sidecar, history, texts>>

ImportWrite ==
    /\ import.on
    /\ LET given == [i \in DOMAIN import.updates \cap DOMAIN db |-> import.updates[i]]
           newer == import.raced \cap DOMAIN given
       IN /\ db' = WithTexts(db, given)
          /\ word' = [i \in DOMAIN db |->
                        IF i \in DOMAIN given \ newer THEN given[i] ELSE word[i]]
          /\ astray' = (astray \ DOMAIN given) \cup newer
          /\ scan' = IF scan.on THEN [scan EXCEPT !.raced = @ \cup DOMAIN given] ELSE scan
    /\ import' = NoImport
    /\ UNCHANGED <<tree, sidecar, counts>>

-----------------------------------------------------------------------------
(* The programmer moves, edits, adds and removes declarations; during a scan *)
(* that is as if it were done after the scan.                              *)

Edit ==
    /\ scan = NoScan
    /\ edits < MaxEdits /\ edits' = edits + 1
    /\ \E t \in Things, p \in Place \cup {Gone} :
         /\ source' = [source EXCEPT ![t] = p]
         /\ source' # source
    /\ Compiles(source')
    /\ UNCHANGED <<project, db, scan, sidecar, import, history, texts>>

Turn ==
    /\ scan = NoScan
    /\ edits < MaxEdits /\ edits' = edits + 1
    /\ project' \in Projects \ {project}
    /\ UNCHANGED <<source, db, scan, sidecar, import, history, texts>>

-----------------------------------------------------------------------------
Next ==
    \/ BeginUpdate \/ BeginFull \/ WriteUpdate \/ WriteFull
    \/ UpdateDescription \/ ClearDescriptions \/ Export \/ ImportRead \/ ImportWrite
    \/ Edit \/ Turn

Spec == Init /\ [][Next]_vars

-----------------------------------------------------------------------------
(* What has to hold.                                                       *)

\* A row has the last text that was written to it, by whatever ids it went, and
\* no text that was cleared: scans and imports lose nothing, bring nothing back
\* and give nothing to the wrong row, but for the rows FollowTexts names
\* (restoreDescriptions, remapByIdentity, MatchDescriptions, DiffResources).
LastWordStands ==
    \A i \in DOMAIN db \ astray : db[i].text = word[i]
=============================================================================
