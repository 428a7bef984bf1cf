-------------------------- MODULE DescriptionsProofs --------------------------
(***************************************************************************)
(* A description stays with its declaration: whatever ids a row goes by,   *)
(* it has the last word written to it -- for any sources, files, edits and *)
(* texts.                                                                  *)
(***************************************************************************)
EXTENDS Descriptions, FiniteSetTheorems, TLAPS

-----------------------------------------------------------------------------
(* Tables, and what the operators on them make.                            *)

\* A parse finds rows of the files it was given, without texts.
LEMMA ParsedRows ==
    ASSUME NEW files \in SUBSET Files, source \in [Things -> Place \cup {Gone}], project \in Projects
    PROVE  /\ IsTable(Parsed(files), Row)
           /\ \A i \in DOMAIN Parsed(files) :
                Parsed(files)[i].text = NoText /\ Parsed(files)[i].file \in files
  <1> DEFINE here == {t \in Things : source[t] # Gone /\ source[t].file \in files}
             Found(i) == CHOOSE u \in here : IdOf(source[u]) = i
             ids == {IdOf(source[t]) : t \in here}
  <1>1. \A t \in here : t \in Things /\ source[t] \in Place /\ source[t].file \in files
    OBVIOUS
  <1>2. \A t \in here : IdOf(source[t]) \in Ids
    <2>1. \A q \in Place : q.file \in Files /\ q.owner \in Owners /\ Home[q.file] \in Homes
      BY DescriptionsAssumption DEF Place
    <2> QED BY <1>1, <2>1 DEF IdOf, Ids
  <1>3. \A i \in ids : Found(i) \in here
    OBVIOUS
  <1>4. NoText \in Text
    BY DescriptionsAssumption DEF NoText, Text
  <1>5. DOMAIN Parsed(files) = ids
    BY DEF Parsed
  <1>6. ASSUME NEW i \in ids
        PROVE  /\ Parsed(files)[i] \in Row
               /\ Parsed(files)[i].text = NoText /\ Parsed(files)[i].file \in files
    <2>1. Parsed(files)[i] = [thing |-> Found(i), file |-> source[Found(i)].file,
                              owner |-> source[Found(i)].owner,
                              body |-> source[Found(i)].body, text |-> NoText]
      BY DEF Parsed
    <2>2. Found(i) \in Things /\ source[Found(i)] \in Place /\ source[Found(i)].file \in files
      BY <1>1, <1>3
    <2>3. \A q \in Place : q.file \in Files /\ q.owner \in Owners /\ q.body \in Bodies
      BY DEF Place
    <2> HIDE DEF Found
    <2> QED BY <1>4, <2>1, <2>2, <2>3 DEF Row
  <1> QED BY <1>2, <1>5, <1>6 DEF IsTable

\* Rows that are given texts stay what they are but for those.
LEMMA RowsWithTexts ==
    ASSUME NEW rows, IsTable(rows, Row), NEW given, IsTable(given, Text)
    PROVE  LET new == WithTexts(rows, given)
           IN  /\ IsTable(new, Row)
               /\ DOMAIN new = DOMAIN rows
               /\ \A i \in DOMAIN rows :
                    /\ new[i].thing = rows[i].thing /\ new[i].file = rows[i].file
                    /\ new[i].owner = rows[i].owner /\ new[i].body = rows[i].body
                    /\ new[i].text = IF i \in DOMAIN given THEN given[i] ELSE rows[i].text
  BY DEF WithTexts, IsTable, Row

\* A row the scan read before keeps its text.
LEMMA RowsRestored ==
    ASSUME NEW rows, IsTable(rows, Row), NEW before, IsTable(before, Row)
    PROVE  LET new == Restored(rows, before)
           IN  /\ IsTable(new, Row)
               /\ DOMAIN new = DOMAIN rows
               /\ \A i \in DOMAIN rows :
                    /\ new[i].thing = rows[i].thing /\ new[i].file = rows[i].file
                    /\ new[i].owner = rows[i].owner /\ new[i].body = rows[i].body
                    /\ new[i].text = IF i \in DOMAIN before THEN before[i].text ELSE rows[i].text
  <1> DEFINE given == [i \in DOMAIN rows \cap DOMAIN before |-> before[i].text]
  <1>1. IsTable(given, Text)
    BY DEF IsTable, Row
  <1>2. /\ DOMAIN given = DOMAIN rows \cap DOMAIN before
        /\ \A i \in DOMAIN rows \cap DOMAIN before : given[i] = before[i].text
    OBVIOUS
  <1>3. Restored(rows, before) = WithTexts(rows, given)
    BY DEF Restored
  <1> HIDE DEF given
  <1> QED BY <1>1, <1>2, <1>3, RowsWithTexts

\* Only a row without text is offered one, and only one that a record has.
LEMMA TextsOffered ==
    ASSUME NEW recs, IsTable(recs, Row), NEW rows, IsTable(rows, Row)
    PROVE  LET given == Offered(recs, rows)
           IN  /\ IsTable(given, Text)
               /\ \A i \in DOMAIN given :
                    /\ i \in DOMAIN rows \ Described(rows)
                    /\ given[i] # NoText
                    /\ \E r \in RecordsFor(i, recs, rows) : given[i] = recs[r].text
               /\ \A i \in DOMAIN rows \ Described(rows) :
                    RecordsFor(i, recs, rows) # {} => i \in DOMAIN given
  <1> DEFINE given == Offered(recs, rows)
  <1>1. DOMAIN given = {j \in DOMAIN rows \ Described(rows) : RecordsFor(j, recs, rows) # {}}
    BY DEF Offered
  <1>2. ASSUME NEW i \in DOMAIN given
        PROVE  \E r \in RecordsFor(i, recs, rows) : given[i] = recs[r].text
    <2>1. given[i] = recs[CHOOSE r \in RecordsFor(i, recs, rows) : TRUE].text
      BY <1>1 DEF Offered
    <2> QED BY <1>1, <2>1
  <1>3. \A i : \A r \in RecordsFor(i, recs, rows) :
          recs[r] \in Row /\ recs[r].text # NoText /\ recs[r].text \in Text
    BY DEF RecordsFor, Described, IsTable, Row
  <1>4. DOMAIN rows \subseteq Ids
    BY DEF IsTable
  <1> HIDE DEF given
  <1> QED BY <1>1, <1>2, <1>3, <1>4 DEF IsTable, given

-----------------------------------------------------------------------------
(* The matcher.                                                            *)

LEMMA OneAlone ==
    /\ \A S : Only(S) \subseteq S
    /\ \A S, i : S \subseteq {i} => Only(S) = S
  <1>1. \A S : Only(S) \subseteq S
    BY DEF Only
  <1>2. ASSUME NEW S, NEW i, S \subseteq {i} PROVE Only(S) = S
    <2>1. CASE S = {}
      BY <2>1 DEF Only
    <2>2. CASE S = {i}
      BY <2>2, FS_Singleton DEF Only
    <2> QED BY <1>2, <2>1, <2>2
  <1> QED BY <1>1, <1>2

\* The text of a record whose id is gone goes to a row that is like it ...
LEMMA MatchIsAlike ==
    ASSUME NEW rows, NEW rec, NEW id, id \notin DOMAIN rows, NEW i \in Match(id, rec, rows)
    PROVE  i \in DOMAIN rows /\ Alike(rec, rows[i])
  BY OneAlone DEF Match, OrElse, Alike

\* ... and to one that is the only row like it.
LEMMA AlikeIsMatch ==
    ASSUME NEW rows, NEW rec, NEW id, id \notin DOMAIN rows,
           NEW i \in DOMAIN rows, Alike(rec, rows[i]),
           \A j \in DOMAIN rows : Alike(rec, rows[j]) => j = i
    PROVE  i \in Match(id, rec, rows)
  <1> DEFINE all == DOMAIN rows
             SamePlace == {j \in all : rows[j].file = rec.file /\ rows[j].owner = rec.owner}
             Exact == {j \in all : rows[j].body = rec.body}
             Normal == {j \in all : Code[rows[j].body] = Code[rec.body]}
             MovedExact == {j \in Exact : rows[j].owner = rec.owner}
             MovedNormal == {j \in Normal : rows[j].owner = rec.owner}
             WeakExact == IF Code[rec.body] \in Long THEN Only(Exact) ELSE {}
             WeakNormal == IF Code[rec.body] \in Long THEN Only(Normal) ELSE {}
  <1>1. /\ SamePlace \subseteq {i} /\ MovedExact \subseteq {i} /\ MovedNormal \subseteq {i}
        /\ Code[rec.body] \in Long => Exact \subseteq {i} /\ Normal \subseteq {i}
    BY DEF Alike
  <1>2. /\ Only(SamePlace) = SamePlace /\ Only(MovedExact) = MovedExact
        /\ Only(MovedNormal) = MovedNormal
        /\ Code[rec.body] \in Long => Only(Exact) = Exact /\ Only(Normal) = Normal
    BY <1>1, OneAlone
  <1>3. i \in SamePlace \/ i \in MovedNormal \/ (Code[rec.body] \in Long /\ i \in Normal)
    BY DEF Alike
  <1>4. Match(id, rec, rows) =
          OrElse({j \in all : j = id}, OrElse(Only(SamePlace), OrElse(Only(MovedExact),
            OrElse(Only(MovedNormal), OrElse(WeakExact, WeakNormal)))))
    BY DEF Match
  <1>5. {j \in all : j = id} = {}
    OBVIOUS
  <1>6. WeakExact \subseteq {i} /\ (Code[rec.body] \in Long /\ i \in Normal => i \in WeakNormal)
    BY <1>1, <1>2
  <1> HIDE DEF SamePlace, Exact, Normal, MovedExact, MovedNormal, WeakExact, WeakNormal
  <1> QED BY <1>1, <1>2, <1>3, <1>4, <1>5, <1>6 DEF OrElse

-----------------------------------------------------------------------------
(* Types.                                                                  *)

\* A scan and an import are records of their fields.
Whole ==
    /\ scan = [on |-> scan.on, full |-> scan.full, batch |-> scan.batch, raced |-> scan.raced,
               before |-> scan.before, found |-> scan.found]
    /\ import = [on |-> import.on, updates |-> import.updates, raced |-> import.raced]

Typed == TypeOK /\ Whole

\* What a scan that is on knows: the rows are the ones it read, with the texts it
\* read but where somebody wrote to them; and those it parsed have no text.
Remembered ==
    scan.on =>
        /\ DOMAIN scan.before = DOMAIN db
        /\ \A i \in DOMAIN db \ scan.raced : db[i].text = scan.before[i].text
        /\ \A i \in DOMAIN scan.found :
             scan.found[i].text = NoText /\ scan.found[i].file \in scan.batch

IInv == Typed /\ Remembered /\ LastWordStands

LEMMA NothingIsTable ==
    /\ \A S : IsTable(Nothing, S)
    /\ DOMAIN Nothing = {}
  BY DEF IsTable, Nothing

LEMMA InitHolds == Init => IInv
  <1> SUFFICES ASSUME Init PROVE IInv
    OBVIOUS
  <1>1. source \in [Things -> Place \cup {Gone}] /\ project \in Projects
    BY DescriptionsAssumption DEF Init
  <1>2. /\ IsTable(db, Row)
        /\ \A i \in DOMAIN db : db[i].text = NoText
    BY <1>1, ParsedRows DEF Init
  <1>3. NoText \in Text
    BY DescriptionsAssumption DEF NoText, Text
  <1>4. /\ DOMAIN word = DOMAIN db /\ IsTable(word, Text)
        /\ \A i \in DOMAIN db : word[i] = NoText
    BY <1>2, <1>3 DEF Init, IsTable
  <1>5. /\ scan = [on |-> FALSE, full |-> FALSE, batch |-> {}, raced |-> {},
                   before |-> Nothing, found |-> Nothing]
        /\ import = [on |-> FALSE, updates |-> Nothing, raced |-> {}]
        /\ sidecar = Nothing /\ astray = {} /\ edits = 0 /\ texts = 0
    BY DEF Init, NoScan, NoImport
  <1>6. Whole
    BY <1>5 DEF Whole
  <1>7. TypeOK
    BY <1>1, <1>2, <1>4, <1>5, NothingIsTable DEF TypeOK
  <1>8. Remembered /\ LastWordStands
    BY <1>2, <1>4, <1>5 DEF Remembered, LastWordStands
  <1> QED BY <1>6, <1>7, <1>8 DEF IInv, Typed

\* A scan reads the rows and parses files.
LEMMA BeginHolds ==
    ASSUME IInv, BeginUpdate \/ BeginFull
    PROVE  IInv'
  <1>1. PICK full \in BOOLEAN, files \in SUBSET Files :
          scan' = [on |-> TRUE, full |-> full, batch |-> files, raced |-> {},
                   before |-> db, found |-> Parsed(files)]
    <2>1. CASE BeginUpdate
      BY <2>1 DEF BeginUpdate
    <2>2. CASE BeginFull
      BY <2>2 DEF BeginFull
    <2> QED BY <2>1, <2>2
  <1>2. UNCHANGED <<tree, db, sidecar, import, history, counts>>
    BY DEF BeginUpdate, BeginFull
  <1>3. /\ IsTable(Parsed(files), Row)
        /\ \A i \in DOMAIN Parsed(files) :
             Parsed(files)[i].text = NoText /\ Parsed(files)[i].file \in files
    BY ParsedRows DEF IInv, Typed, TypeOK
  <1> DEFINE found == Parsed(files)
  <1>4. /\ scan'.on = TRUE /\ scan'.full = full /\ scan'.batch = files /\ scan'.raced = {}
        /\ scan'.before = db /\ scan'.found = found
    BY <1>1
  <1> HIDE DEF found
  <1>5. Whole'
    BY <1>1, <1>2, <1>4 DEF IInv, Typed, Whole, found
  <1>6. TypeOK'
    BY <1>2, <1>3, <1>4 DEF IInv, Typed, TypeOK, tree, history, counts, found, IsTable
  <1>7. Remembered' /\ LastWordStands'
    BY <1>2, <1>3, <1>4 DEF IInv, Remembered, LastWordStands, history, found
  <1> QED BY <1>5, <1>6, <1>7 DEF IInv, Typed

\* Rows are written to: the scan and the import that are on are told.
LEMMA RaceTells ==
    ASSUME Typed, NEW ids \in SUBSET Ids, Race(ids)
    PROVE  /\ scan'.on = scan.on /\ scan'.full = scan.full /\ scan'.batch = scan.batch
           /\ scan'.before = scan.before /\ scan'.found = scan.found
           /\ scan'.raced \subseteq Ids
           /\ scan.on => scan'.raced = scan.raced \cup ids
           /\ import'.on = import.on /\ import'.updates = import.updates
           /\ import'.raced \subseteq Ids
           /\ Whole'
  BY DEF Typed, TypeOK, Whole, Race

\* A text is written to one row ...
LEMMA UpdateHolds == IInv /\ UpdateDescription => IInv'
  <1> SUFFICES ASSUME IInv, UpdateDescription PROVE IInv'
    OBVIOUS
  <1>1. PICK i \in DOMAIN db :
          /\ db' = [db EXCEPT ![i].text = texts']
          /\ word' = [word EXCEPT ![i] = texts']
          /\ astray' = astray \ {i}
          /\ Race({i})
    BY DEF UpdateDescription
  <1>2. texts' \in Text /\ texts' \in Nat /\ texts' # NoText
    BY DescriptionsAssumption DEF UpdateDescription, IInv, Typed, TypeOK, Text, NoText
  <1>3. DOMAIN db \subseteq Ids /\ (\A j \in DOMAIN db : db[j] \in Row) /\ DOMAIN word = DOMAIN db
        /\ \A j \in DOMAIN word : word[j] \in Text
    BY DEF IInv, Typed, TypeOK, IsTable
  <1>4. /\ DOMAIN db' = DOMAIN db
        /\ \A j \in DOMAIN db \ {i} : db'[j] = db[j]
        /\ db'[i].text = texts' /\ db'[i] \in Row
    BY <1>1, <1>2, <1>3 DEF Row
  <1>5. /\ DOMAIN word' = DOMAIN db
        /\ \A j \in DOMAIN db \ {i} : word'[j] = word[j]
        /\ word'[i] = texts'
    BY <1>1, <1>3
  <1>6. /\ IsTable(db', Row) /\ IsTable(word', Text)
    BY <1>2, <1>3, <1>4, <1>5 DEF IsTable
  <1>7. /\ scan'.on = scan.on /\ scan'.full = scan.full /\ scan'.batch = scan.batch
        /\ scan'.before = scan.before /\ scan'.found = scan.found
        /\ scan'.raced \subseteq Ids
        /\ scan.on => scan'.raced = scan.raced \cup {i}
        /\ import'.on = import.on /\ import'.updates = import.updates
        /\ import'.raced \subseteq Ids
        /\ Whole'
    BY <1>1, <1>3, RaceTells DEF IInv
  <1>8. UNCHANGED <<tree, sidecar, edits>>
    BY DEF UpdateDescription
  <1>9. TypeOK'
    BY <1>1, <1>2, <1>4, <1>5, <1>6, <1>7, <1>8 DEF IInv, Typed, TypeOK, tree, IsTable
  <1>10. Remembered'
    BY <1>4, <1>7 DEF IInv, Remembered
  <1>11. LastWordStands'
    BY <1>1, <1>4, <1>5 DEF IInv, LastWordStands
  <1> QED BY <1>7, <1>9, <1>10, <1>11 DEF IInv, Typed

\* ... or all texts are cleared.
LEMMA ClearHolds == IInv /\ ClearDescriptions => IInv'
  <1> SUFFICES ASSUME IInv, ClearDescriptions PROVE IInv'
    OBVIOUS
  <1>1. /\ db' = [i \in DOMAIN db |-> [db[i] EXCEPT !.text = NoText]]
        /\ word' = [i \in DOMAIN db |-> NoText]
        /\ astray' = {} /\ Race(Described(db)) /\ UNCHANGED <<tree, sidecar, counts>>
    BY DEF ClearDescriptions
  <1>2. NoText \in Text
    BY DescriptionsAssumption DEF NoText, Text
  <1>3. DOMAIN db \subseteq Ids /\ \A j \in DOMAIN db : db[j] \in Row
    BY DEF IInv, Typed, TypeOK, IsTable
  <1>4. /\ DOMAIN db' = DOMAIN db /\ DOMAIN word' = DOMAIN db
        /\ \A j \in DOMAIN db : db'[j].text = NoText /\ word'[j] = NoText /\ db'[j] \in Row
    BY <1>1, <1>2, <1>3 DEF Row
  <1>5. IsTable(db', Row) /\ IsTable(word', Text)
    BY <1>2, <1>3, <1>4 DEF IsTable
  <1>6. Described(db) \subseteq Ids
    BY <1>3 DEF Described
  <1>7. /\ scan'.on = scan.on /\ scan'.full = scan.full /\ scan'.batch = scan.batch
        /\ scan'.before = scan.before /\ scan'.found = scan.found
        /\ scan'.raced \subseteq Ids
        /\ scan.on => scan'.raced = scan.raced \cup Described(db)
        /\ import'.on = import.on /\ import'.updates = import.updates
        /\ import'.raced \subseteq Ids
        /\ Whole'
    BY <1>1, <1>6, RaceTells DEF IInv
  <1>8. TypeOK'
    BY <1>1, <1>4, <1>5, <1>7 DEF IInv, Typed, TypeOK, tree, counts, IsTable
  <1>9. Remembered'
    BY <1>4, <1>7 DEF IInv, Remembered, Described
  <1>10. LastWordStands'
    BY <1>4 DEF LastWordStands
  <1> QED BY <1>7, <1>8, <1>9, <1>10 DEF IInv, Typed

\* Texts leave for the sidecar.
LEMMA ExportHolds == IInv /\ Export => IInv'
  <1> SUFFICES ASSUME IInv, Export PROVE IInv'
    OBVIOUS
  <1>1. sidecar' = [i \in Described(db) |-> db[i]]
        /\ UNCHANGED <<tree, db, scan, import, history, counts>>
    BY DEF Export
  <1>2. IsTable(sidecar', Row) /\ \A i \in DOMAIN sidecar' : sidecar'[i].text # NoText
    BY <1>1 DEF IInv, Typed, TypeOK, IsTable, Described
  <1>3. TypeOK'
    BY <1>1, <1>2 DEF IInv, Typed, TypeOK, tree, history, counts, IsTable
  <1>4. Whole' /\ Remembered' /\ LastWordStands'
    BY <1>1 DEF IInv, Typed, Whole, Remembered, LastWordStands, history
  <1> QED BY <1>3, <1>4 DEF IInv, Typed

LEMMA ImportReadHolds == IInv /\ ImportRead => IInv'
  <1> SUFFICES ASSUME IInv, ImportRead PROVE IInv'
    OBVIOUS
  <1> DEFINE given == Offered(sidecar, db)
  <1>1. import' = [on |-> TRUE, updates |-> given, raced |-> {}]
        /\ edits' = edits + 1 /\ UNCHANGED <<tree, db, scan, sidecar, history, texts>>
    BY DEF ImportRead
  <1>2. IsTable(given, Text) /\ \A i \in DOMAIN given : given[i] # NoText
    BY TextsOffered DEF IInv, Typed, TypeOK
  <1> HIDE DEF given
  <1>3. /\ import'.on = TRUE /\ import'.updates = given /\ import'.raced = {}
        /\ edits' \in Nat
    BY <1>1 DEF IInv, Typed, TypeOK
  <1>4. TypeOK'
    BY <1>1, <1>2, <1>3 DEF IInv, Typed, TypeOK, tree, history, IsTable
  <1>5. Whole'
    BY <1>1, <1>3 DEF IInv, Typed, Whole
  <1>6. Remembered' /\ LastWordStands'
    BY <1>1 DEF IInv, Remembered, LastWordStands, history
  <1> QED BY <1>4, <1>5, <1>6 DEF IInv, Typed

\* An import writes the texts it matched, whatever was written meanwhile.
LEMMA ImportWriteHolds == IInv /\ ImportWrite => IInv'
  <1> SUFFICES ASSUME IInv, ImportWrite PROVE IInv'
    OBVIOUS
  <1> DEFINE given == [i \in DOMAIN import.updates \cap DOMAIN db |-> import.updates[i]]
             newer == import.raced \cap DOMAIN given
  <1>1. /\ db' = WithTexts(db, given)
        /\ word' = [i \in DOMAIN db |->
                      IF i \in DOMAIN given \ newer THEN given[i] ELSE word[i]]
        /\ astray' = (astray \ DOMAIN given) \cup newer
        /\ scan' = IF scan.on THEN [scan EXCEPT !.raced = @ \cup DOMAIN given] ELSE scan
        /\ import' = NoImport
        /\ UNCHANGED <<tree, sidecar, counts>>
    BY DEF ImportWrite
  <1>2. IsTable(db, Row) /\ IsTable(word, Text) /\ DOMAIN word = DOMAIN db
    BY DEF IInv, Typed, TypeOK
  <1>3. IsTable(given, Text) /\ DOMAIN given \subseteq DOMAIN db /\ DOMAIN given \subseteq Ids
    BY DEF IInv, Typed, TypeOK, IsTable
  <1> HIDE DEF given
  <1>4. /\ IsTable(db', Row) /\ DOMAIN db' = DOMAIN db
        /\ \A i \in DOMAIN db : db'[i].text = IF i \in DOMAIN given THEN given[i] ELSE db[i].text
    BY <1>1, <1>2, <1>3, RowsWithTexts
  <1>5. /\ DOMAIN word' = DOMAIN db /\ IsTable(word', Text)
        /\ \A i \in DOMAIN db :
             word'[i] = IF i \in DOMAIN given \ newer THEN given[i] ELSE word[i]
    BY <1>1, <1>2, <1>3 DEF IsTable
  <1>6. /\ scan'.on = scan.on /\ scan'.full = scan.full /\ scan'.batch = scan.batch
        /\ scan'.before = scan.before /\ scan'.found = scan.found
        /\ scan'.raced \subseteq Ids
        /\ scan.on => scan'.raced = scan.raced \cup DOMAIN given
        /\ scan' = [on |-> scan'.on, full |-> scan'.full, batch |-> scan'.batch, raced |-> scan'.raced,
                    before |-> scan'.before, found |-> scan'.found]
    BY <1>1, <1>3 DEF IInv, Typed, TypeOK, Whole
  <1>7. /\ import'.on = FALSE /\ import'.updates = Nothing /\ import'.raced = {}
        /\ import' = [on |-> import'.on, updates |-> import'.updates, raced |-> import'.raced]
    BY <1>1 DEF NoImport
  <1>8. astray' \subseteq DOMAIN db
    BY <1>1, <1>3 DEF IInv, Typed, TypeOK
  <1>9. TypeOK'
    BY <1>1, <1>4, <1>5, <1>6, <1>7, <1>8, NothingIsTable
    DEF IInv, Typed, TypeOK, tree, counts, IsTable
  <1>10. Whole'
    BY <1>6, <1>7 DEF Whole
  <1>11. Remembered'
    BY <1>4, <1>6 DEF IInv, Remembered
  <1>12. LastWordStands'
    BY <1>1, <1>4, <1>5 DEF IInv, LastWordStands
  <1> QED BY <1>9, <1>10, <1>11, <1>12 DEF IInv, Typed

\* The programmer is at the source, not at the rows.
LEMMA EditHolds == IInv /\ (Edit \/ Turn) => IInv'
  <1> SUFFICES ASSUME IInv, Edit \/ Turn PROVE IInv'
    OBVIOUS
  <1>1. source' \in [Things -> Place \cup {Gone}] /\ project' \in Projects /\ edits' \in Nat
    BY DEF Edit, Turn, IInv, Typed, TypeOK
  <1>2. UNCHANGED <<db, scan, sidecar, import, history, texts>>
    BY DEF Edit, Turn
  <1>3. TypeOK'
    BY <1>1, <1>2 DEF IInv, Typed, TypeOK, history, IsTable
  <1>4. Whole' /\ Remembered' /\ LastWordStands'
    BY <1>2 DEF IInv, Typed, Whole, Remembered, LastWordStands, history
  <1> QED BY <1>3, <1>4 DEF IInv, Typed

\* A scan of some files writes the rows that changed; it may put back the text it
\* read only where it wrote a row of these files.
LEMMA WriteUpdateHolds == IInv /\ WriteUpdate => IInv'
  <1> SUFFICES ASSUME IInv, WriteUpdate PROVE IInv'
    OBVIOUS
  <1> DEFINE kept == {i \in DOMAIN scan.before : scan.before[i].file \notin scan.batch}
             bare == [i \in kept \cup DOMAIN scan.found |->
                         IF i \in DOMAIN scan.found THEN scan.found[i] ELSE scan.before[i]]
             after == Restored(bare, scan.before)
             mine == {i \in DOMAIN after : after[i].file \in scan.batch}
  <1>0. /\ scan.on
        /\ IsTable(db, Row) /\ IsTable(scan.before, Row) /\ IsTable(scan.found, Row)
        /\ IsTable(word, Text) /\ DOMAIN word = DOMAIN db
        /\ DOMAIN scan.before = DOMAIN db
        /\ \A i \in DOMAIN db \ scan.raced : db[i].text = scan.before[i].text
        /\ \A i \in DOMAIN scan.found :
             scan.found[i].text = NoText /\ scan.found[i].file \in scan.batch
    BY DEF WriteUpdate, IInv, Typed, TypeOK, Remembered
  <1>1. PICK more \in SUBSET mine :
          db' = [i \in DOMAIN after |-> IF i \in Rewritten(after, more) THEN after[i] ELSE db[i]]
    BY DEF WriteUpdate
  <1>2. /\ word' = [i \in DOMAIN after |-> IF i \in DOMAIN db THEN word[i] ELSE NoText]
        /\ astray' = (astray \cup (scan.raced \cap mine)) \cap DOMAIN after
        /\ scan' = NoScan
        /\ UNCHANGED <<tree, sidecar, import, counts>>
    BY DEF WriteUpdate
  <1>3. /\ IsTable(bare, Row) /\ DOMAIN bare = kept \cup DOMAIN scan.found
        /\ \A i \in DOMAIN bare : bare[i] = IF i \in DOMAIN scan.found THEN scan.found[i]
                                            ELSE scan.before[i]
    BY <1>0 DEF IsTable
  <1>4. \A i \in DOMAIN bare : i \notin DOMAIN scan.found => i \in DOMAIN scan.before
    BY <1>3
  <1> HIDE DEF bare
  <1>5. /\ IsTable(after, Row) /\ DOMAIN after = DOMAIN bare
        /\ \A i \in DOMAIN bare :
             /\ after[i].thing = bare[i].thing /\ after[i].file = bare[i].file
             /\ after[i].owner = bare[i].owner /\ after[i].body = bare[i].body
             /\ after[i].text = IF i \in DOMAIN scan.before THEN scan.before[i].text ELSE bare[i].text
    BY <1>0, <1>3, RowsRestored
  <1> HIDE DEF after
  <1>6. \A i \in DOMAIN after \ DOMAIN scan.found :
          i \in DOMAIN scan.before /\ after[i] = scan.before[i]
    <2>1. \A x, y \in Row : /\ x.thing = y.thing /\ x.file = y.file /\ x.owner = y.owner
                            /\ x.body = y.body /\ x.text = y.text
                            => x = y
      BY DEF Row
    <2> QED BY <1>0, <1>3, <1>4, <1>5, <2>1 DEF IsTable
  <1>7. \A i \in DOMAIN after : i \in DOMAIN scan.found => i \in mine
    BY <1>0, <1>3, <1>5
  <1>8. \A i \in DOMAIN after : i \in Rewritten(after, more) => i \in mine
    BY <1>1, <1>6, <1>7 DEF Rewritten
  <1>9. \A i \in DOMAIN after : i \notin Rewritten(after, more) => i \in DOMAIN db
    BY <1>0 DEF Rewritten
  <1>10. /\ DOMAIN db' = DOMAIN after
         /\ \A i \in DOMAIN after :
              db'[i] = IF i \in Rewritten(after, more) THEN after[i] ELSE db[i]
    BY <1>1
  <1>11. /\ DOMAIN word' = DOMAIN after
         /\ \A i \in DOMAIN after : word'[i] = IF i \in DOMAIN db THEN word[i] ELSE NoText
    BY <1>2
  <1>12. NoText \in Text
    BY DescriptionsAssumption DEF NoText, Text
  <1>13. IsTable(db', Row)
    BY <1>0, <1>5, <1>9, <1>10 DEF IsTable
  <1>14. IsTable(word', Text)
    BY <1>0, <1>5, <1>11, <1>12 DEF IsTable
  <1>15. /\ scan'.on = FALSE /\ scan'.full = FALSE /\ scan'.batch = {} /\ scan'.raced = {}
         /\ scan'.before = Nothing /\ scan'.found = Nothing
         /\ scan' = [on |-> scan'.on, full |-> scan'.full, batch |-> scan'.batch, raced |-> scan'.raced,
                     before |-> scan'.before, found |-> scan'.found]
    BY <1>2 DEF NoScan
  <1>16. TypeOK'
    BY <1>2, <1>10, <1>11, <1>13, <1>14, <1>15, NothingIsTable
    DEF IInv, Typed, TypeOK, tree, counts, IsTable
  <1>17. Whole' /\ Remembered'
    BY <1>2, <1>15 DEF IInv, Typed, Whole, Remembered
  <1>18. ASSUME NEW i \in DOMAIN after, i \notin astray'
         PROVE  db'[i].text = word'[i]
    <2>1. i \notin astray /\ (i \in scan.raced => i \notin mine)
      BY <1>2, <1>18
    <2>2. CASE i \in Rewritten(after, more)
      <3>1. i \notin scan.raced
        BY <1>8, <2>1, <2>2
      <3>2. CASE i \in DOMAIN db
        BY <1>0, <1>5, <1>10, <1>11, <2>1, <2>2, <3>1, <3>2 DEF IInv, LastWordStands
      <3>3. CASE i \notin DOMAIN db
        <4>1. i \in DOMAIN scan.found
          BY <1>0, <1>6, <3>3
        <4>2. bare[i].text = NoText
          BY <1>0, <1>3, <1>5, <4>1
        <4> QED BY <1>0, <1>5, <1>10, <1>11, <2>2, <3>3, <4>2
      <3> QED BY <3>2, <3>3
    <2>3. CASE i \notin Rewritten(after, more)
      BY <1>9, <1>10, <1>11, <2>1, <2>3 DEF IInv, LastWordStands
    <2> QED BY <2>2, <2>3
  <1>19. LastWordStands'
    BY <1>10, <1>18 DEF LastWordStands
  <1> QED BY <1>16, <1>17, <1>19 DEF IInv, Typed

\* A full scan gives a row that is new the text of the one its declaration had.
LEMMA WriteFullHolds == IInv /\ WriteFull => IInv'
  <1> SUFFICES ASSUME IInv, WriteFull PROVE IInv'
    OBVIOUS
  <1> DEFINE old == scan.before
             rows == Restored(scan.found, old)
             given == Offered(old, rows)
             new == WithTexts(rows, given)
             gone == Described(old) \ DOMAIN new
             Former(i) == {g \in gone : old[g].thing = new[i].thing}
             Known(i) == {g \in Former(i) : Alike(old[g], new[i])}
             Doubtful(i) ==
               \/ \E g, h \in Former(i) : g # h
               \/ \E g \in gone \ Former(i) : Alike(old[g], new[i])
               \/ \E g \in Former(i) : g \in scan.raced \cup astray
               \/ \E g \in Former(i), j \in DOMAIN new \ {i} : Alike(old[g], new[j])
             Heir(i) == Known(i) # {} /\ (i \in DOMAIN word => word[i] = NoText)
  <1>0. /\ scan.on
        /\ IsTable(db, Row) /\ IsTable(old, Row) /\ IsTable(scan.found, Row)
        /\ IsTable(word, Text) /\ DOMAIN word = DOMAIN db
        /\ DOMAIN old = DOMAIN db
        /\ \A i \in DOMAIN db \ scan.raced : db[i].text = old[i].text
        /\ \A i \in DOMAIN scan.found : scan.found[i].text = NoText
    BY DEF WriteFull, IInv, Typed, TypeOK, Remembered
  <1>1. db' = new /\ FollowTexts(new) /\ scan' = NoScan /\ UNCHANGED <<tree, sidecar, import, counts>>
    BY DEF WriteFull
  <1>2. /\ word' = [i \in DOMAIN new |->
                      IF Heir(i) THEN word[CHOOSE g \in Known(i) : TRUE]
                      ELSE IF i \in DOMAIN word THEN word[i] ELSE NoText]
        /\ astray' = {i \in DOMAIN new : i \in astray \cup scan.raced \/ Doubtful(i)}
    BY <1>1 DEF FollowTexts
  <1>3. /\ IsTable(rows, Row) /\ DOMAIN rows = DOMAIN scan.found
        /\ \A i \in DOMAIN rows :
             rows[i].text = IF i \in DOMAIN old THEN old[i].text ELSE NoText
    BY <1>0, RowsRestored
  <1>4. /\ IsTable(given, Text)
        /\ \A i \in DOMAIN given : \E r \in RecordsFor(i, old, rows) : given[i] = old[r].text
        /\ \A i \in DOMAIN given : i \in DOMAIN rows \ Described(rows)
        /\ \A i \in DOMAIN rows \ Described(rows) :
             RecordsFor(i, old, rows) # {} => i \in DOMAIN given
    BY <1>0, <1>3, TextsOffered
  <1> HIDE DEF rows, given
  <1>5. /\ IsTable(new, Row) /\ DOMAIN new = DOMAIN rows
        /\ \A i \in DOMAIN rows :
             /\ new[i].thing = rows[i].thing /\ new[i].file = rows[i].file
             /\ new[i].owner = rows[i].owner /\ new[i].body = rows[i].body
             /\ new[i].text = IF i \in DOMAIN given THEN given[i] ELSE rows[i].text
    BY <1>3, <1>4, RowsWithTexts
  <1>6. \A r : \A i \in DOMAIN rows : Alike(r, rows[i]) <=> Alike(r, new[i])
    BY <1>5 DEF Alike
  <1> HIDE DEF new
  <1>7. \A i : Known(i) # {} => (CHOOSE g \in Known(i) : TRUE) \in Known(i)
    OBVIOUS
  <1>8. \A g \in gone : g \in DOMAIN old /\ g \in DOMAIN db /\ g \notin DOMAIN rows
    BY <1>0, <1>5 DEF Described
  <1>9. \A i : \A g \in Known(i) : g \in gone
    OBVIOUS
  <1>10. DOMAIN word' = DOMAIN new
    BY <1>2
  <1>11. ASSUME NEW i \in DOMAIN new
         PROVE  word'[i] \in Text
    <2>1. NoText \in Text
      BY DescriptionsAssumption DEF NoText, Text
    <2>2. CASE Heir(i)
      <3>1. PICK g \in Known(i) : g = CHOOSE h \in Known(i) : TRUE
        BY <1>7, <2>2
      <3>2. word'[i] = word[g] /\ g \in DOMAIN db
        BY <1>2, <1>8, <1>9, <2>2, <3>1
      <3> QED BY <1>0, <3>2 DEF IsTable
    <2>3. CASE ~Heir(i)
      BY <1>0, <1>2, <2>1, <2>3 DEF IsTable
    <2> QED BY <2>2, <2>3
  <1>12. IsTable(word', Text)
    BY <1>5, <1>10, <1>11 DEF IsTable
  <1>13. astray' \subseteq DOMAIN new
    BY <1>2
  <1>14. /\ scan'.on = FALSE /\ scan'.full = FALSE /\ scan'.batch = {} /\ scan'.raced = {}
         /\ scan'.before = Nothing /\ scan'.found = Nothing
         /\ scan' = [on |-> scan'.on, full |-> scan'.full, batch |-> scan'.batch, raced |-> scan'.raced,
                     before |-> scan'.before, found |-> scan'.found]
    BY <1>1 DEF NoScan
  <1>15. TypeOK'
    BY <1>1, <1>5, <1>10, <1>12, <1>13, <1>14, NothingIsTable
    DEF IInv, Typed, TypeOK, tree, counts, IsTable
  <1>16. Whole' /\ Remembered'
    BY <1>1, <1>14 DEF IInv, Typed, Whole, Remembered
  <1>17. ASSUME NEW i \in DOMAIN new, i \notin astray'
         PROVE  db'[i].text = word'[i]
    <2>1. i \notin astray \cup scan.raced /\ ~Doubtful(i)
      BY <1>2, <1>17
    <2>2. i \in DOMAIN db => old[i].text = db[i].text /\ word[i] = db[i].text
      BY <1>0, <2>1 DEF IInv, LastWordStands
    <2>3. i \in DOMAIN rows /\ db'[i] = new[i]
      BY <1>1, <1>5
    <2>4. CASE rows[i].text # NoText
      <3>1. i \in DOMAIN old /\ i \in DOMAIN db /\ old[i].text = rows[i].text
        BY <1>0, <1>3, <2>3, <2>4
      <3>2. new[i].text = rows[i].text
        BY <1>4, <1>5, <2>3, <2>4 DEF Described
      <3>3. ~Heir(i)
        BY <1>0, <2>2, <2>4, <3>1
      <3>4. word'[i] = word[i]
        BY <1>0, <1>2, <3>1, <3>3
      <3> QED BY <2>2, <2>3, <3>1, <3>2, <3>4
    <2>5. CASE rows[i].text = NoText
      <3>0. i \in DOMAIN rows \ Described(rows)
        BY <2>3, <2>5 DEF Described
      <3>1. i \in DOMAIN word => word[i] = NoText
        BY <1>0, <1>3, <2>2, <2>3, <2>5
      <3>2. \A g \in RecordsFor(i, old, rows) : g \in Known(i)
        <4> TAKE g \in RecordsFor(i, old, rows)
        <4>1. g \in Described(old) /\ i \in Match(g, old[g], rows)
          BY DEF RecordsFor
        <4>2. g \notin DOMAIN rows
          <5> SUFFICES ASSUME g \in DOMAIN rows PROVE FALSE
            OBVIOUS
          <5>1. i = g
            BY <4>1 DEF Match, OrElse
          <5> QED BY <1>3, <2>5, <4>1, <5>1 DEF Described
        <4>3. Alike(old[g], new[i])
          BY <1>6, <4>1, <4>2, MatchIsAlike
        <4>4. g \in gone
          BY <1>5, <4>1, <4>2
        <4>5. g \in Former(i)
          BY <2>1, <4>3, <4>4
        <4> QED BY <4>3, <4>5
      <3>3. ASSUME NEW g \in Known(i)
            PROVE  g \in RecordsFor(i, old, rows) /\ Known(i) = {g} /\ word[g] = old[g].text
        <4>1. g \in gone /\ g \in Former(i) /\ Alike(old[g], new[i])
          BY <3>3
        <4>2. g \notin DOMAIN rows /\ g \in DOMAIN db
          BY <1>8, <4>1
        <4>3. \A j \in DOMAIN rows : Alike(old[g], rows[j]) => j = i
          BY <1>5, <1>6, <2>1, <4>1
        <4>4. Alike(old[g], rows[i])
          BY <1>6, <2>3, <4>1
        <4>5. i \in Match(g, old[g], rows)
          BY <2>3, <4>2, <4>3, <4>4, AlikeIsMatch
        <4>6. g \in RecordsFor(i, old, rows)
          BY <4>1, <4>5 DEF RecordsFor
        <4>7. Known(i) = {g}
          BY <2>1, <4>1, <3>3
        <4>8. g \notin scan.raced \cup astray
          BY <2>1, <4>1
        <4> QED BY <1>0, <4>2, <4>6, <4>7, <4>8 DEF IInv, LastWordStands
      <3>4. CASE Known(i) = {}
        <4>1. i \notin DOMAIN given
          BY <1>4, <3>2, <3>4
        <4>2. new[i].text = NoText
          BY <1>5, <2>3, <2>5, <4>1
        <4>3. word'[i] = NoText
          BY <1>0, <1>2, <3>1, <3>4
        <4> QED BY <2>3, <4>2, <4>3
      <3>5. CASE Known(i) # {}
        <4>1. PICK g \in Known(i) : g = CHOOSE h \in Known(i) : TRUE
          BY <1>7, <3>5
        <4>2. Known(i) = {g} /\ word[g] = old[g].text /\ g \in RecordsFor(i, old, rows)
          BY <3>3
        <4>3. i \in DOMAIN given /\ given[i] = old[g].text
          BY <1>4, <3>0, <3>2, <4>2
        <4>4. Heir(i)
          BY <3>1, <3>5
        <4>5. word'[i] = word[g]
          BY <1>2, <4>1, <4>4
        <4>6. new[i].text = old[g].text
          BY <1>5, <2>3, <4>3
        <4> QED BY <2>3, <4>2, <4>5, <4>6
      <3> QED BY <3>4, <3>5
    <2> QED BY <2>4, <2>5
  <1>18. LastWordStands'
    BY <1>1, <1>17 DEF LastWordStands
  <1> QED BY <1>15, <1>16, <1>18 DEF IInv, Typed

-----------------------------------------------------------------------------
LEMMA StepHolds == IInv /\ [Next]_vars => IInv'
  <1> SUFFICES ASSUME IInv, [Next]_vars PROVE IInv'
    OBVIOUS
  <1>1. CASE Next
    BY <1>1, BeginHolds, UpdateHolds, ClearHolds, ExportHolds, ImportReadHolds, ImportWriteHolds,
       EditHolds, WriteUpdateHolds, WriteFullHolds
    DEF Next
  <1>2. CASE UNCHANGED vars
    BY <1>2 DEF vars, tree, history, counts, IInv, Typed, TypeOK, Whole, Remembered,
                LastWordStands, IsTable
  <1> QED BY <1>1, <1>2

LEMMA Invariance == Spec => []IInv
  BY InitHolds, StepHolds, PTL DEF Spec

\* The rows, the sidecar and what a scan or an import has in hand keep their types
\* (BuildDescriptionRecords, MatchDescriptions): no empty text is exported or
\* imported.
THEOREM TypeCorrect == Spec => []TypeOK
  <1>1. IInv => TypeOK
    BY DEF IInv, Typed
  <1> QED BY <1>1, Invariance, PTL

\* A row has the last text that was written to it, by whatever ids it went: scans and
\* imports lose no description, bring none back and give none to the wrong row, but
\* for the rows FollowTexts names (restoreDescriptions, remapByIdentity,
\* MatchDescriptions, DiffResources).
THEOREM LastWord == Spec => []LastWordStands
  <1>1. IInv => LastWordStands
    BY DEF IInv
  <1> QED BY <1>1, Invariance, PTL
=============================================================================
