------------------------- MODULE CompanyRecordProofs -------------------------
(* Theorems about CompanyRecord, for any runs, staff, columns, texts and files. *)
EXTENDS CompanyRecord, SequenceTheorems, FiniteSetTheorems, TLAPS

Change == [old : Texts, new : Texts]

\* The row, what is submitted and the trail hold texts.
RowTyped ==
    /\ row # None => row \in [Columns -> Texts]
    /\ crawling \in BOOLEAN /\ (crawling => row # None)
    /\ settled \subseteq Fields /\ (row = None => settled = {})
    /\ DOMAIN post = Staff
    /\ \A u \in Staff : post[u] # None => row # None /\ post[u].changes \in Changes
    /\ corrections \in [Fields -> Seq(Change)]

\* Observations are records.
Observed ==
    \A o \in observations :
        /\ DOMAIN o = {"record", "field", "value", "current"}
        /\ o = [x \in {"record", "field", "value", "current"} |-> o[x]]

\* While the company does not exist, one run at most is creating it; then none is.
OneCreates ==
    /\ seen \in [Runs -> {None, Absent} \cup [Columns -> Texts]]
    /\ row # None => \A r \in Runs : seen[r] # Absent
    /\ row = None => \A r \in Runs : seen[r] \in {None, Absent}
    /\ row = None => \A r, o \in Runs : seen[r] # None /\ seen[o] # None => r = o

\* The run that discovered the company.
Discovery ==
    /\ results \in [Runs -> BOOLEAN \cup {None}]
    /\ byHand \in BOOLEAN /\ (byHand => row # None)
    /\ row = None => \A r \in Runs : results[r] = None
    /\ byHand => \A r \in Runs : results[r] # TRUE
    /\ row # None /\ ~byHand => \E r \in Runs : {o \in Runs : results[o] = TRUE} = {r}

IInv == RowTyped /\ Observed /\ OneCreates /\ Discovery /\ CorrectionIsCurrent

(* What staff ask for are texts of fields. *)
LEMMA ChangesTyped ==
    ASSUME NEW c \in Changes
    PROVE  /\ DOMAIN c \subseteq Fields /\ \A f \in DOMAIN c : c[f] \in Texts
BY RecordAssumption

(* The domain is a column that no correction names. *)
LEMMA ColumnsOf == /\ "domain" \in Columns /\ "website" \in Fields /\ "domain" \notin Fields
                   /\ Columns = Fields \cup {"domain"} /\ RegisterFields \subseteq Fields
                   /\ ComplementFields \subseteq Fields
BY RecordAssumption DEF Columns, Fields

(* No row is taken for the absence of one. *)
LEMMA NothingThere == /\ Absent # None /\ None \notin [Columns -> Texts]
                      /\ Absent \notin [Columns -> Texts] /\ None \notin Texts
                      /\ None # TRUE /\ None # FALSE
BY RecordAssumption

(* The invariant holds of an unknown company and of one added by hand. *)
LEMMA InitIInv == Init => IInv
<1> SUFFICES ASSUME Init PROVE IInv
  OBVIOUS
<1>1. row = None \/ row \in [Columns -> Texts]
  BY RecordAssumption DEF Init
<1>2. RowTyped
  <2>1. corrections \in [Fields -> Seq(Change)]
    BY EmptySeq DEF Init
  <2>2. crawling = FALSE /\ settled = {} /\ DOMAIN post = Staff /\ \A u \in Staff : post[u] = None
    BY DEF Init
  <2> QED BY <1>1, <2>1, <2>2 DEF RowTyped
<1>3. Observed /\ CorrectionIsCurrent
  BY DEF Init, Observed, CorrectionIsCurrent
<1>4. OneCreates
  BY NothingThere DEF Init, OneCreates
<1>5. Discovery
  BY NothingThere DEF Init, Discovery
<1> QED BY <1>2, <1>3, <1>4, <1>5 DEF IInv

-----------------------------------------------------------------------------
(* What the helpers give. *)

(* What an ingestion saves, and where. *)
LEMMA SavesTyped ==
    ASSUME NEW r \in Runs
    PROVE  /\ DOMAIN Saves(r) \subseteq RegisterFields
           /\ \A f \in DOMAIN Saves(r) : Saves(r)[f] \in Texts /\ Saves(r)[f] = Row[r].values[f]
           /\ seen[r] # Absent => \A f \in DOMAIN Saves(r) : Saves(r)[f] # Blank
<1>1. Row[r].values \in [RegisterFields -> Texts]
  BY RecordAssumption
<1>2. CASE seen[r] = Absent
  BY <1>1, <1>2 DEF Saves
<1>3. CASE seen[r] # Absent
  <2>1. Saves(r) = [f \in Changed(Row[r].values, seen[r]) |-> Row[r].values[f]]
    BY <1>3 DEF Saves
  <2>2. \A f \in Changed(Row[r].values, seen[r]) : f \in RegisterFields /\ Row[r].values[f] # Blank
    BY <1>1 DEF Changed
  <2> QED BY <1>1, <2>1, <2>2
<1> QED BY <1>2, <1>3

(* A row of Empresas or Simples saves texts it has, in fields only. *)
LEMMA ComplementSaves ==
    ASSUME NEW r \in Runs, NEW rec \in Complements[r]
    PROVE  \A f \in Changed(rec.values, row) :
             f \in Fields /\ f \in DOMAIN rec.values /\ rec.values[f] \in Texts /\ rec.values[f] # Blank
BY RecordAssumption DEF Changed

(* Saving texts of fields yields a row. *)
LEMMA OverwrittenTyped ==
    ASSUME RowTyped, NEW values, \A f \in DOMAIN values : values[f] \in Texts
    PROVE  /\ Overwritten(values) \in [Columns -> Texts]
           /\ \A c \in Columns \cap DOMAIN values : Overwritten(values)[c] = values[c]
           /\ row # None => \A c \in Columns \ DOMAIN values : Overwritten(values)[c] = row[c]
BY RecordAssumption DEF Overwritten, RowTyped

(* Keeping a record adds observations of what it observes and takes none away. *)
LEMMA KeepAdds ==
    ASSUME Observed, NEW record, NEW values, Keep(record, values)
    PROVE  /\ Observed'
           /\ observations \subseteq observations'
           /\ \A o \in observations' \ observations : o.field \in Observes(record, values)
<1>1. CASE record \in records
  BY <1>1 DEF Keep, evidenceVars, Observed
<1>2. CASE record \notin records
  <2>1. observations' = observations \cup
          {Observation(record, f, values[f]) : f \in Observes(record, values)}
    BY <1>2 DEF Keep, Observes
  <2>2. \A f : /\ DOMAIN Observation(record, f, values[f]) = {"record", "field", "value", "current"}
               /\ Observation(record, f, values[f])
                  = [x \in {"record", "field", "value", "current"} |->
                       Observation(record, f, values[f])[x]]
               /\ Observation(record, f, values[f]).field = f
    BY DEF Observation
  <2> QED BY <2>1, <2>2 DEF Observed
<1> QED BY <1>1, <1>2

(* Fields that stay settled keep their value and their observations. *)
LEMMA SettledStay ==
    ASSUME RowTyped, CorrectionIsCurrent, corrections' = corrections,
           NEW F, settled' = settled \ F,
           observations \subseteq observations',
           \A o \in observations' \ observations : o.field \in F,
           row # None => \A f \in Fields \ F : row'[f] = row[f]
    PROVE  CorrectionIsCurrent'
<1> SUFFICES ASSUME NEW f \in settled \ F
             PROVE  LET n == Len(corrections[f])
                        current == {o \in observations' : o.field = f /\ o.current} IN
                    /\ row'[f] = corrections[f][n].new
                    /\ current = {Observation(Manual(f, n), f, row'[f])}
  BY DEF CorrectionIsCurrent
<1>1. row'[f] = row[f]
  BY DEF RowTyped
<1>2. {o \in observations' : o.field = f /\ o.current}
        = {o \in observations : o.field = f /\ o.current}
  OBVIOUS
<1> QED BY <1>1, <1>2 DEF CorrectionIsCurrent

-----------------------------------------------------------------------------
(* The invariant is kept by each action. *)

(* Reading the company: who finds it absent is the only one that does. *)
LEMMA StageStep == ASSUME IInv, NEW r \in Runs, Stage(r) PROVE IInv'
<1>1. UNCHANGED <<rowVars, evidenceVars, runVars, staffVars, crawling>>
  BY DEF Stage
<1>2. RowTyped' /\ Observed' /\ Discovery' /\ CorrectionIsCurrent'
  BY <1>1 DEF IInv, RowTyped, Observed, Discovery, CorrectionIsCurrent, rowVars, evidenceVars, runVars,
              staffVars
<1>3. OneCreates'
  <2>1. /\ seen' = [seen EXCEPT ![r] = IF row = None THEN Absent ELSE row] /\ row' = row
        /\ row = None => \A o \in Runs : seen[o] # Absent
    BY <1>1 DEF Stage, rowVars
  <2>2. CASE row = None
    <3>1. \A o \in Runs : seen[o] = None
      BY <2>1, <2>2 DEF IInv, OneCreates
    <3>2. \A o \in Runs : seen'[o] = IF o = r THEN Absent ELSE None
      BY <2>1, <2>2, <3>1 DEF IInv, OneCreates
    <3>3. seen' \in [Runs -> {None, Absent} \cup [Columns -> Texts]]
      BY <2>1, <2>2 DEF IInv, OneCreates
    <3> QED BY <2>1, <2>2, <3>2, <3>3 DEF OneCreates
  <2>3. CASE row # None
    <3>1. row \in [Columns -> Texts] /\ row # Absent
      BY <2>3, NothingThere DEF IInv, RowTyped
    <3>2. seen' \in [Runs -> {None, Absent} \cup [Columns -> Texts]]
      BY <2>1, <2>3, <3>1 DEF IInv, OneCreates
    <3> QED BY <2>1, <2>3, <3>1, <3>2 DEF IInv, OneCreates
  <2> QED BY <2>2, <2>3
<1> QED BY <1>2, <1>3 DEF IInv

(* What an ingestion writes of the company. *)
LEMMA CommitRow ==
    ASSUME IInv, NEW r \in Runs, Commit(r)
    PROVE  /\ row' \in [Columns -> Texts] /\ row' # None
           /\ row # None => /\ seen[r] # Absent
                            /\ \A c \in Columns \ DOMAIN Saves(r) : row'[c] = row[c]
           /\ \A f \in DOMAIN Saves(r) : row'[f] = Saves(r)[f]
           /\ seen[r] \in {None, Absent} \cup [Columns -> Texts]
<1>1. row' = Overwritten(Saves(r)) /\ RowTyped
  BY DEF Commit, IInv
<1>2. \A f \in DOMAIN Saves(r) : Saves(r)[f] \in Texts /\ f \in Columns
  BY SavesTyped, ColumnsOf
<1>3. /\ row' \in [Columns -> Texts]
      /\ \A c \in Columns \cap DOMAIN Saves(r) : row'[c] = Saves(r)[c]
      /\ row # None => \A c \in Columns \ DOMAIN Saves(r) : row'[c] = row[c]
  BY <1>1, <1>2, OverwrittenTyped
<1> QED BY <1>2, <1>3, NothingThere DEF IInv, OneCreates

(* The commit of an ingestion, with its result and its observations. *)
LEMMA CommitStep == ASSUME IInv, NEW r \in Runs, Commit(r) PROVE IInv'
<1> DEFINE F == DOMAIN Saves(r) \cup Observes(EstablishmentRecord(r), Row[r].values)
<1>1. /\ Keep(EstablishmentRecord(r), Row[r].values) /\ seen[r] # None
      /\ settled' = settled \ F /\ seen' = [seen EXCEPT ![r] = None]
      /\ results' = Result(r) /\ UNCHANGED <<byHand, corrections, post, crawling>>
  BY DEF Commit, staffVars
<1>2. RowTyped'
  BY <1>1, CommitRow DEF IInv, RowTyped
<1>3. /\ Observed' /\ observations \subseteq observations'
      /\ \A o \in observations' \ observations : o.field \in F
  BY <1>1, KeepAdds DEF IInv
<1>4. CorrectionIsCurrent'
  <2>1. row # None => \A f \in Fields \ F : row'[f] = row[f]
    BY CommitRow DEF Columns
  <2> HIDE DEF F
  <2> QED BY <1>1, <1>3, <2>1, SettledStay DEF IInv
<1>5. OneCreates'
  BY <1>1, CommitRow, NothingThere DEF IInv, OneCreates
<1>6. Discovery'
  <2>1. CASE row = None
    <3>1. seen[r] = Absent /\ byHand = FALSE /\ \A o \in Runs : results[o] = None
      BY <1>1, <2>1 DEF IInv, OneCreates, Discovery
    <3>2. results' = [results EXCEPT ![r] = TRUE]
      BY <1>1, <3>1 DEF Result
    <3>3. \A o \in Runs : results'[o] = TRUE <=> o = r
      BY <3>1, <3>2, NothingThere DEF IInv, Discovery
    <3>4. results' \in [Runs -> BOOLEAN \cup {None}]
      BY <3>2 DEF IInv, Discovery
    <3> QED BY <1>1, <3>1, <3>3, <3>4, CommitRow DEF Discovery
  <2>2. CASE row # None
    <3>1. results' \in {results, [results EXCEPT ![r] = FALSE]} /\ (results' # results => results[r] = None)
      BY <1>1, <2>2, CommitRow DEF Result
    <3>2. results' \in [Runs -> BOOLEAN \cup {None}]
      BY <3>1 DEF IInv, Discovery
    <3>3. \A o \in Runs : results'[o] = TRUE <=> results[o] = TRUE
      BY <3>1, NothingThere DEF IInv, Discovery
    <3> QED BY <1>1, <2>2, <3>2, <3>3, CommitRow DEF IInv, Discovery
  <2> QED BY <2>1, <2>2
<1> QED BY <1>2, <1>3, <1>4, <1>5, <1>6 DEF IInv

(* A transaction that is rolled back. *)
LEMMA RollbackStep == ASSUME IInv, NEW r \in Runs, Rollback(r) PROVE IInv'
<1>1. /\ UNCHANGED <<rowVars, evidenceVars, runVars, staffVars, crawling>>
      /\ seen' = [seen EXCEPT ![r] = None]
  BY DEF Rollback
<1>2. RowTyped' /\ Observed' /\ Discovery' /\ CorrectionIsCurrent'
  BY <1>1 DEF IInv, RowTyped, Observed, Discovery, CorrectionIsCurrent, rowVars, evidenceVars, runVars,
              staffVars
<1>3. OneCreates'
  BY <1>1, NothingThere DEF IInv, OneCreates, rowVars
<1> QED BY <1>2, <1>3 DEF IInv

(* The complements, under the lock of the company. *)
LEMMA ComplementStep ==
    ASSUME IInv, NEW r \in Runs, NEW rec \in Complements[r], Complement(r, rec)
    PROVE  IInv'
<1> DEFINE saved == Changed(rec.values, row)
           F == saved \cup Observes(rec, rec.values)
<1>1. /\ row # None /\ row' = Overwritten([f \in saved |-> rec.values[f]])
      /\ Keep(rec, rec.values) /\ settled' = settled \ F
      /\ UNCHANGED <<byHand, results, corrections, post, seen, crawling>>
  BY DEF Complement, staffVars
<1>2. \A f \in saved : f \in Fields /\ rec.values[f] \in Texts
  BY ComplementSaves
<1>3. /\ row' \in [Columns -> Texts]
      /\ \A c \in Columns \ saved : row'[c] = row[c]
  <2> HIDE DEF saved
  <2> QED BY <1>1, <1>2, OverwrittenTyped DEF IInv
<1>4. row' # None
  BY <1>3, NothingThere
<1>5. RowTyped'
  BY <1>1, <1>3, <1>4 DEF IInv, RowTyped
<1>6. /\ Observed' /\ observations \subseteq observations'
      /\ \A o \in observations' \ observations : o.field \in F
  BY <1>1, KeepAdds DEF IInv
<1>7. CorrectionIsCurrent'
  <2>1. \A f \in Fields \ F : row'[f] = row[f]
    BY <1>3 DEF Columns
  <2> HIDE DEF F
  <2> QED BY <1>1, <1>6, <2>1, SettledStay DEF IInv
<1>8. OneCreates' /\ Discovery'
  BY <1>1, <1>4 DEF IInv, OneCreates, Discovery
<1> QED BY <1>5, <1>6, <1>7, <1>8 DEF IInv

(* What a correction writes. *)
LEMMA CorrectWrites ==
    ASSUME IInv, NEW u \in Staff, Correct(u)
    PROVE  LET changes == post[u].changes
               effective == {f \in DOMAIN changes : row[f] # changes[f]} IN
           /\ row \in [Columns -> Texts] /\ row' \in [Columns -> Texts]
           /\ effective \subseteq Fields
           /\ \A f \in effective : changes[f] \in Texts
           /\ \A f \in Fields : row'[f] = IF f \in effective THEN changes[f] ELSE row[f]
           /\ \A f \in effective :
                /\ corrections'[f] \in Seq(Change) /\ corrections'[f] # corrections[f]
                /\ Len(corrections'[f]) = Len(corrections[f]) + 1
                /\ corrections'[f][Len(corrections[f]) + 1] = [old |-> row[f], new |-> changes[f]]
           /\ \A f \in Fields \ effective : corrections'[f] = corrections[f]
           /\ DOMAIN corrections' = Fields /\ corrections' = [f \in Fields |-> corrections'[f]]
<1> DEFINE changes == post[u].changes
           effective == {f \in DOMAIN changes : row[f] # changes[f]}
<1>1. post[u] # None /\ row # None /\ changes \in Changes
  BY DEF Correct, IInv, RowTyped
<1>2. DOMAIN changes \subseteq Fields /\ \A f \in DOMAIN changes : changes[f] \in Texts
  BY <1>1, ChangesTyped
<1>3. row \in [Columns -> Texts]
  BY <1>1 DEF IInv, RowTyped
<1>4. effective \subseteq Fields /\ \A f \in effective : changes[f] \in Texts
  BY <1>2
<1>5. row' = [c \in Columns |->
                IF c \in effective THEN changes[c]
                ELSE IF c = "domain" /\ "website" \in effective THEN changes["website"]
                ELSE row[c]]
  BY DEF Correct
<1>6. corrections' = [f \in Fields |->
                        IF f \in effective
                        THEN Append(corrections[f], [old |-> row[f], new |-> changes[f]])
                        ELSE corrections[f]]
  BY DEF Correct, Old
<1> HIDE DEF effective, changes
<1>7. row' \in [Columns -> Texts]
  BY <1>3, <1>4, <1>5
<1>8. \A f \in Fields : row'[f] = IF f \in effective THEN changes[f] ELSE row[f]
  BY <1>5, ColumnsOf
<1>9. ASSUME NEW f \in effective
      PROVE  /\ corrections'[f] \in Seq(Change) /\ corrections'[f] # corrections[f]
             /\ Len(corrections'[f]) = Len(corrections[f]) + 1
             /\ corrections'[f][Len(corrections[f]) + 1] = [old |-> row[f], new |-> changes[f]]
  <2> DEFINE e == [old |-> row[f], new |-> changes[f]]
  <2>1. e \in Change
    BY <1>3, <1>4, ColumnsOf DEF Change
  <2>2. corrections[f] \in Seq(Change) /\ corrections'[f] = Append(corrections[f], e)
    BY <1>4, <1>6 DEF IInv, RowTyped
  <2> HIDE DEF e
  <2>3. /\ corrections'[f] \in Seq(Change) /\ Len(corrections'[f]) = Len(corrections[f]) + 1
        /\ corrections'[f][Len(corrections[f]) + 1] = e /\ Len(corrections[f]) \in Nat
    BY <2>1, <2>2, AppendProperties, LenProperties
  <2> QED BY <2>3 DEF e
<1>10. /\ \A f \in Fields \ effective : corrections'[f] = corrections[f]
       /\ DOMAIN corrections' = Fields /\ corrections' = [f \in Fields |-> corrections'[f]]
  BY <1>6
<1> QED BY <1>3, <1>4, <1>7, <1>8, <1>9, <1>10 DEF effective, changes

(* A correction: each of its fields is settled, with one current observation. *)
LEMMA CorrectStep == ASSUME IInv, NEW u \in Staff, Correct(u) PROVE IInv'
<1> DEFINE changes == post[u].changes
           effective == {f \in DOMAIN changes : row[f] # changes[f]}
           record(f) == Manual(f, Len(corrections[f]) + 1)
           made == {Observation(record(f), f, changes[f]) : f \in effective}
<1>1. /\ observations' = Cleared(effective) \cup made
      /\ settled' = settled \cup effective /\ post' = [post EXCEPT ![u] = None]
      /\ UNCHANGED <<byHand, results, seen, crawling>> /\ row # None
  BY DEF Correct, IInv, RowTyped, runVars
<1>2. /\ row' \in [Columns -> Texts] /\ effective \subseteq Fields
      /\ \A f \in Fields : row'[f] = IF f \in effective THEN changes[f] ELSE row[f]
      /\ \A f \in effective :
           /\ corrections'[f] \in Seq(Change)
           /\ Len(corrections'[f]) = Len(corrections[f]) + 1
           /\ corrections'[f][Len(corrections[f]) + 1] = [old |-> row[f], new |-> changes[f]]
      /\ \A f \in Fields \ effective : corrections'[f] = corrections[f]
      /\ DOMAIN corrections' = Fields /\ corrections' = [f \in Fields |-> corrections'[f]]
  BY CorrectWrites
<1> HIDE DEF effective, changes
<1>3. row' # None
  BY <1>2, NothingThere
<1>4. RowTyped'
  <2>1. \A f \in Fields : corrections'[f] \in Seq(Change)
    BY <1>2 DEF IInv, RowTyped
  <2>2. corrections' \in [Fields -> Seq(Change)]
    BY <1>2, <2>1
  <2> QED BY <1>1, <1>2, <1>3, <2>2 DEF IInv, RowTyped
<1>5. \A o \in made : \E f \in effective :
        o = Observation(record(f), f, changes[f]) /\ o.field = f /\ o.current = TRUE
  BY DEF Observation
<1>6. \A o \in Cleared(effective) : \E k \in observations :
        o = IF k.field \in effective THEN [k EXCEPT !.current = FALSE] ELSE k
  BY DEF Cleared
<1>7. \A k \in observations :
        /\ [k EXCEPT !.current = FALSE].field = k.field
        /\ [k EXCEPT !.current = FALSE].current = FALSE
        /\ DOMAIN [k EXCEPT !.current = FALSE] = {"record", "field", "value", "current"}
  BY DEF IInv, Observed
<1>8. Observed'
  <2>1. ASSUME NEW o \in made
        PROVE  /\ DOMAIN o = {"record", "field", "value", "current"}
               /\ o = [x \in {"record", "field", "value", "current"} |-> o[x]]
    BY DEF Observation
  <2>2. ASSUME NEW o \in Cleared(effective)
        PROVE  /\ DOMAIN o = {"record", "field", "value", "current"}
               /\ o = [x \in {"record", "field", "value", "current"} |-> o[x]]
    BY <1>6, <1>7 DEF IInv, Observed
  <2> QED BY <1>1, <2>1, <2>2 DEF Observed
<1>9. CorrectionIsCurrent'
  <2> SUFFICES ASSUME NEW f \in settled \cup effective
               PROVE  LET n == Len(corrections'[f])
                          current == {o \in observations' : o.field = f /\ o.current} IN
                      /\ row'[f] = corrections'[f][n].new
                      /\ current = {Observation(Manual(f, n), f, row'[f])}
    BY <1>1 DEF CorrectionIsCurrent
  <2>0. f \in Fields
    BY <1>2 DEF IInv, RowTyped
  <2>1. CASE f \in effective
    <3> DEFINE n == Len(corrections[f]) + 1
    <3>1. Len(corrections'[f]) = n /\ row'[f] = changes[f] /\ corrections'[f][n].new = changes[f]
      <4>1. Len(corrections'[f]) = n /\ row'[f] = changes[f]
        BY <1>2, <2>0, <2>1
      <4>2. corrections'[f][n] = [old |-> row[f], new |-> changes[f]]
        BY <1>2, <2>1
      <4> HIDE DEF n
      <4> QED BY <4>1, <4>2
    <3>2. \A o \in Cleared(effective) : o.field = f => o.current = FALSE
      BY <1>6, <1>7, <2>1
    <3>3. \A o \in made : o.field = f => o = Observation(Manual(f, n), f, changes[f])
      BY <1>5
    <3>4. /\ Observation(Manual(f, n), f, changes[f]) \in made
          /\ Observation(Manual(f, n), f, changes[f]).field = f
          /\ Observation(Manual(f, n), f, changes[f]).current = TRUE
      BY <2>1 DEF Observation
    <3> HIDE DEF n, made
    <3>5. {o \in observations' : o.field = f /\ o.current} = {Observation(Manual(f, n), f, changes[f])}
      BY <1>1, <3>2, <3>3, <3>4
    <3> QED BY <3>1, <3>5
  <2>2. CASE f \notin effective
    <3>1. f \in settled /\ row'[f] = row[f] /\ corrections'[f] = corrections[f]
      BY <1>2, <2>0, <2>2
    <3>2. \A o \in made : o.field # f
      BY <1>5, <2>2
    <3>3. \A o \in Cleared(effective) : o.field = f => o \in observations
      BY <1>6, <1>7, <2>2
    <3>4. \A o \in observations : o.field = f => o \in Cleared(effective)
      BY <2>2 DEF Cleared
    <3>5. {o \in observations' : o.field = f /\ o.current}
            = {o \in observations : o.field = f /\ o.current}
      <4> HIDE DEF made
      <4> QED BY <1>1, <3>2, <3>3, <3>4
    <3> QED BY <3>1, <3>5 DEF IInv, CorrectionIsCurrent
  <2> QED BY <2>1, <2>2
<1>10. OneCreates' /\ Discovery'
  BY <1>1, <1>3 DEF IInv, OneCreates, Discovery
<1> QED BY <1>4, <1>8, <1>9, <1>10 DEF IInv

(* Requests that are read or refused, and the crawl. *)
LEMMA OtherStep ==
    ASSUME IInv,
           \/ \E u \in Staff : Refuse(u) \/ \E changes \in Changes : Submit(u, changes)
           \/ CrawlBegin \/ CrawlEnd \/ CrawlFail
    PROVE  IInv'
<1>1. UNCHANGED <<byHand, evidenceVars, results, corrections, seen>>
  BY DEF Refuse, Submit, CrawlBegin, CrawlEnd, CrawlFail, rowVars, runVars, staffVars
<1>2. /\ row # None => row' \in [Columns -> Texts] /\ row' # None
      /\ row = None => row' = None
      /\ (settled' = settled /\ row' = row) \/ settled' = settled \ {"website"}
      /\ \A f \in Fields \ {"website"} : row # None => row'[f] = row[f]
  <2>1. CASE CrawlEnd
    <3>1. row \in [Columns -> Texts] /\ settled' = settled \ {"website"}
          /\ row' = [row EXCEPT !["website"] = Site, !["domain"] = Site]
      BY <2>1 DEF CrawlEnd, IInv, RowTyped
    <3>2. row' \in [Columns -> Texts] /\ \A f \in Fields \ {"website"} : row'[f] = row[f]
      BY <3>1, ColumnsOf, RecordAssumption
    <3>3. row # None
      BY <2>1 DEF CrawlEnd, IInv, RowTyped
    <3> QED BY <3>1, <3>2, <3>3, NothingThere
  <2>2. CASE ~CrawlEnd
    <3>1. UNCHANGED <<row, settled>>
      BY <2>2 DEF Refuse, Submit, CrawlBegin, CrawlFail, rowVars
    <3> QED BY <3>1 DEF IInv, RowTyped
  <2> QED BY <2>1, <2>2
<1>3. /\ crawling' \in BOOLEAN /\ (crawling' => row # None)
      /\ DOMAIN post' = Staff
      /\ \A u \in Staff : post'[u] # None => row # None /\ post'[u].changes \in Changes
  <2>1. CASE CrawlBegin \/ CrawlEnd \/ CrawlFail
    BY <2>1 DEF CrawlBegin, CrawlEnd, CrawlFail, IInv, RowTyped, staffVars
  <2>2. CASE \E u \in Staff : Refuse(u) \/ \E changes \in Changes : Submit(u, changes)
    BY <2>2 DEF Refuse, Submit, IInv, RowTyped
  <2> QED BY <2>1, <2>2
<1>4. RowTyped'
  <2>1. row' # None => row # None
    BY <1>2
  <2>2. row' = None => settled' = {}
    BY <1>2 DEF IInv, RowTyped
  <2> QED BY <1>1, <1>2, <1>3, <2>1, <2>2 DEF IInv, RowTyped
<1>5. Observed' /\ OneCreates' /\ Discovery'
  BY <1>1, <1>2 DEF IInv, Observed, OneCreates, Discovery, evidenceVars
<1>6. CorrectionIsCurrent'
  <2>1. \E F \in {{}, {"website"}} :
          settled' = settled \ F /\ (row # None => \A f \in Fields \ F : row'[f] = row[f])
    BY <1>2
  <2>2. observations' = observations
    BY <1>1 DEF evidenceVars
  <2> QED BY <1>1, <2>1, <2>2, SettledStay DEF IInv
<1> QED BY <1>4, <1>5, <1>6 DEF IInv

(* Every step preserves the invariant, one lemma for each kind of action. *)
LEMMA IInvStep == IInv /\ [Next]_vars => IInv'
<1> SUFFICES ASSUME IInv, [Next]_vars PROVE IInv'
  OBVIOUS
<1>1. CASE UNCHANGED vars
  BY <1>1 DEF IInv, RowTyped, Observed, OneCreates, Discovery, CorrectionIsCurrent, vars, rowVars,
              evidenceVars, runVars, staffVars
<1>2. CASE Next
  BY <1>2, StageStep, CommitStep, RollbackStep, ComplementStep, CorrectStep, OtherStep DEF Next
<1> QED BY <1>1, <1>2

(* The invariant holds in every reachable state. *)
LEMMA AlwaysIInv == Spec => []IInv
BY InitIInv, IInvStep, PTL DEF Spec

-----------------------------------------------------------------------------
(* Theorems                                                                    *)

(* While only corrections write a field, the last of them is what the row holds and the *)
(* only current observation, however many runs, posts and crawls overlap.               *)
THEOREM CorrectionsAreCurrent == Spec => []CorrectionIsCurrent
BY AlwaysIInv, PTL DEF IInv

(* One run at most discovered the company: exactly one if nobody added it by hand.      *)
THEOREM CompanyDiscoveredOnce == Spec => []DiscoveredOnce
<1>1. IInv => DiscoveredOnce
  <2> SUFFICES ASSUME IInv PROVE DiscoveredOnce
    OBVIOUS
  <2> DEFINE discoverers == {r \in Runs : results[r] = TRUE}
  <2>1. CASE row = None \/ byHand
    <3>1. discoverers = {}
      BY <2>1, NothingThere DEF IInv, Discovery
    <3> QED BY <2>1, <3>1, FS_EmptySet DEF DiscoveredOnce
  <2>2. CASE ~(row = None \/ byHand)
    <3>1. PICK r \in Runs : discoverers = {r}
      BY <2>2 DEF IInv, Discovery
    <3>2. Cardinality({r}) = 1
      BY FS_Singleton
    <3> QED BY <2>2, <3>1, <3>2 DEF DiscoveredOnce
  <2> QED BY <2>1, <2>2
<1> QED BY <1>1, AlwaysIInv, PTL

(* Only Correct writes the trail. *)
LEMMA CorrectionsBy ==
    ASSUME [Next]_vars, corrections' # corrections
    PROVE  \E u \in Staff : Correct(u)
BY DEF Next, Stage, Commit, Rollback, Complement, Refuse, Submit, CrawlBegin, CrawlEnd, CrawlFail,
       staffVars, vars

(* Each correction states the value before and after it, whatever was written between   *)
(* the form and the correction.                                                         *)
THEOREM TrailAlwaysTruthful == Spec => TrailIsTruthful
<1> DEFINE Truthful ==
        \A f \in Fields : corrections'[f] # corrections[f] =>
          LET c == corrections'[f][Len(corrections'[f])] IN
          row[f] = c.old /\ row'[f] = c.new /\ c.old # c.new
<1>1. IInv /\ [Next]_vars => Truthful
  <2> SUFFICES ASSUME IInv, [Next]_vars, NEW f \in Fields, corrections'[f] # corrections[f]
               PROVE  LET c == corrections'[f][Len(corrections'[f])] IN
                      row[f] = c.old /\ row'[f] = c.new /\ c.old # c.new
    OBVIOUS
  <2>1. PICK u \in Staff : Correct(u)
    BY CorrectionsBy
  <2> DEFINE changes == post[u].changes
             effective == {g \in DOMAIN changes : row[g] # changes[g]}
  <2>2. /\ f \in effective /\ row'[f] = changes[f] /\ row[f] # changes[f]
        /\ Len(corrections'[f]) = Len(corrections[f]) + 1
        /\ corrections'[f][Len(corrections[f]) + 1] = [old |-> row[f], new |-> changes[f]]
    BY <2>1, CorrectWrites
  <2>3. corrections'[f][Len(corrections'[f])] = [old |-> row[f], new |-> changes[f]]
    BY <2>2
  <2> QED BY <2>2, <2>3
<1>2. IInv /\ [Next]_vars => [Truthful]_vars
  BY <1>1
<1> QED BY <1>2, AlwaysIInv, PTL DEF Spec, TrailIsTruthful

\* Where a value that is written comes from.
Sourced(f) ==
    \/ corrections'[f] # corrections[f]
    \/ \E r \in Runs : f \in RegisterFields /\ seen[r] # None /\ seen'[r] = None
                       /\ row'[f] = Row[r].values[f] /\ row'[f] # Blank
    \/ \E rec \in UNION {Complements[r] : r \in Runs} :
         f \in DOMAIN rec.values /\ row'[f] = rec.values[f] /\ row'[f] # Blank
    \/ f = "website" /\ crawling /\ ~crawling'

(* The step behind NothingStaleIsWritten: where each action takes its values from. *)
LEMMA WritesAreSourced ==
    ASSUME IInv, [Next]_vars, row # None, NEW f \in Fields, row'[f] # row[f]
    PROVE  Sourced(f)
<1>1. f \in Columns /\ f # "domain"
  BY ColumnsOf
<1>2. ASSUME NEW r \in Runs, Commit(r) PROVE Sourced(f)
  <2>1. f \in DOMAIN Saves(r) /\ seen[r] # Absent
    BY <1>1, <1>2, CommitRow
  <2>2. row'[f] = Row[r].values[f] /\ row'[f] # Blank /\ f \in RegisterFields
    BY <1>2, <2>1, CommitRow, SavesTyped
  <2>3. seen[r] # None /\ seen'[r] = None
    BY <1>2 DEF Commit, IInv, OneCreates
  <2> QED BY <2>2, <2>3 DEF Sourced
<1>3. ASSUME NEW r \in Runs, NEW rec \in Complements[r], Complement(r, rec) PROVE Sourced(f)
  <2> DEFINE saved == Changed(rec.values, row)
  <2>1. row' = Overwritten([g \in saved |-> rec.values[g]])
    BY <1>3 DEF Complement
  <2>2. \A g \in saved : /\ g \in Fields /\ g \in DOMAIN rec.values
                         /\ rec.values[g] \in Texts /\ rec.values[g] # Blank
    BY ComplementSaves
  <2> HIDE DEF saved
  <2>3. f \in saved /\ row'[f] = rec.values[f]
    BY <1>1, <2>1, <2>2, OverwrittenTyped DEF IInv
  <2> QED BY <2>2, <2>3 DEF Sourced
<1>4. ASSUME NEW u \in Staff, Correct(u) PROVE Sourced(f)
  BY <1>4, CorrectWrites DEF Sourced
<1>5. ASSUME CrawlEnd PROVE Sourced(f)
  BY <1>1, <1>5 DEF CrawlEnd, IInv, RowTyped, Sourced
<1>6. ASSUME \/ \E r \in Runs : Stage(r) \/ Rollback(r)
             \/ \E u \in Staff : Refuse(u) \/ \E changes \in Changes : Submit(u, changes)
             \/ CrawlBegin \/ CrawlFail \/ UNCHANGED vars
      PROVE  row' = row
  BY <1>6 DEF Stage, Rollback, Refuse, Submit, CrawlBegin, CrawlFail, vars, rowVars
<1> QED BY <1>2, <1>3, <1>4, <1>5, <1>6 DEF Next

(* A column changes only to what a correction asks, what the run's own row says, or the *)
(* site crawled: nothing that was read before comes back.                               *)
THEOREM NothingStaleIsEverWritten == Spec => NothingStaleIsWritten
<1> DEFINE Fresh == row # None => \A f \in Fields : row'[f] # row[f] => Sourced(f)
<1>1. IInv /\ [Next]_vars => [Fresh]_vars
  BY WritesAreSourced
<1>2. NothingStaleIsWritten <=> [][Fresh]_vars
  BY PTL DEF NothingStaleIsWritten, Sourced
<1> HIDE DEF Fresh
<1> QED BY <1>1, <1>2, AlwaysIInv, PTL DEF Spec

-----------------------------------------------------------------------------
(* Values and their evidence                                                   *)

Shows(O, f, value) == \E o \in O : o.field = f /\ o.value = value

\* What was kept of a source was observed.
KeptObserved ==
    /\ \A r \in Runs : EstablishmentRecord(r) \in records =>
         \A f \in RegisterFields : Row[r].values[f] # Blank => Shows(observations, f, Row[r].values[f])
    /\ \A r \in Runs : \A rec \in Complements[r] : rec \in records =>
         \A f \in DOMAIN rec.values : rec.values[f] # Blank => Shows(observations, f, rec.values[f])

(* The first time a record is kept its values are observed. *)
LEMMA KeepShows ==
    ASSUME NEW record, NEW values, Keep(record, values), record \notin records,
           NEW f \in DOMAIN values, values[f] # Blank
    PROVE  Shows(observations', f, values[f])
<1>1. Observation(record, f, values[f]) \in observations'
  BY DEF Keep
<1>2. Observation(record, f, values[f]).field = f
      /\ Observation(record, f, values[f]).value = values[f]
  BY DEF Observation
<1> QED BY <1>1, <1>2 DEF Shows

(* No step takes an observation away: at most it is no longer current. *)
LEMMA ShownStays ==
    ASSUME IInv, [Next]_vars, NEW f, NEW value, Shows(observations, f, value)
    PROVE  Shows(observations', f, value)
<1>1. PICK o \in observations : o.field = f /\ o.value = value
  BY DEF Shows
<1>2. ASSUME NEW u \in Staff, Correct(u)
      PROVE  \E p \in observations' : p.field = f /\ p.value = value
  <2> DEFINE F == {g \in DOMAIN post[u].changes : row[g] # post[u].changes[g]}
             p == IF o.field \in F THEN [o EXCEPT !.current = FALSE] ELSE o
  <2>1. Cleared(F) \subseteq observations'
    BY <1>2 DEF Correct
  <2>2. p \in Cleared(F)
    BY DEF Cleared
  <2>3. p.field = o.field /\ p.value = o.value
    BY DEF IInv, Observed
  <2> QED BY <1>1, <2>1, <2>2, <2>3
<1>3. ASSUME \/ \E r \in Runs : Commit(r) \/ \E rec \in Complements[r] : Complement(r, rec)
      PROVE  observations \subseteq observations'
  BY <1>3, KeepAdds DEF Commit, Complement, IInv
<1>4. ASSUME \/ \E r \in Runs : Stage(r) \/ Rollback(r)
             \/ \E u \in Staff : Refuse(u) \/ \E changes \in Changes : Submit(u, changes)
             \/ CrawlBegin \/ CrawlEnd \/ CrawlFail \/ UNCHANGED vars
      PROVE  observations' = observations
  BY <1>4 DEF Stage, Rollback, Refuse, Submit, CrawlBegin, CrawlEnd, CrawlFail, vars, evidenceVars
<1> QED BY <1>1, <1>2, <1>3, <1>4 DEF Next, Shows

(* Records of different kinds differ; equal rows have equal values. *)
LEMMA RecordsDiffer ==
    /\ \A r, o \in Runs : EstablishmentRecord(r) = EstablishmentRecord(o) => Row[r] = Row[o]
    /\ \A r, o \in Runs : \A rec \in Complements[r] : rec # EstablishmentRecord(o)
    /\ \A f, n : \A r \in Runs : /\ Manual(f, n) # EstablishmentRecord(r)
                                /\ Manual(f, n) \notin Complements[r]
<1>1. \A r \in Runs : EstablishmentRecord(r).kind = "establishment" /\ EstablishmentRecord(r).row = Row[r]
  BY DEF EstablishmentRecord
<1>2. \A f, n : Manual(f, n).kind = "manual"
  BY DEF Manual
<1>3. \A r \in Runs : \A rec \in Complements[r] : rec.kind \in Kinds
  BY RecordAssumption
<1>4. "establishment" \notin Kinds /\ "manual" \notin Kinds /\ "manual" # "establishment"
  BY DEF Kinds
<1> QED BY <1>1, <1>2, <1>3, <1>4

(* What an ingestion of the row writes it also keeps. *)
LEMMA CommitEvidence ==
    ASSUME IInv, KeptObserved, ValuesHaveEvidence, NEW r \in Runs, Commit(r)
    PROVE  KeptObserved' /\ ValuesHaveEvidence'
<1> DEFINE record == EstablishmentRecord(r)
           values == Row[r].values
<1>1. Keep(record, values) /\ row' = Overwritten(Saves(r))
  BY DEF Commit
<1>2. values \in [RegisterFields -> Texts]
  BY RecordAssumption
<1>3. records' = records \cup {record}
  BY <1>1 DEF Keep, evidenceVars
<1>4. \A f, v : Shows(observations, f, v) => Shows(observations', f, v)
  BY ShownStays DEF Next
<1>5. \A f \in RegisterFields : values[f] # Blank => Shows(observations', f, values[f])
  <2>1. CASE record \in records
    BY <1>4, <2>1 DEF KeptObserved
  <2>2. CASE record \notin records
    <3> HIDE DEF record, values
    <3> QED BY <1>1, <1>2, <2>2, KeepShows
  <2> QED BY <2>1, <2>2
<1>6. KeptObserved'
  <2>1. ASSUME NEW o \in Runs, EstablishmentRecord(o) \in records',
               NEW f \in RegisterFields, Row[o].values[f] # Blank
        PROVE  Shows(observations', f, Row[o].values[f])
    <3>1. CASE EstablishmentRecord(o) \in records
      BY <1>4, <2>1, <3>1 DEF KeptObserved
    <3>2. CASE EstablishmentRecord(o) = record
      BY <1>5, <2>1, <3>2, RecordsDiffer
    <3> QED BY <1>3, <2>1, <3>1, <3>2
  <2>2. ASSUME NEW o \in Runs, NEW rec \in Complements[o], rec \in records',
               NEW f \in DOMAIN rec.values, rec.values[f] # Blank
        PROVE  Shows(observations', f, rec.values[f])
    <3>1. rec \in records
      BY <1>3, <2>2, RecordsDiffer
    <3> QED BY <1>4, <2>2, <3>1 DEF KeptObserved
  <2> QED BY <2>1, <2>2 DEF KeptObserved
<1>7. ASSUME NEW f \in Fields \ {"website"}, row'[f] # Blank
      PROVE  Shows(observations', f, row'[f])
  <2>1. CASE f \in DOMAIN Saves(r)
    <3>1. row'[f] = values[f] /\ f \in RegisterFields
      BY <2>1, CommitRow, SavesTyped
    <3> QED BY <1>5, <1>7, <3>1
  <2>2. CASE f \notin DOMAIN Saves(r) /\ row = None
    <3>1. row'[f] = Blank
      BY <1>1, <2>2 DEF Overwritten, Columns
    <3> QED BY <1>7, <3>1
  <2>3. CASE f \notin DOMAIN Saves(r) /\ row # None
    <3>1. row'[f] = row[f]
      BY <2>3, CommitRow, ColumnsOf
    <3>2. Shows(observations, f, row[f])
      BY <1>7, <2>3, <3>1 DEF ValuesHaveEvidence, Shows
    <3> QED BY <1>4, <3>1, <3>2
  <2> QED BY <2>1, <2>2, <2>3
<1>8. ValuesHaveEvidence'
  BY <1>7 DEF ValuesHaveEvidence, Shows
<1> QED BY <1>6, <1>8

(* What a row of Empresas writes it also keeps. *)
LEMMA ComplementEvidence ==
    ASSUME IInv, KeptObserved, ValuesHaveEvidence,
           NEW r \in Runs, NEW rec \in Complements[r], Complement(r, rec)
    PROVE  KeptObserved' /\ ValuesHaveEvidence'
<1> DEFINE saved == Changed(rec.values, row)
<1>1. Keep(rec, rec.values) /\ row' = Overwritten([f \in saved |-> rec.values[f]]) /\ row # None
  BY DEF Complement
<1>2. records' = records \cup {rec}
  BY <1>1 DEF Keep, evidenceVars
<1>3. \A f, v : Shows(observations, f, v) => Shows(observations', f, v)
  BY ShownStays DEF Next
<1>4. \A f \in DOMAIN rec.values : rec.values[f] # Blank => Shows(observations', f, rec.values[f])
  <2>1. CASE rec \in records
    BY <1>3, <2>1 DEF KeptObserved
  <2>2. CASE rec \notin records
    BY <1>1, <2>2, KeepShows
  <2> QED BY <2>1, <2>2
<1>5. KeptObserved'
  <2>1. \A o \in Runs : EstablishmentRecord(o) \in records' => EstablishmentRecord(o) \in records
    BY <1>2, RecordsDiffer
  <2>2. \A o \in Runs : \A other \in Complements[o] :
          other \in records' => other \in records \/ other = rec
    BY <1>2
  <2> QED BY <1>3, <1>4, <2>1, <2>2 DEF KeptObserved
<1>6. ASSUME NEW f \in Fields \ {"website"}, row'[f] # Blank
      PROVE  Shows(observations', f, row'[f])
  <2>1. \A g \in saved : g \in Columns /\ rec.values[g] \in Texts /\ g \in DOMAIN rec.values
    BY ComplementSaves, ColumnsOf
  <2> HIDE DEF saved
  <2>2. CASE f \in saved
    <3>1. row'[f] = rec.values[f]
      BY <1>1, <2>1, <2>2, OverwrittenTyped DEF IInv
    <3> QED BY <1>4, <1>6, <2>1, <2>2, <3>1
  <2>3. CASE f \notin saved
    <3>1. row'[f] = row[f]
      BY <1>1, <2>1, <2>3, OverwrittenTyped, ColumnsOf DEF IInv
    <3>2. Shows(observations, f, row[f])
      BY <1>1, <1>6, <3>1 DEF ValuesHaveEvidence, Shows
    <3> QED BY <1>3, <3>1, <3>2
  <2> QED BY <2>2, <2>3
<1>7. ValuesHaveEvidence'
  BY <1>6 DEF ValuesHaveEvidence, Shows
<1> QED BY <1>5, <1>7

(* What a correction writes it observes. *)
LEMMA CorrectEvidence ==
    ASSUME IInv, KeptObserved, ValuesHaveEvidence, NEW u \in Staff, Correct(u)
    PROVE  KeptObserved' /\ ValuesHaveEvidence'
<1> DEFINE changes == post[u].changes
           effective == {f \in DOMAIN changes : row[f] # changes[f]}
           record(f) == Manual(f, Len(corrections[f]) + 1)
<1>1. /\ records' = records \cup {record(f) : f \in effective}
      /\ {Observation(record(f), f, changes[f]) : f \in effective} \subseteq observations'
  BY DEF Correct
<1>2. \A f, v : Shows(observations, f, v) => Shows(observations', f, v)
  BY ShownStays DEF Next
<1>3. KeptObserved'
  <2>1. \A o \in Runs : EstablishmentRecord(o) \in records' => EstablishmentRecord(o) \in records
    BY <1>1, RecordsDiffer
  <2>2. \A o \in Runs : \A rec \in Complements[o] : rec \in records' => rec \in records
    BY <1>1, RecordsDiffer
  <2> QED BY <1>2, <2>1, <2>2 DEF KeptObserved
<1>4. ASSUME NEW f \in Fields \ {"website"}, row'[f] # Blank
      PROVE  Shows(observations', f, row'[f])
  <2>1. row'[f] = IF f \in effective THEN changes[f] ELSE row[f]
    BY CorrectWrites
  <2>2. CASE f \in effective
    <3>1. Observation(record(f), f, changes[f]) \in observations'
      BY <1>1, <2>2
    <3>2. Observation(record(f), f, changes[f]).field = f
          /\ Observation(record(f), f, changes[f]).value = changes[f]
      BY DEF Observation
    <3> QED BY <2>1, <2>2, <3>1, <3>2 DEF Shows
  <2>3. CASE f \notin effective
    <3>1. row # None
      BY DEF Correct, IInv, RowTyped
    <3>2. Shows(observations, f, row[f])
      BY <1>4, <2>1, <2>3, <3>1 DEF ValuesHaveEvidence, Shows
    <3> QED BY <1>2, <2>1, <2>3, <3>2
  <2> QED BY <2>2, <2>3
<1>5. ValuesHaveEvidence'
  BY <1>4 DEF ValuesHaveEvidence, Shows
<1> QED BY <1>3, <1>5

(* Every value of the row but the crawled website is in some observation, however runs, *)
(* repetitions and corrections alternate.                                               *)
THEOREM ValuesAlwaysHaveEvidence == Spec => []ValuesHaveEvidence
<1>1. Init => KeptObserved /\ ValuesHaveEvidence
  <2> SUFFICES ASSUME Init PROVE KeptObserved /\ ValuesHaveEvidence
    OBVIOUS
  <2>1. records = {}
    BY DEF Init
  <2>2. ASSUME row # None, NEW f \in Fields \ {"website"} PROVE row[f] = Blank
    <3>1. row = [c \in Columns |-> IF c = "domain" THEN Site ELSE Blank]
      BY <2>2 DEF Init
    <3> QED BY <3>1, ColumnsOf
  <2>3. ValuesHaveEvidence
    BY <2>2 DEF ValuesHaveEvidence
  <2> QED BY <2>1, <2>3 DEF KeptObserved
<1>2. IInv /\ KeptObserved /\ ValuesHaveEvidence /\ [Next]_vars
      => KeptObserved' /\ ValuesHaveEvidence'
  <2> SUFFICES ASSUME IInv, KeptObserved, ValuesHaveEvidence, [Next]_vars
               PROVE  KeptObserved' /\ ValuesHaveEvidence'
    OBVIOUS
  <2>1. CASE CrawlEnd
    <3>1. UNCHANGED evidenceVars /\ row # None
          /\ row' = [row EXCEPT !["website"] = Site, !["domain"] = Site]
      BY <2>1 DEF CrawlEnd, IInv, RowTyped
    <3>2. \A f \in Fields \ {"website"} : row'[f] = row[f]
      BY <3>1, ColumnsOf DEF IInv, RowTyped
    <3>3. UNCHANGED <<records, observations>>
      BY <3>1 DEF evidenceVars
    <3>4. KeptObserved'
      BY <3>3 DEF KeptObserved
    <3>5. ValuesHaveEvidence'
      BY <3>1, <3>2, <3>3 DEF ValuesHaveEvidence
    <3> QED BY <3>4, <3>5
  <2>2. CASE \/ \E r \in Runs : Stage(r) \/ Rollback(r)
             \/ \E u \in Staff : Refuse(u) \/ \E changes \in Changes : Submit(u, changes)
             \/ CrawlBegin \/ CrawlFail \/ UNCHANGED vars
    <3>1. UNCHANGED <<row, records, observations>>
      BY <2>2 DEF Stage, Rollback, Refuse, Submit, CrawlBegin, CrawlFail, vars, rowVars,
                  evidenceVars
    <3> QED BY <3>1 DEF KeptObserved, ValuesHaveEvidence, Shows
  <2> QED BY <2>1, <2>2, CommitEvidence, ComplementEvidence, CorrectEvidence DEF Next
<1> QED BY <1>1, <1>2, AlwaysIInv, PTL DEF Spec

-----------------------------------------------------------------------------
(* Types: the evidence, the registered CNAEs and the length of the trail       *)

\* Every observation is of a record that is kept, every correction has its record.
EvidenceTyped ==
    /\ \A o \in observations : o.record \in records /\ o.value \in Texts /\ o.current \in BOOLEAN
    /\ IsFiniteSet(records) /\ (row = None => records = {})
    /\ \A f \in Fields : \A i \in 1..Len(corrections[f]) : Manual(f, i) \in records

\* Once a run has ingested the company exactly one CNAE is primary.
OnePrimary ==
    /\ cnaes \in [Codes -> {"primary", "secondary", None}]
    /\ IF \A r \in Runs : results[r] = None THEN \A c \in Codes : cnaes[c] # "primary"
       ELSE \E c \in Codes : {d \in Codes : cnaes[d] = "primary"} = {c}

CandidatesTyped ==
    /\ DOMAIN candidates = Runs
    /\ \A r \in Runs : candidates[r] # None => candidates[r] \subseteq Kinds

\* A POST that is pending has its correction reserved in every trail.
Pending == {u \in Staff : post[u] # None}
TrailBounded ==
    \A f \in Fields : Len(corrections[f]) + Cardinality(Pending) <= MaxCorrections + Cardinality(Staff)

TypeInv == EvidenceTyped /\ OnePrimary /\ CandidatesTyped /\ TrailBounded

(* The pending POSTs are at most those of all staff. *)
LEMMA PendingFinite ==
    /\ IsFiniteSet(Pending) /\ Cardinality(Pending) \in Nat
    /\ Cardinality(Staff) \in Nat /\ Cardinality(Pending) <= Cardinality(Staff)
<1>1. IsFiniteSet(Staff) /\ Pending \in SUBSET Staff
  BY RecordAssumption DEF Pending
<1> QED BY <1>1, FS_Subset, FS_CardinalityType

(* Keeping a record whose values are texts keeps the evidence typed. *)
LEMMA KeepTyped ==
    ASSUME EvidenceTyped, NEW record, NEW values, Keep(record, values),
           \A f \in DOMAIN values : values[f] \in Texts,
           corrections' = corrections, row' # None
    PROVE  EvidenceTyped'
<1>1. records \subseteq records' /\ IsFiniteSet(records')
  BY FS_AddElement DEF Keep, evidenceVars, EvidenceTyped
<1>2. \A o \in observations' : o.record \in records' /\ o.value \in Texts /\ o.current \in BOOLEAN
  <2>1. CASE record \in records
    BY <2>1 DEF Keep, evidenceVars, EvidenceTyped
  <2>2. CASE record \notin records
    <3>1. /\ record \in records'
          /\ observations' = observations \cup
               {Observation(record, f, values[f]) : f \in {g \in DOMAIN values : values[g] # Blank}}
      BY <2>2 DEF Keep
    <3>2. \A f \in DOMAIN values : /\ Observation(record, f, values[f]).record = record
                                  /\ Observation(record, f, values[f]).value \in Texts
                                  /\ Observation(record, f, values[f]).current \in BOOLEAN
      BY DEF Observation
    <3> QED BY <1>1, <3>1, <3>2 DEF EvidenceTyped
  <2> QED BY <2>1, <2>2
<1> QED BY <1>1, <1>2 DEF EvidenceTyped

(* The records of the corrections of one field are among the manual ones. *)
LEMMA TrailCounted ==
    ASSUME IInv, EvidenceTyped, NEW f \in Fields
    PROVE  Len(corrections[f]) \in Nat /\ CorrectionsMade \in Nat /\ Len(corrections[f]) <= CorrectionsMade
<1> DEFINE n == Len(corrections[f])
           M == {k \in records : k.kind = "manual"}
           g == [i \in 1..n |-> Manual(f, i)]
<1>1. n \in Nat
  BY DEF IInv, RowTyped
<1>2. IsFiniteSet(M) /\ Cardinality(M) \in Nat
  BY FS_Subset, FS_CardinalityType DEF EvidenceTyped
<1>3. \A i \in 1..n : Manual(f, i) \in M
  BY DEF EvidenceTyped, Manual
<1>4. \A i, k \in 1..n : Manual(f, i) = Manual(f, k) => i = k
  BY DEF Manual
<1> HIDE DEF M
<1>5. g \in [1..n -> M] /\ \A i, k \in 1..n : g[i] = g[k] => i = k
  BY <1>3, <1>4
<1> HIDE DEF g
<1>6. g \in Injection(1..n, M)
  BY <1>5 DEF Injection, IsInjective
<1>7. Cardinality(1..n) <= Cardinality(M)
  BY <1>2, <1>6, FS_Injection
<1>8. Cardinality(1..n) = n
  <2>1. Cardinality(1..n) = IF 1 > n THEN 0 ELSE n - 1 + 1
    BY <1>1, FS_Interval
  <2> QED BY <1>1, <2>1
<1> QED BY <1>1, <1>2, <1>7, <1>8 DEF CorrectionsMade, M

(* The types hold at first. *)
LEMMA InitTyped == Init => TypeInv
<1> SUFFICES ASSUME Init PROVE TypeInv
  OBVIOUS
<1>1. EvidenceTyped
  BY FS_EmptySet DEF Init, EvidenceTyped
<1>2. OnePrimary
  <2>1. \A c \in Codes : cnaes[c] = None /\ None # "primary"
    BY RecordAssumption DEF Init
  <2> QED BY <2>1 DEF Init, OnePrimary
<1>3. CandidatesTyped
  BY DEF Init, CandidatesTyped
<1>4. TrailBounded
  <2>1. Pending = {} /\ \A f \in Fields : Len(corrections[f]) = 0
    BY DEF Init, Pending
  <2> QED BY <2>1, FS_EmptySet, PendingFinite, RecordAssumption DEF TrailBounded
<1> QED BY <1>1, <1>2, <1>3, <1>4 DEF TypeInv

(* Switching the CNAEs leaves the primary of the row as the only one. *)
LEMMA SwitchTyped ==
    ASSUME OnePrimary, NEW r \in Runs, cnaes' = Switch(Row[r]),
           results'[r] # None
    PROVE  OnePrimary'
<1> DEFINE p == Row[r].primary
<1>1. p \in Codes
  BY DEF Codes
<1>2. \A c \in Codes : /\ cnaes'[c] \in {"primary", "secondary", None}
                      /\ cnaes'[c] = "primary" <=> c = p
  BY DEF Switch, OnePrimary
<1>3. cnaes' \in [Codes -> {"primary", "secondary", None}]
  <2>1. \A c \in Codes : Switch(Row[r])[c] \in {"primary", "secondary", None}
    BY DEF Switch, OnePrimary
  <2>2. Switch(Row[r]) \in [Codes -> {"primary", "secondary", None}]
    BY <2>1 DEF Switch
  <2> QED BY <2>2
<1>4. {d \in Codes : cnaes'[d] = "primary"} = {p}
  BY <1>1, <1>2
<1> QED BY <1>1, <1>3, <1>4 DEF OnePrimary

(* A commit registers the run and switches the CNAEs with its row. *)
LEMMA CommitTyped == ASSUME IInv, TypeInv, NEW r \in Runs, Commit(r) PROVE TypeInv'
<1>1. /\ Keep(EstablishmentRecord(r), Row[r].values) /\ cnaes' = Switch(Row[r]) /\ results' = Result(r)
      /\ candidates' = [candidates EXCEPT ![r] = IF @ = None THEN {} ELSE @]
      /\ UNCHANGED <<corrections, post>>
  BY DEF Commit, staffVars
<1>2. row' # None
  BY CommitRow
<1>3. EvidenceTyped'
  <2>1. \A f \in DOMAIN Row[r].values : Row[r].values[f] \in Texts
    BY RecordAssumption
  <2> QED BY <1>1, <1>2, <2>1, KeepTyped DEF TypeInv
<1>4. OnePrimary'
  <2>1. results'[r] # None
    BY <1>1, NothingThere DEF Result, IInv, Discovery
  <2> QED BY <1>1, <2>1, SwitchTyped DEF TypeInv
<1>5. CandidatesTyped' /\ TrailBounded'
  BY <1>1 DEF TypeInv, CandidatesTyped, TrailBounded, Pending
<1> QED BY <1>3, <1>4, <1>5 DEF TypeInv

(* A complement marks its kind on the candidate. *)
LEMMA ComplementTyped ==
    ASSUME IInv, TypeInv, NEW r \in Runs, NEW rec \in Complements[r], Complement(r, rec)
    PROVE  TypeInv'
<1>1. /\ Keep(rec, rec.values) /\ candidates' = [candidates EXCEPT ![r] = @ \cup {rec.kind}]
      /\ candidates[r] # None /\ row # None
      /\ UNCHANGED <<corrections, post, cnaes, results>>
  BY DEF Complement, staffVars
<1>2. rec.kind \in Kinds /\ \A f \in DOMAIN rec.values : rec.values[f] \in Texts
  BY RecordAssumption
<1>3. row' # None
  <2> DEFINE saved == Changed(rec.values, row)
  <2>1. row' = Overwritten([f \in saved |-> rec.values[f]]) /\ \A f \in saved : rec.values[f] \in Texts
    BY ComplementSaves DEF Complement
  <2> HIDE DEF saved
  <2> QED BY <2>1, OverwrittenTyped, NothingThere DEF IInv
<1>4. EvidenceTyped'
  BY <1>1, <1>2, <1>3, KeepTyped DEF TypeInv
<1>5. OnePrimary' /\ CandidatesTyped' /\ TrailBounded'
  BY <1>1, <1>2 DEF TypeInv, OnePrimary, CandidatesTyped, TrailBounded, Pending
<1> QED BY <1>4, <1>5 DEF TypeInv

(* A correction adds one entry to the trail of each of its fields, with its record. *)
LEMMA CorrectTyped == ASSUME IInv, TypeInv, NEW u \in Staff, Correct(u) PROVE TypeInv'
<1> DEFINE changes == post[u].changes
           effective == {f \in DOMAIN changes : row[f] # changes[f]}
           record(f) == Manual(f, Len(corrections[f]) + 1)
           R == {record(f) : f \in effective}
           made == {Observation(record(f), f, changes[f]) : f \in effective}
<1>1. /\ records' = records \cup R /\ observations' = Cleared(effective) \cup made
      /\ post[u] # None /\ post' = [post EXCEPT ![u] = None]
      /\ UNCHANGED <<cnaes, results, candidates>> /\ row # None
  BY DEF Correct, IInv, RowTyped, runVars
<1>2. /\ effective \subseteq Fields /\ \A f \in effective : changes[f] \in Texts
      /\ \A f \in effective : Len(corrections'[f]) = Len(corrections[f]) + 1
      /\ \A f \in Fields \ effective : corrections'[f] = corrections[f]
      /\ row' # None
  BY CorrectWrites, NothingThere
<1> HIDE DEF effective, changes
<1>3. IsFiniteSet(records')
  <2>1. IsFiniteSet(Fields)
    <3>1. Fields = (RegisterFields \cup ComplementFields) \cup {"website"}
      BY DEF Fields
    <3> QED BY <3>1, RecordAssumption, FS_AddElement
  <2>2. IsFiniteSet(effective)
    BY <1>2, <2>1, FS_Subset
  <2> DEFINE g == [f \in effective |-> record(f)]
  <2>3. g \in Surjection(effective, R)
    BY DEF Surjection
  <2> HIDE DEF g, R
  <2>4. IsFiniteSet(R)
    BY <2>2, <2>3, FS_Surjection
  <2> QED BY <1>1, <2>4, FS_Union DEF TypeInv, EvidenceTyped
<1>4. \A o \in observations' : o.record \in records' /\ o.value \in Texts /\ o.current \in BOOLEAN
  <2>1. ASSUME NEW o \in made
        PROVE  o.record \in records' /\ o.value \in Texts /\ o.current \in BOOLEAN
    <3>1. PICK f \in effective : o = Observation(record(f), f, changes[f])
      BY <2>1
    <3>2. o.record = record(f) /\ o.value = changes[f] /\ o.current = TRUE
      BY <3>1 DEF Observation
    <3> QED BY <1>1, <1>2, <3>2
  <2>2. ASSUME NEW o \in Cleared(effective)
        PROVE  o.record \in records' /\ o.value \in Texts /\ o.current \in BOOLEAN
    <3>1. PICK k \in observations : o = IF k.field \in effective THEN [k EXCEPT !.current = FALSE] ELSE k
      BY <2>2 DEF Cleared
    <3>2. k.record \in records /\ k.value \in Texts /\ k.current \in BOOLEAN
      BY DEF TypeInv, EvidenceTyped
    <3>3. o.record = k.record /\ o.value = k.value /\ o.current \in {k.current, FALSE}
      BY <3>1 DEF IInv, Observed
    <3> QED BY <1>1, <3>2, <3>3
  <2> QED BY <1>1, <2>1, <2>2
<1>5. ASSUME NEW f \in Fields, NEW i \in 1..Len(corrections'[f]) PROVE Manual(f, i) \in records'
  <2>1. Len(corrections[f]) \in Nat
    BY DEF IInv, RowTyped
  <2>2. CASE i \in 1..Len(corrections[f])
    BY <1>1, <2>2 DEF TypeInv, EvidenceTyped
  <2>3. CASE i \notin 1..Len(corrections[f])
    <3>1. f \in effective /\ i = Len(corrections[f]) + 1
      BY <1>2, <1>5, <2>1, <2>3
    <3> QED BY <1>1, <3>1
  <2> QED BY <2>2, <2>3
<1>6. EvidenceTyped'
  BY <1>2, <1>3, <1>4, <1>5 DEF EvidenceTyped
<1>7. TrailBounded'
  <2>1. u \in Pending /\ Pending' = Pending \ {u}
    BY <1>1 DEF Pending, IInv, RowTyped
  <2>2. Cardinality(Pending') = Cardinality(Pending) - 1
    BY <2>1, PendingFinite, FS_RemoveElement
  <2> SUFFICES ASSUME NEW f \in Fields
               PROVE  Len(corrections'[f]) + Cardinality(Pending') <= MaxCorrections + Cardinality(Staff)
    BY DEF TrailBounded
  <2>3. Len(corrections[f]) \in Nat /\ Len(corrections'[f]) \in {Len(corrections[f]), Len(corrections[f]) + 1}
    BY <1>2 DEF IInv, RowTyped
  <2>4. Len(corrections[f]) + Cardinality(Pending) <= MaxCorrections + Cardinality(Staff)
    BY DEF TypeInv, TrailBounded
  <2> QED BY <2>2, <2>3, <2>4, PendingFinite, RecordAssumption
<1>8. OnePrimary' /\ CandidatesTyped'
  BY <1>1 DEF TypeInv, OnePrimary, CandidatesTyped
<1> QED BY <1>6, <1>7, <1>8 DEF TypeInv

(* A POST begins with fewer corrections than the bound: the trail has room for it. *)
LEMMA SubmitTyped ==
    ASSUME IInv, TypeInv, NEW u \in Staff, NEW changes \in Changes, Submit(u, changes)
    PROVE  TypeInv'
<1>1. /\ UNCHANGED <<row, records, observations, cnaes, results, candidates, corrections>>
      /\ CorrectionsMade < MaxCorrections
  BY DEF Submit, rowVars, evidenceVars, runVars
<1>2. IsFiniteSet(Pending') /\ Cardinality(Pending') \in Nat /\ Cardinality(Pending') <= Cardinality(Staff)
  <2>1. IsFiniteSet(Staff) /\ Pending' \in SUBSET Staff
    BY RecordAssumption DEF Pending
  <2> QED BY <2>1, FS_Subset, FS_CardinalityType
<1>3. TrailBounded'
  <2> SUFFICES ASSUME NEW f \in Fields
               PROVE  Len(corrections[f]) + Cardinality(Pending') <= MaxCorrections + Cardinality(Staff)
    BY <1>1 DEF TrailBounded
  <2>1. /\ Len(corrections[f]) \in Nat /\ CorrectionsMade \in Nat
        /\ Len(corrections[f]) <= CorrectionsMade
    BY TrailCounted DEF TypeInv
  <2> QED BY <1>1, <1>2, <2>1, PendingFinite, RecordAssumption
<1>4. EvidenceTyped' /\ OnePrimary' /\ CandidatesTyped'
  BY <1>1 DEF TypeInv, EvidenceTyped, OnePrimary, CandidatesTyped
<1> QED BY <1>3, <1>4 DEF TypeInv

(* Every step keeps the types. *)
LEMMA TypeInvStep == IInv /\ TypeInv /\ [Next]_vars => TypeInv'
<1> SUFFICES ASSUME IInv, TypeInv, [Next]_vars PROVE TypeInv'
  OBVIOUS
<1>1. ASSUME NEW u \in Staff, Refuse(u) PROVE TypeInv'
  <2>1. /\ UNCHANGED <<row, records, observations, cnaes, results, candidates, corrections>>
        /\ Pending' = Pending \ {u}
    BY <1>1 DEF Refuse, rowVars, evidenceVars, runVars, Pending, IInv, RowTyped
  <2>2. Cardinality(Pending') <= Cardinality(Pending) /\ Cardinality(Pending') \in Nat
    <3>1. Pending' \in SUBSET Pending
      BY <2>1
    <3>2. IsFiniteSet(Pending') /\ Cardinality(Pending') <= Cardinality(Pending)
      BY <3>1, PendingFinite, FS_Subset
    <3> QED BY <3>2, FS_CardinalityType
  <2>3. TrailBounded'
    <3> SUFFICES ASSUME NEW f \in Fields
                 PROVE  Len(corrections[f]) + Cardinality(Pending') <= MaxCorrections + Cardinality(Staff)
      BY <2>1 DEF TrailBounded
    <3>1. Len(corrections[f]) \in Nat
      BY DEF IInv, RowTyped
    <3>2. Len(corrections[f]) + Cardinality(Pending) <= MaxCorrections + Cardinality(Staff)
      BY DEF TypeInv, TrailBounded
    <3> QED BY <2>2, <3>1, <3>2, PendingFinite, RecordAssumption
  <2>4. EvidenceTyped' /\ OnePrimary' /\ CandidatesTyped'
    BY <2>1 DEF TypeInv, EvidenceTyped, OnePrimary, CandidatesTyped
  <2> QED BY <2>3, <2>4 DEF TypeInv
<1>2. ASSUME \/ \E r \in Runs : Stage(r) \/ Rollback(r)
             \/ CrawlBegin \/ CrawlEnd \/ CrawlFail \/ UNCHANGED vars
      PROVE  TypeInv'
  <2>1. UNCHANGED <<records, observations, cnaes, results, candidates, corrections, post>>
    BY <1>2 DEF Stage, Rollback, CrawlBegin, CrawlEnd, CrawlFail, vars, evidenceVars, runVars, staffVars
  <2>2. row' = None => row = None
    <3>1. IInv'
      BY IInvStep
    <3>2. CASE CrawlEnd
      <4>1. row \in [Columns -> Texts] /\ row' = [row EXCEPT !["website"] = Site, !["domain"] = Site]
        BY <3>2 DEF CrawlEnd, IInv, RowTyped
      <4>2. row' \in [Columns -> Texts]
        BY <4>1, RecordAssumption
      <4> QED BY <4>2, NothingThere
    <3>3. CASE ~CrawlEnd
      BY <1>2, <3>3 DEF Stage, Rollback, CrawlBegin, CrawlFail, vars, rowVars
    <3> QED BY <3>2, <3>3
  <2> QED BY <2>1, <2>2 DEF TypeInv, EvidenceTyped, OnePrimary, CandidatesTyped, TrailBounded, Pending
<1> QED BY <1>1, <1>2, CommitTyped, ComplementTyped, CorrectTyped, SubmitTyped DEF Next

(* Every variable keeps its type.  In particular an observation always belongs to a  *)
(* record that is kept, a company a run has ingested has exactly one primary CNAE,   *)
(* however competences that disagree on it alternate, and a trail outgrows the bound *)
(* by at most one correction for each member of staff.                               *)
THEOREM TypesHold == Spec => []TypeOK
<1>1. IInv /\ TypeInv => TypeOK
  <2> SUFFICES ASSUME IInv, TypeInv PROVE TypeOK
    OBVIOUS
  <2>1. row # None => row \in [Columns -> Texts]
    BY DEF IInv, RowTyped
  <2>2. \A o \in observations : o.record \in records /\ o.value \in Texts /\ o.current \in BOOLEAN
    BY DEF TypeInv, EvidenceTyped
  <2>3. cnaes \in [Codes -> {"primary", "secondary", None}] /\ results \in [Runs -> BOOLEAN \cup {None}]
    BY DEF TypeInv, OnePrimary, IInv, Discovery
  <2>4. ASSUME NEW f \in Fields PROVE Len(corrections[f]) <= MaxCorrections + Cardinality(Staff)
    <3>1. Len(corrections[f]) \in Nat
      BY DEF IInv, RowTyped
    <3>2. Len(corrections[f]) + Cardinality(Pending) <= MaxCorrections + Cardinality(Staff)
      BY DEF TypeInv, TrailBounded
    <3> QED BY <3>1, <3>2, PendingFinite, RecordAssumption
  <2>5. \A r \in Runs : seen[r] \in {None, Absent} \/ seen[r] \in [Columns -> Texts]
    BY DEF IInv, OneCreates
  <2>6. /\ \A r \in Runs : candidates[r] # None => candidates[r] \subseteq Kinds
        /\ \A u \in Staff : post[u] # None => post[u].changes \in Changes
        /\ settled \subseteq Fields
        /\ row = None => records = {} /\ \A r \in Runs : results[r] = None
    BY DEF TypeInv, CandidatesTyped, EvidenceTyped, IInv, RowTyped, Discovery
  <2>7. Cardinality({c \in Codes : cnaes[c] = "primary"})
          = IF \A r \in Runs : results[r] = None THEN 0 ELSE 1
    <3> DEFINE P == {c \in Codes : cnaes[c] = "primary"}
    <3>1. CASE \A r \in Runs : results[r] = None
      <4>1. P = {}
        BY <3>1 DEF TypeInv, OnePrimary
      <4> QED BY <3>1, <4>1, FS_EmptySet
    <3>2. CASE ~\A r \in Runs : results[r] = None
      <4>1. PICK c \in Codes : P = {c}
        BY <3>2 DEF TypeInv, OnePrimary
      <4> QED BY <3>2, <4>1, FS_Singleton
    <3> QED BY <3>1, <3>2
  <2> QED BY <2>1, <2>2, <2>3, <2>4, <2>5, <2>6, <2>7 DEF TypeOK
<1> QED BY <1>1, InitTyped, TypeInvStep, AlwaysIInv, PTL DEF Spec
=============================================================================
