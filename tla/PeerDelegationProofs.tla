------------------------ MODULE PeerDelegationProofs ------------------------
(* Theorems about PeerDelegation, for every value of its constants.        *)
EXTENDS PeerDelegation, SequenceTheorems, WellFoundedInduction, TLAPS

\* What a row of an outbox is, whatever it was tried.
Row ==
  [kind : Kind, task : Tasks \cup {NoTask}, outcome : Settled \cup {"none"},
   ran : BOOLEAN, seq : Nat \ {0}, lost : SUBSET Nat, tries : Nat,
   sent : BOOLEAN, state : {"owed", "acked", "dead"}, unreached : BOOLEAN]

Bounded(rows) == \E m \in Nat : \A r \in DOMAIN rows : rows[r].seq <= m

\* The outboxes are sequences of rows, and what is being sent is still owed.
RowsType ==
  /\ out \in [Node -> Seq(Row)]
  /\ \A n \in Node : Bounded(out[n])
  /\ sending \in [Node -> Nat]
  /\ \A n \in Node : sending[n] # 0 => sending[n] \in Owed(out[n])

\* Every other variable is what its handlers take it for.
HereType ==
  /\ task \in [Tasks -> HomeState]
  /\ work \in [Tasks -> PeerState]
  /\ verdict \in [Tasks -> Verdicts]
  /\ seen \in [Node -> SUBSET Nat]
  /\ cursor \in [Node -> Nat]
  /\ revoked \subseteq Node
  /\ letters \subseteq [row : Nat, refused : BOOLEAN, neverSent : BOOLEAN]
  /\ starting \subseteq Tasks
  /\ held \subseteq Tasks
  /\ thread \in [Node -> StretchType]
  /\ wire \in [Node -> SUBSET Nat]
  /\ reply \in [Node -> Reply]
  /\ failures \in 0..MaxFailures
  /\ crashes \in 0..MaxCrashes
  /\ starts \in [Tasks -> Nat]

\* A message about a task names one, and an answer says how it went.
Says(kind, t, outcome) ==
  /\ kind \in {"delegate", "cancel.request", "result"} => t \in Tasks
  /\ kind = "result" => outcome \in Settled

\* So does a stretch of code that is to send one.
Intends(stretch) ==
  /\ stretch.at \in {"notify", "resolve", "ready", "answer", "answer_boot"}
       => stretch.task \in Tasks
  /\ stretch.at \in {"answer", "answer_boot"} => stretch.outcome \in Settled
  /\ stretch.at \in {"resolve", "ready", "record"} => stretch.row # 0

\* What is known of a row by its place is known of a row of that outbox.
References ==
  /\ \A n \in Node :
       /\ wire[n] \subseteq DOMAIN out[n]
       /\ seen[n] \subseteq DOMAIN out[Other(n)]
       /\ cursor[n] \in {0} \cup Sequences(out[Other(n)])
       /\ thread[n].row \in {0} \cup DOMAIN out[Other(n)]
       /\ Intends(thread[n])
       /\ \A r \in DOMAIN out[n] :
            Says(out[n][r].kind, out[n][r].task, out[n][r].outcome)
  /\ \A letter \in letters : letter.row \in DOMAIN out["home"]

LinkType == RowsType /\ HereType /\ References

\* A set of natural numbers that has a bound has a largest member.
LEMMA LargestExists ==
  ASSUME NEW S, S \subseteq Nat, S # {}, NEW m \in Nat, \A x \in S : x <= m
  PROVE  Max(S) \in S /\ \A x \in S : x <= Max(S)
<1> DEFINE T == {m - x : x \in S}
<1>0. \A x \in S : m - x \in Nat
  OBVIOUS
<1>1. T \subseteq Nat /\ T # {}
  BY <1>0
<1>2. PICK d \in T : \A y \in T : ~ (<<y, d>> \in OpToRel(<, Nat))
  BY <1>1, NatLessThanWellFounded, WFMin
<1>3. \A y \in T : ~ (y < d)
  BY <1>1, <1>2 DEF OpToRel
<1>4. PICK x \in S : d = m - x
  BY <1>2
<1>5. ASSUME NEW y \in S PROVE x >= y
  <2>1. m - y \in T
    OBVIOUS
  <2>2. ~ (m - y < m - x)
    BY <1>3, <1>4, <2>1
  <2> QED
    BY <2>2
<1> QED
  BY <1>4, <1>5 DEF Max

\* Every row of an outbox is one.
LEMMA RowsAreRows ==
  ASSUME NEW rows \in Seq(Row)
  PROVE  \A r \in DOMAIN rows : rows[r] \in Row /\ r \in Nat \ {0}
  BY LenProperties

\* The next sequence is beyond all there are.
LEMMA NextIsBeyond ==
  ASSUME NEW rows \in Seq(Row), Bounded(rows)
  PROVE  /\ NextSequence(rows) \in Nat \ {0}
         /\ \A r \in DOMAIN rows : rows[r].seq < NextSequence(rows)
<1> DEFINE S == {0} \cup Sequences(rows)
<1>1. \A r \in DOMAIN rows : rows[r].seq \in Nat \ {0}
  BY RowsAreRows DEF Row
<1>2. PICK m \in Nat : \A r \in DOMAIN rows : rows[r].seq <= m
  BY DEF Bounded
<1>3. S \subseteq Nat /\ S # {} /\ \A x \in S : x <= m
  BY <1>1, <1>2 DEF Sequences
<1>4. Max(S) \in S /\ \A x \in S : x <= Max(S)
  BY <1>3, LargestExists
<1> QED
  BY <1>1, <1>3, <1>4 DEF NextSequence, Sequences

\* A row that was never tried is one.
LEMMA EnvelopeIsRow ==
  ASSUME NEW kind \in Kind, NEW t \in Tasks \cup {NoTask},
         NEW outcome \in Settled \cup {"none"}, NEW ran \in BOOLEAN,
         NEW seq \in Nat \ {0}, NEW lost \in SUBSET Nat
  PROVE  Envelope(kind, t, outcome, ran, seq, lost) \in Row
  BY DEF Envelope, Row

\* One row more, and the others as they were.
Added(rows, new, k, e) ==
  /\ k \in Nat \ {0}
  /\ k \notin DOMAIN rows
  /\ DOMAIN new = DOMAIN rows \cup {k}
  /\ new[k] = e
  /\ \A r \in DOMAIN rows : new[r] = rows[r]

\* What sending leaves in an outbox: what there was, and one row more.
LEMMA SendAppends ==
  ASSUME RowsType, NEW n \in Node, NEW e \in Row,
         out' = [out EXCEPT ![n] = Append(@, e)]
  PROVE  /\ out' \in [Node -> Seq(Row)]
         /\ \A m \in Node : Bounded(out'[m])
         /\ \A m \in Node \ {n} : out'[m] = out[m]
         /\ \E k : Added(out[n], out'[n], k, e)
<1>1. out[n] \in Seq(Row)
  BY DEF RowsType
<1>2. e.seq \in Nat
  BY DEF Row
<1>3. /\ Append(out[n], e) \in Seq(Row)
      /\ Len(Append(out[n], e)) = Len(out[n]) + 1
      /\ \A i \in 1..Len(out[n]) : Append(out[n], e)[i] = out[n][i]
      /\ Append(out[n], e)[Len(out[n]) + 1] = e
  BY <1>1, AppendProperties
<1>4. out'[n] = Append(out[n], e) /\ \A m \in Node \ {n} : out'[m] = out[m]
  BY DEF RowsType
<1>5. out' \in [Node -> Seq(Row)]
  BY <1>3 DEF RowsType
<1>6. DOMAIN out[n] = 1..Len(out[n]) /\ Len(out[n]) \in Nat
  BY <1>1, LenProperties
<1>7. DOMAIN out'[n] = 1..(Len(out[n]) + 1)
  BY <1>3, <1>4, LenProperties
<1>8. Len(out[n]) + 1 \in Nat \ {0} /\ Len(out[n]) + 1 \notin DOMAIN out[n]
  BY <1>6
<1>9. DOMAIN out'[n] = DOMAIN out[n] \cup {Len(out[n]) + 1}
  BY <1>6, <1>7
<1>10. Bounded(out'[n])
  <2>1. PICK m \in Nat : \A r \in DOMAIN out[n] : out[n][r].seq <= m
    BY DEF RowsType, Bounded
  <2>2. \A r \in DOMAIN out[n] : out[n][r].seq \in Nat
    BY <1>1, RowsAreRows DEF Row
  <2>3. \A r \in DOMAIN out'[n] : out'[n][r].seq <= m + e.seq
    BY <1>2, <1>3, <1>4, <1>6, <1>9, <2>1, <2>2
  <2> QED
    BY <1>2, <2>3, m + e.seq \in Nat DEF Bounded
<1>11. \A m \in Node : Bounded(out'[m])
  BY <1>4, <1>10 DEF RowsType
<1> QED
  BY <1>3, <1>4, <1>5, <1>6, <1>8, <1>9, <1>11 DEF Added

\* What a step that only marks rows does to an outbox: none comes or goes, and
\* none says anything else; what is not owed any more stays as it is.
Marked(rows, new) ==
  /\ DOMAIN new = DOMAIN rows
  /\ \A r \in DOMAIN rows :
       /\ new[r].kind = rows[r].kind
       /\ new[r].task = rows[r].task
       /\ new[r].outcome = rows[r].outcome
       /\ new[r].ran = rows[r].ran
       /\ new[r].seq = rows[r].seq
       /\ new[r].lost = rows[r].lost
       /\ rows[r].sent => new[r].sent
       /\ rows[r].state # "owed" => new[r].state = rows[r].state

\* Marking rows leaves the outbox one, within the same bound.
LEMMA MarkingKeepsType ==
  ASSUME RowsType, NEW n \in Node, NEW new, new \in Seq(Row),
         Marked(out[n], new), out' = [out EXCEPT ![n] = new]
  PROVE  /\ out' \in [Node -> Seq(Row)]
         /\ \A m \in Node : Bounded(out'[m])
         /\ \A m \in Node \ {n} : out'[m] = out[m]
         /\ out'[n] = new
<1>1. out'[n] = new /\ \A m \in Node \ {n} : out'[m] = out[m]
  BY DEF RowsType
<1>2. Bounded(new)
  BY DEF RowsType, Bounded, Marked
<1>3. \A m \in Node : Bounded(out'[m])
  BY <1>1, <1>2 DEF RowsType
<1> QED
  BY <1>1, <1>3 DEF RowsType

\* One row is changed: the outbox stays one if the row stays one.
LEMMA OneRowChanges ==
  ASSUME NEW rows \in Seq(Row), NEW r \in DOMAIN rows, NEW e \in Row
  PROVE  /\ [rows EXCEPT ![r] = e] \in Seq(Row)
         /\ DOMAIN [rows EXCEPT ![r] = e] = DOMAIN rows
         /\ [rows EXCEPT ![r] = e][r] = e
         /\ \A o \in DOMAIN rows \ {r} : [rows EXCEPT ![r] = e][o] = rows[o]
<1>1. DOMAIN rows = 1..Len(rows)
  BY LenProperties
<1> QED
  BY <1>1, ExceptSeq

\* A row that is counted as tried, and one that failed, are rows.
LEMMA TriedIsRow ==
  ASSUME NEW row \in Row, NEW unreached \in BOOLEAN
  PROVE  [row EXCEPT !.tries = @ + 1, !.unreached = unreached] \in Row
<1>1. row.tries + 1 \in Nat
  BY DEF Row
<1>2. \A k \in Nat : [row EXCEPT !.tries = k, !.unreached = unreached] \in Row
  BY DEF Row
<1> QED
  BY <1>1, <1>2

\* So is a row that failed.
LEMMA FailedIsRow ==
  ASSUME NEW row \in Row
  PROVE  Failed(row) \in Row
<1>1. CASE row.tries >= MaxTries
  BY <1>1 DEF Row, Failed
<1>2. CASE ~ (row.tries >= MaxTries)
  BY <1>2 DEF Row, Failed
<1> QED
  BY <1>1, <1>2

\* Counting rows as failing marks them.
LEMMA HoldingBackMarks ==
  ASSUME NEW rows \in Seq(Row), NEW back \in SUBSET Owed(rows)
  PROVE  /\ HoldingBack(rows, back) \in Seq(Row)
         /\ Marked(rows, HoldingBack(rows, back))
         /\ \A r \in DOMAIN rows :
              HoldingBack(rows, back)[r] =
                IF r \in back THEN HeldBack(rows[r]) ELSE rows[r]
<1> DEFINE new == HoldingBack(rows, back)
<1>1. \A r \in DOMAIN rows : rows[r] \in Row
  BY RowsAreRows
<1>2. \A row \in Row : HeldBack(row) \in Row
  BY FailedIsRow, TriedIsRow DEF HeldBack
<1>3. /\ DOMAIN new = DOMAIN rows
      /\ \A r \in DOMAIN rows :
           new[r] = IF r \in back THEN HeldBack(rows[r]) ELSE rows[r]
  BY DEF HoldingBack
<1>4. \A r \in DOMAIN rows : new[r] \in Row
  BY <1>1, <1>2, <1>3
<1>5. DOMAIN rows = 1..Len(rows) /\ Len(rows) \in Nat
  BY LenProperties
<1>6. new \in [1..Len(rows) -> Row]
  BY <1>3, <1>4, <1>5 DEF HoldingBack
<1>7. new \in Seq(Row)
  BY <1>5, <1>6
<1>8. \A row \in Row :
        /\ HeldBack(row).kind = row.kind
        /\ HeldBack(row).task = row.task
        /\ HeldBack(row).outcome = row.outcome
        /\ HeldBack(row).ran = row.ran
        /\ HeldBack(row).seq = row.seq
        /\ HeldBack(row).lost = row.lost
        /\ HeldBack(row).sent = row.sent
  BY DEF Row, HeldBack, Failed
<1>9. \A r \in back : r \in DOMAIN rows /\ rows[r].state = "owed"
  BY DEF Owed
<1>10. Marked(rows, new)
  BY <1>1, <1>3, <1>8, <1>9 DEF Marked
<1> QED
  BY <1>3, <1>7, <1>10

\* One row of an outbox says something else of its delivery.
LEMMA OneRowMarked ==
  ASSUME RowsType, NEW n \in Node, NEW r \in Owed(out[n]), NEW e \in Row,
         e.kind = out[n][r].kind, e.task = out[n][r].task,
         e.outcome = out[n][r].outcome, e.ran = out[n][r].ran,
         e.seq = out[n][r].seq, e.lost = out[n][r].lost,
         out[n][r].sent => e.sent
  PROVE  /\ [out[n] EXCEPT ![r] = e] \in Seq(Row)
         /\ Marked(out[n], [out[n] EXCEPT ![r] = e])
         /\ [out[n] EXCEPT ![r] = e][r] = e
         /\ \A o \in DOMAIN out[n] \ {r} :
              [out[n] EXCEPT ![r] = e][o] = out[n][o]
<1>1. out[n] \in Seq(Row) /\ r \in DOMAIN out[n] /\ out[n][r].state = "owed"
  BY DEF RowsType, Owed
<1> QED
  BY <1>1, OneRowChanges DEF Marked

\* An attempt marks the lowest row owed as sent.
LEMMA AttemptMarks ==
  ASSUME RowsType, NEW n \in Node, Attempt(n)
  PROVE  \E r \in Owed(out[n]) :
           /\ IsHead(out[n], r)
           /\ sending' = [sending EXCEPT ![n] = r]
           /\ wire' = [wire EXCEPT ![n] = @ \cup {r}]
           /\ out'[n][r].sent
           /\ out'[n][r].state = "owed"
           /\ out'[n][r].tries = out[n][r].tries + 1
           /\ \A o \in DOMAIN out[n] \ {r} : out'[n][o] = out[n][o]
           /\ out' = [out EXCEPT ![n] = out'[n]]
           /\ out'[n] \in Seq(Row)
           /\ Marked(out[n], out'[n])
<1>1. PICK r \in DOMAIN out[n] :
        /\ IsHead(out[n], r)
        /\ out' = [out EXCEPT ![n][r].tries = @ + 1, ![n][r].sent = TRUE]
        /\ sending' = [sending EXCEPT ![n] = r]
        /\ wire' = [wire EXCEPT ![n] = @ \cup {r}]
  BY DEF Attempt
<1>2. out[n][r] \in Row /\ r \in Owed(out[n])
  BY <1>1, RowsAreRows DEF RowsType, IsHead
<1> DEFINE e == [out[n][r] EXCEPT !.tries = @ + 1, !.sent = TRUE]
<1>3. out' = [out EXCEPT ![n] = [out[n] EXCEPT ![r] = e]]
  BY <1>1 DEF RowsType
<1>4. /\ e.kind = out[n][r].kind /\ e.task = out[n][r].task
      /\ e.outcome = out[n][r].outcome /\ e.ran = out[n][r].ran
      /\ e.seq = out[n][r].seq /\ e.lost = out[n][r].lost
      /\ e.sent /\ e.state = out[n][r].state
      /\ e.tries = out[n][r].tries + 1
  BY <1>2 DEF Row
<1>5. e \in Row
  <2>1. out[n][r].tries + 1 \in Nat
    BY <1>2 DEF Row
  <2>2. \A k \in Nat : [out[n][r] EXCEPT !.tries = k, !.sent = TRUE] \in Row
    BY <1>2 DEF Row
  <2> QED
    BY <2>1, <2>2
<1> HIDE DEF e
<1>6. out'[n] = [out[n] EXCEPT ![r] = e]
  BY <1>3 DEF RowsType
<1>7. e.state = "owed"
  BY <1>2, <1>4 DEF Owed
<1>8. /\ out'[n] \in Seq(Row)
      /\ Marked(out[n], out'[n])
      /\ out'[n][r] = e
      /\ \A o \in DOMAIN out[n] \ {r} : out'[n][o] = out[n][o]
  BY <1>2, <1>4, <1>5, <1>6, OneRowMarked
<1> QED
  BY <1>1, <1>2, <1>3, <1>4, <1>6, <1>7, <1>8

\* An answer that accepts a row marks it as acknowledged.
LEMMA AcknowledgedMarks ==
  ASSUME RowsType, NEW n \in Node, Acknowledged(n)
  PROVE  /\ out' = [out EXCEPT ![n] = out'[n]]
         /\ out'[n] \in Seq(Row)
         /\ Marked(out[n], out'[n])
         /\ sending[n] \in Owed(out[n])
         /\ out'[n][sending[n]].state = "acked"
         /\ \A o \in DOMAIN out[n] \ {sending[n]} : out'[n][o] = out[n][o]
<1> DEFINE r == sending[n]
<1>1. out' = [out EXCEPT ![n][r].state = "acked"] /\ r \in Owed(out[n])
  BY DEF Acknowledged, RowsType
<1>2. out[n][r] \in Row
  BY <1>1, RowsAreRows DEF RowsType, Owed
<1> DEFINE e == [out[n][r] EXCEPT !.state = "acked"]
<1>3. out' = [out EXCEPT ![n] = [out[n] EXCEPT ![r] = e]]
  BY <1>1 DEF RowsType
<1>4. /\ e.kind = out[n][r].kind /\ e.task = out[n][r].task
      /\ e.outcome = out[n][r].outcome /\ e.ran = out[n][r].ran
      /\ e.seq = out[n][r].seq /\ e.lost = out[n][r].lost
      /\ out[n][r].sent => e.sent
      /\ e.state = "acked" /\ e \in Row
  BY <1>2 DEF Row
<1> HIDE DEF e, r
<1>5. out'[n] = [out[n] EXCEPT ![r] = e]
  BY <1>3 DEF RowsType
<1>6. /\ out'[n] \in Seq(Row)
      /\ Marked(out[n], out'[n])
      /\ out'[n][r] = e
      /\ \A o \in DOMAIN out[n] \ {r} : out'[n][o] = out[n][o]
  BY <1>1, <1>4, <1>5, OneRowMarked
<1> QED
  BY <1>1, <1>3, <1>4, <1>5, <1>6 DEF r

\* What is noted of rows given up on.
LEMMA LettersAreLetters ==
  ASSUME NEW n \in Node, NEW rows, NEW lost \in SUBSET Nat,
         NEW refused \in BOOLEAN
  PROVE  LettersOf(n, rows, lost, refused)
           \subseteq [row : Nat, refused : BOOLEAN, neverSent : BOOLEAN]
<1>1. \A r \in Nat :
        Letter(rows, r, refused)
          \in [row : Nat, refused : BOOLEAN, neverSent : BOOLEAN]
  BY DEF Letter
<1> QED
  BY <1>1 DEF LettersOf

\* The end of a pairing gives up on one row.
LEMMA GiveUpMarks ==
  ASSUME RowsType, NEW n \in Node, GiveUpRevoked(n)
  PROVE  /\ out' = [out EXCEPT ![n] = out'[n]]
         /\ out'[n] \in Seq(Row)
         /\ Marked(out[n], out'[n])
         /\ letters \subseteq
                [row : Nat, refused : BOOLEAN, neverSent : BOOLEAN]
              => letters' \subseteq
                   [row : Nat, refused : BOOLEAN, neverSent : BOOLEAN]
         /\ \A o \in DOMAIN out[n] : out'[n][o].tries = out[n][o].tries
<1>1. PICK r \in Owed(out[n]) :
        /\ out' = [out EXCEPT ![n][r].state = "dead"]
        /\ letters' = letters \cup LettersOf(n, out[n], {r}, TRUE)
  BY DEF GiveUpRevoked
<1>2. out[n][r] \in Row /\ r \in Nat /\ r \in Owed(out[n])
  BY <1>1, RowsAreRows DEF RowsType, Owed
<1> DEFINE e == [out[n][r] EXCEPT !.state = "dead"]
<1>3. out' = [out EXCEPT ![n] = [out[n] EXCEPT ![r] = e]]
  BY <1>1 DEF RowsType
<1>4. /\ e.kind = out[n][r].kind /\ e.task = out[n][r].task
      /\ e.outcome = out[n][r].outcome /\ e.ran = out[n][r].ran
      /\ e.seq = out[n][r].seq /\ e.lost = out[n][r].lost
      /\ out[n][r].sent => e.sent
      /\ e.tries = out[n][r].tries /\ e \in Row
  BY <1>2 DEF Row
<1> HIDE DEF e
<1>5. out'[n] = [out[n] EXCEPT ![r] = e]
  BY <1>3 DEF RowsType
<1>6. /\ out'[n] \in Seq(Row)
      /\ Marked(out[n], out'[n])
      /\ out'[n][r] = e
      /\ \A o \in DOMAIN out[n] \ {r} : out'[n][o] = out[n][o]
  BY <1>2, <1>4, <1>5, OneRowMarked
<1>7. LettersOf(n, out[n], {r}, TRUE)
        \subseteq [row : Nat, refused : BOOLEAN, neverSent : BOOLEAN]
  BY <1>2, LettersAreLetters
<1> QED
  BY <1>1, <1>3, <1>4, <1>5, <1>6, <1>7 DEF RowsType

\* A failed attempt, or a row held back, counts rows as failing; no row is
\* called refused but the one whose attempt was answered so.
LEMMA FailureMarks ==
  ASSUME RowsType, NEW n \in Node, DeliveryFailed(n)
  PROVE  \E back \in SUBSET (Owed(out[n]) \ {sending[n]}) :
           /\ sending[n] \in Owed(out[n])
           /\ out' = [out EXCEPT ![n] = out'[n]]
           /\ out'[n] \in Seq(Row)
           /\ Marked(out[n], out'[n])
           /\ letters' = letters
                \cup LettersOf(n, out'[n],
                       (GivenUp(out'[n]) \ GivenUp(out[n])) \cap {sending[n]},
                       reply[n] # "lost")
                \cup LettersOf(n, out'[n],
                       (GivenUp(out'[n]) \ GivenUp(out[n])) \ {sending[n]}, FALSE)
           /\ out'[n][sending[n]].tries = out[n][sending[n]].tries
           /\ out'[n][sending[n]].sent => out[n][sending[n]].sent
           /\ out'[n][sending[n]].state
                = Failed(out[n][sending[n]]).state
           /\ \A r \in DOMAIN out[n] \ {sending[n]} :
                out'[n][r] = IF r \in back THEN HeldBack(out[n][r]) ELSE out[n][r]
<1> DEFINE mine == sending[n]
           every == ForEveryMessage(reply[n])
           e == [Failed(out[n][mine]) EXCEPT !.unreached = every]
           tried == [out[n] EXCEPT ![mine] = e]
<1>1. mine \in Owed(out[n])
  BY DEF DeliveryFailed, RowsType
<1>2. PICK back \in IF every THEN SUBSET (Owed(out[n]) \ {mine}) ELSE {{}} :
        LET rows == HoldingBack([out[n] EXCEPT ![mine] =
                                   [Failed(@) EXCEPT !.unreached = every]], back)
            lost == GivenUp(rows) \ GivenUp(out[n]) IN
        /\ out' = [out EXCEPT ![n] = rows]
        /\ letters' = letters
             \cup LettersOf(n, rows, lost \cap {mine}, reply[n] # "lost")
             \cup LettersOf(n, rows, lost \ {mine}, FALSE)
  BY DEF DeliveryFailed
<1>3. back \in SUBSET (Owed(out[n]) \ {mine})
  BY <1>2
<1>4. out[n][mine] \in Row /\ out[n] \in Seq(Row) /\ mine \in DOMAIN out[n]
  BY <1>1, RowsAreRows DEF RowsType, Owed
<1>5. Failed(out[n][mine]) \in Row /\ every \in BOOLEAN
  BY <1>4, FailedIsRow DEF ForEveryMessage
<1>6. /\ e \in Row
      /\ e.kind = out[n][mine].kind /\ e.task = out[n][mine].task
      /\ e.outcome = out[n][mine].outcome /\ e.ran = out[n][mine].ran
      /\ e.seq = out[n][mine].seq /\ e.lost = out[n][mine].lost
      /\ e.sent = out[n][mine].sent
      /\ e.tries = out[n][mine].tries
      /\ e.state = Failed(out[n][mine]).state
  <2>1. /\ Failed(out[n][mine]).kind = out[n][mine].kind
        /\ Failed(out[n][mine]).task = out[n][mine].task
        /\ Failed(out[n][mine]).outcome = out[n][mine].outcome
        /\ Failed(out[n][mine]).ran = out[n][mine].ran
        /\ Failed(out[n][mine]).seq = out[n][mine].seq
        /\ Failed(out[n][mine]).lost = out[n][mine].lost
        /\ Failed(out[n][mine]).sent = out[n][mine].sent
        /\ Failed(out[n][mine]).tries = out[n][mine].tries
    BY <1>4 DEF Failed, Row
  <2> HIDE DEF every
  <2>2. \A row \in Row :
          LET f == [row EXCEPT !.unreached = every] IN
          /\ f \in Row
          /\ f.kind = row.kind /\ f.task = row.task
          /\ f.outcome = row.outcome /\ f.ran = row.ran
          /\ f.seq = row.seq /\ f.lost = row.lost /\ f.sent = row.sent
          /\ f.tries = row.tries /\ f.state = row.state
    BY <1>5 DEF Row
  <2> QED
    BY <1>5, <2>1, <2>2
<1>7. HoldingBack(tried, back) = out'[n]
  BY <1>2 DEF RowsType
<1> HIDE DEF e, mine
<1>8. /\ tried \in Seq(Row)
      /\ Marked(out[n], tried)
      /\ tried[mine] = e
      /\ \A o \in DOMAIN out[n] \ {mine} : tried[o] = out[n][o]
  BY <1>1, <1>6, OneRowMarked
<1> HIDE DEF tried
<1>9. back \in SUBSET Owed(tried)
  BY <1>3, <1>8 DEF Owed, Marked
<1>10. /\ out'[n] \in Seq(Row)
       /\ Marked(tried, out'[n])
       /\ \A r \in DOMAIN tried :
            out'[n][r] = IF r \in back THEN HeldBack(tried[r]) ELSE tried[r]
  BY <1>7, <1>8, <1>9, HoldingBackMarks
<1>11. Marked(out[n], out'[n])
  BY <1>8, <1>10 DEF Marked
<1>12. out'[n][mine] = e
  BY <1>3, <1>4, <1>8, <1>10 DEF Marked
<1>13. \A r \in DOMAIN out[n] \ {mine} :
         out'[n][r] = IF r \in back THEN HeldBack(out[n][r]) ELSE out[n][r]
  BY <1>8, <1>10 DEF Marked
<1>14. /\ out' = [out EXCEPT ![n] = out'[n]]
       /\ letters' = letters
            \cup LettersOf(n, out'[n],
                   (GivenUp(out'[n]) \ GivenUp(out[n])) \cap {mine},
                   reply[n] # "lost")
            \cup LettersOf(n, out'[n],
                   (GivenUp(out'[n]) \ GivenUp(out[n])) \ {mine}, FALSE)
  BY <1>2, <1>7 DEF tried, e
<1> QED
  BY <1>1, <1>3, <1>6, <1>10, <1>11, <1>12, <1>13, <1>14 DEF mine

\* A later pass that holds rows back counts them as failing.
LEMMA HoldBackMarks ==
  ASSUME RowsType, NEW n \in Node, HoldBack(n)
  PROVE  \E back \in SUBSET Owed(out[n]) :
           /\ out' = [out EXCEPT ![n] = out'[n]]
           /\ out'[n] \in Seq(Row)
           /\ Marked(out[n], out'[n])
           /\ letters' = letters
                \cup LettersOf(n, out'[n],
                       GivenUp(out'[n]) \ GivenUp(out[n]), FALSE)
           /\ \A r \in DOMAIN out[n] :
                out'[n][r] = IF r \in back THEN HeldBack(out[n][r]) ELSE out[n][r]
<1>1. PICK head \in Owed(out[n]) : \E back \in SUBSET (Owed(out[n]) \ {head}) :
        LET rows == HoldingBack(out[n], back) IN
        /\ out' = [out EXCEPT ![n] = rows]
        /\ letters' = letters
             \cup LettersOf(n, rows, GivenUp(rows) \ GivenUp(out[n]), FALSE)
  BY DEF HoldBack
<1>2. PICK back \in SUBSET (Owed(out[n]) \ {head}) :
        /\ out' = [out EXCEPT ![n] = HoldingBack(out[n], back)]
        /\ letters' = letters
             \cup LettersOf(n, HoldingBack(out[n], back),
                    GivenUp(HoldingBack(out[n], back)) \ GivenUp(out[n]), FALSE)
  BY <1>1
<1>3. out'[n] = HoldingBack(out[n], back) /\ back \in SUBSET Owed(out[n])
  BY <1>2 DEF RowsType
<1>4. out[n] \in Seq(Row)
  BY DEF RowsType
<1>5. /\ out'[n] \in Seq(Row)
      /\ Marked(out[n], out'[n])
      /\ \A r \in DOMAIN out[n] :
           out'[n][r] = IF r \in back THEN HeldBack(out[n][r]) ELSE out[n][r]
  BY <1>3, <1>4, HoldingBackMarks
<1>6. /\ out' = [out EXCEPT ![n] = out'[n]]
      /\ letters' = letters
           \cup LettersOf(n, out'[n],
                  GivenUp(out'[n]) \ GivenUp(out[n]), FALSE)
  BY <1>2, <1>3
<1> QED
  BY <1>3, <1>5, <1>6

\* The last sequence a skip covers is that of a row it covers.
LEMMA SkipReachesTheLast ==
  ASSUME NEW rows \in Seq(Row), NEW lost \in SUBSET DOMAIN rows, lost # {},
         Bounded(rows)
  PROVE  \E last \in lost :
           /\ rows[last].seq = Max({rows[r].seq : r \in lost})
           /\ rows[last].seq \in Nat \ {0}
           /\ \A r \in lost : rows[r].seq <= rows[last].seq
<1>1. PICK m \in Nat : \A r \in DOMAIN rows : rows[r].seq <= m
  BY DEF Bounded
<1>2. \A r \in DOMAIN rows : rows[r].seq \in Nat \ {0}
  BY RowsAreRows DEF Row
<1> DEFINE S == {rows[r].seq : r \in lost}
<1>3. S \subseteq Nat /\ S # {} /\ \A x \in S : x <= m
  BY <1>1, <1>2
<1>4. Max(S) \in S /\ \A x \in S : x <= Max(S)
  BY <1>3, LargestExists
<1> QED
  BY <1>2, <1>4

\* A queued skip is one row more, in the slot of the last row it covers.
LEMMA SkipAppends ==
  ASSUME RowsType, NEW n \in Node, QueueSkip(n), out' # out
  PROVE  \E last \in Skippable(out[n]) :
           /\ \A r \in Skippable(out[n]) : out[n][r].seq <= out[n][last].seq
           /\ \A r \in Owed(out[n]) : out[n][r].kind # "skip"
           /\ out' = [out EXCEPT ![n] =
                Append(@, Envelope("skip", NoTask, "none", FALSE,
                                   out[n][last].seq, Skippable(out[n])))]
           /\ out[n][last].seq \in Nat \ {0}
           /\ Skippable(out[n]) \in SUBSET Nat
<1> DEFINE lost == Skippable(out[n])
<1>1. out[n] \in Seq(Row) /\ Bounded(out[n])
  BY DEF RowsType
<1>2. lost \in SUBSET DOMAIN out[n] /\ lost \in SUBSET Nat
  BY <1>1, RowsAreRows DEF Skippable, GapsLeft
<1>3. /\ lost # {}
      /\ \A r \in Owed(out[n]) : out[n][r].kind # "skip"
      /\ out' = [out EXCEPT ![n] =
           Append(@, Envelope("skip", NoTask, "none", FALSE,
                              Max({out[n][r].seq : r \in lost}), lost))]
  BY DEF QueueSkip
<1> HIDE DEF lost
<1>4. PICK last \in lost :
        /\ out[n][last].seq = Max({out[n][r].seq : r \in lost})
        /\ out[n][last].seq \in Nat \ {0}
        /\ \A r \in lost : out[n][r].seq <= out[n][last].seq
  BY <1>1, <1>2, <1>3, SkipReachesTheLast
<1> QED
  BY <1>2, <1>3, <1>4 DEF lost

\* Sending keeps the outboxes; the row it leaves says what is sent.
LEMMA SendKeepsRows ==
  ASSUME RowsType, NEW n \in Node, NEW kind \in Kind,
         NEW t \in Tasks \cup {NoTask}, NEW outcome \in Settled \cup {"none"},
         NEW ran \in BOOLEAN, Send(n, kind, t, outcome, ran), sending' = sending
  PROVE  /\ RowsType'
         /\ \A m \in Node \ {n} : out'[m] = out[m]
         /\ \E k :
              Added(out[n], out'[n], k,
                    Envelope(kind, t, outcome, ran, NextSequence(out[n]), {}))
<1> DEFINE e == Envelope(kind, t, outcome, ran, NextSequence(out[n]), {})
<1>1. NextSequence(out[n]) \in Nat \ {0}
  BY NextIsBeyond DEF RowsType
<1>2. e \in Row /\ out' = [out EXCEPT ![n] = Append(@, e)]
  BY <1>1, EnvelopeIsRow DEF Send, RowsType
<1> HIDE DEF e
<1>3. /\ out' \in [Node -> Seq(Row)]
      /\ \A m \in Node : Bounded(out'[m])
      /\ \A m \in Node \ {n} : out'[m] = out[m]
      /\ \E k : Added(out[n], out'[n], k, e)
  BY <1>2, SendAppends
<1>4. \A m \in Node : sending'[m] # 0 => sending'[m] \in Owed(out'[m])
  BY <1>3 DEF RowsType, Owed, Added
<1> QED
  BY <1>3, <1>4 DEF RowsType, e

\* So does marking rows, as long as what is being sent stays owed.
LEMMA MarkingKeepsRows ==
  ASSUME RowsType, NEW n \in Node, out' = [out EXCEPT ![n] = out'[n]],
         out'[n] \in Seq(Row), Marked(out[n], out'[n]),
         sending' \in [Node -> Nat],
         \A m \in Node \ {n} : sending'[m] = sending[m],
         sending'[n] # 0 => sending'[n] \in Owed(out'[n])
  PROVE  /\ RowsType'
         /\ \A m \in Node : Marked(out[m], out'[m])
<1>1. /\ out' \in [Node -> Seq(Row)]
      /\ \A m \in Node : Bounded(out'[m])
      /\ \A m \in Node \ {n} : out'[m] = out[m]
  BY MarkingKeepsType
<1>2. \A m \in Node : sending'[m] # 0 => sending'[m] \in Owed(out'[m])
  BY <1>1 DEF RowsType
<1>3. ASSUME NEW m \in Node PROVE Marked(out[m], out'[m])
  BY <1>1 DEF Marked
<1> QED
  BY <1>1, <1>2, <1>3 DEF RowsType

\* What the steps of a delivery pass that mark rows have in common.
LEMMA MarkingSteps ==
  ASSUME RowsType, NEW n \in Node,
         \/ Attempt(n) \/ Acknowledged(n) \/ DeliveryFailed(n)
         \/ HoldBack(n) \/ GiveUpRevoked(n)
  PROVE  /\ RowsType'
         /\ \A m \in Node : Marked(out[m], out'[m])
<1>1. CASE Attempt(n)
  <2>1. PICK r \in Owed(out[n]) :
          /\ sending' = [sending EXCEPT ![n] = r]
          /\ out'[n][r].state = "owed"
          /\ out' = [out EXCEPT ![n] = out'[n]]
          /\ out'[n] \in Seq(Row)
          /\ Marked(out[n], out'[n])
    BY <1>1, AttemptMarks
  <2>2. r \in Nat /\ r \in Owed(out'[n])
    BY <2>1, RowsAreRows DEF RowsType, Owed, Marked
  <2>3. /\ sending' \in [Node -> Nat] /\ sending'[n] = r
        /\ \A m \in Node \ {n} : sending'[m] = sending[m]
    BY <2>1, <2>2 DEF RowsType
  <2> QED
    BY <2>1, <2>2, <2>3, MarkingKeepsRows
<1>2. CASE Acknowledged(n)
  <2>1. /\ sending' \in [Node -> Nat] /\ sending'[n] = 0
        /\ \A m \in Node \ {n} : sending'[m] = sending[m]
    BY <1>2 DEF Acknowledged, RowsType
  <2> QED
    BY <1>2, <2>1, AcknowledgedMarks, MarkingKeepsRows
<1>3. CASE DeliveryFailed(n)
  <2>1. /\ sending' \in [Node -> Nat] /\ sending'[n] = 0
        /\ \A m \in Node \ {n} : sending'[m] = sending[m]
    BY <1>3 DEF DeliveryFailed, RowsType
  <2>2. /\ out' = [out EXCEPT ![n] = out'[n]]
        /\ out'[n] \in Seq(Row)
        /\ Marked(out[n], out'[n])
    BY <1>3, FailureMarks
  <2> QED
    BY <2>1, <2>2, MarkingKeepsRows
<1>4. CASE HoldBack(n)
  <2>1. sending' = sending /\ sending[n] = 0
    BY <1>4 DEF HoldBack, memory, network
  <2>2. /\ out' = [out EXCEPT ![n] = out'[n]]
        /\ out'[n] \in Seq(Row)
        /\ Marked(out[n], out'[n])
    BY <1>4, HoldBackMarks
  <2>3. sending' \in [Node -> Nat]
    BY <2>1 DEF RowsType
  <2> QED
    BY <2>1, <2>2, <2>3, MarkingKeepsRows
<1>5. CASE GiveUpRevoked(n)
  <2>1. sending' = sending /\ sending[n] = 0
    BY <1>5 DEF GiveUpRevoked, memory, network
  <2>2. /\ out' = [out EXCEPT ![n] = out'[n]]
        /\ out'[n] \in Seq(Row)
        /\ Marked(out[n], out'[n])
    BY <1>5, GiveUpMarks
  <2>3. sending' \in [Node -> Nat]
    BY <2>1 DEF RowsType
  <2> QED
    BY <2>1, <2>2, <2>3, MarkingKeepsRows
<1> QED
  BY <1>1, <1>2, <1>3, <1>4, <1>5

\* A queued skip keeps the outboxes.
LEMMA SkipKeepsRows ==
  ASSUME RowsType, NEW n \in Node, QueueSkip(n)
  PROVE  /\ RowsType'
         /\ \A m \in Node \ {n} : out'[m] = out[m]
         /\ \/ out' = out
            \/ \E last \in Skippable(out[n]) : \E k :
                 /\ \A r \in Skippable(out[n]) :
                      out[n][r].seq <= out[n][last].seq
                 /\ \A r \in Owed(out[n]) : out[n][r].kind # "skip"
                 /\ Skippable(out[n]) \in SUBSET Nat
                 /\ out[n][last].seq \in Nat \ {0}
                 /\ Added(out[n], out'[n], k,
                          Envelope("skip", NoTask, "none", FALSE,
                                   out[n][last].seq, Skippable(out[n])))
<1>1. sending' = sending
  BY DEF QueueSkip
<1>2. CASE out' = out
  BY <1>1, <1>2 DEF RowsType
<1>3. CASE out' # out
  <2>1. PICK last \in Skippable(out[n]) :
          /\ \A r \in Skippable(out[n]) : out[n][r].seq <= out[n][last].seq
          /\ \A r \in Owed(out[n]) : out[n][r].kind # "skip"
          /\ out' = [out EXCEPT ![n] =
               Append(@, Envelope("skip", NoTask, "none", FALSE,
                                  out[n][last].seq, Skippable(out[n])))]
          /\ out[n][last].seq \in Nat \ {0}
          /\ Skippable(out[n]) \in SUBSET Nat
    BY <1>3, SkipAppends
  <2>4. Envelope("skip", NoTask, "none", FALSE, out[n][last].seq,
                 Skippable(out[n])) \in Row
    BY <2>1, EnvelopeIsRow DEF Kind
  <2>2. /\ out' \in [Node -> Seq(Row)]
        /\ \A m \in Node : Bounded(out'[m])
        /\ \A m \in Node \ {n} : out'[m] = out[m]
        /\ \E k :
             Added(out[n], out'[n], k,
                   Envelope("skip", NoTask, "none", FALSE,
                            out[n][last].seq, Skippable(out[n])))
    BY <2>1, <2>4, SendAppends
  <2>3. \A m \in Node : sending'[m] # 0 => sending'[m] \in Owed(out'[m])
    BY <1>1, <2>2 DEF RowsType, Owed, Added
  <2> QED
    BY <1>1, <2>1, <2>2, <2>3 DEF RowsType
<1> QED
  BY <1>2, <1>3

\* A row that is sent from here on: beyond all there are.
Message(rows, e) ==
  /\ e.kind # "skip"
  /\ Says(e.kind, e.task, e.outcome)
  /\ \A r \in DOMAIN rows : rows[r].seq < e.seq

\* A skip of all that may be skipped, in the slot of the last of it.
Skip(rows, e) ==
  /\ e.kind = "skip"
  /\ e.lost = Skippable(rows)
  /\ \A r \in Owed(rows) : rows[r].kind # "skip"
  /\ \E last \in Skippable(rows) : e.seq = rows[last].seq
  /\ \A r \in Skippable(rows) : rows[r].seq <= e.seq

\* All a step may do to an outbox.
OutStep(rows, new) ==
  \/ Marked(rows, new)
  \/ \E e \in Row : \E k :
       /\ Added(rows, new, k, e)
       /\ e.state = "owed"
       /\ ~ e.sent
       /\ e.tries = 0
       /\ Message(rows, e) \/ Skip(rows, e)

\* Sending a message is one of those things.
LEMMA SendIsOutStep ==
  ASSUME RowsType, NEW n \in Node, NEW kind \in Kind \ {"skip"},
         NEW t \in Tasks \cup {NoTask}, NEW outcome \in Settled \cup {"none"},
         NEW ran \in BOOLEAN, Says(kind, t, outcome),
         Send(n, kind, t, outcome, ran), sending' = sending
  PROVE  RowsType' /\ \A m \in Node : OutStep(out[m], out'[m])
<1> DEFINE e == Envelope(kind, t, outcome, ran, NextSequence(out[n]), {})
<1>1. /\ RowsType'
      /\ \A m \in Node \ {n} : out'[m] = out[m]
      /\ \E k : Added(out[n], out'[n], k, e)
  BY SendKeepsRows
<1>2. /\ NextSequence(out[n]) \in Nat \ {0}
      /\ \A r \in DOMAIN out[n] : out[n][r].seq < NextSequence(out[n])
  BY NextIsBeyond DEF RowsType
<1>3. e \in Row
  BY <1>2, EnvelopeIsRow
<1>4. /\ e.kind = kind /\ e.task = t /\ e.outcome = outcome
      /\ e.seq = NextSequence(out[n]) /\ e.state = "owed" /\ ~ e.sent
      /\ e.tries = 0
  BY DEF Envelope
<1> HIDE DEF e
<1>5. Message(out[n], e)
  BY <1>2, <1>4 DEF Message
<1>6. OutStep(out[n], out'[n])
  BY <1>1, <1>3, <1>4, <1>5 DEF OutStep
<1>7. \A m \in Node \ {n} : OutStep(out[m], out'[m])
  BY <1>1 DEF OutStep, Marked
<1> QED
  BY <1>1, <1>6, <1>7

\* So is queueing a skip.
LEMMA SkipIsOutStep ==
  ASSUME RowsType, NEW n \in Node, QueueSkip(n)
  PROVE  RowsType' /\ \A m \in Node : OutStep(out[m], out'[m])
<1>1. /\ RowsType'
      /\ \A m \in Node \ {n} : out'[m] = out[m]
  BY SkipKeepsRows
<1>2. \A m \in Node : out'[m] = out[m] => OutStep(out[m], out'[m])
  BY DEF OutStep, Marked
<1>3. CASE out' = out
  BY <1>1, <1>2, <1>3
<1>4. CASE out' # out
  <2>1. PICK last \in Skippable(out[n]) : \E k :
          /\ \A r \in Skippable(out[n]) : out[n][r].seq <= out[n][last].seq
          /\ \A r \in Owed(out[n]) : out[n][r].kind # "skip"
          /\ Skippable(out[n]) \in SUBSET Nat
          /\ out[n][last].seq \in Nat \ {0}
          /\ Added(out[n], out'[n], k,
                   Envelope("skip", NoTask, "none", FALSE,
                            out[n][last].seq, Skippable(out[n])))
    BY <1>4, SkipKeepsRows
  <2> DEFINE e == Envelope("skip", NoTask, "none", FALSE,
                           out[n][last].seq, Skippable(out[n]))
  <2>2. e \in Row
    BY <2>1, EnvelopeIsRow DEF Kind
  <2>3. /\ e.kind = "skip" /\ e.lost = Skippable(out[n])
        /\ e.seq = out[n][last].seq /\ e.state = "owed" /\ ~ e.sent
        /\ e.tries = 0
    BY DEF Envelope
  <2>4. \E k : Added(out[n], out'[n], k, e)
    BY <2>1
  <2> HIDE DEF e
  <2>5. Skip(out[n], e)
    BY <2>1, <2>3 DEF Skip
  <2>6. OutStep(out[n], out'[n])
    BY <2>2, <2>3, <2>4, <2>5 DEF OutStep
  <2> QED
    BY <1>1, <1>2, <2>6
<1> QED
  BY <1>3, <1>4

\* Every step leaves the outboxes well formed, and does one of those things.
LEMMA RowsPreserved ==
  ASSUME LinkType, [Next]_vars
  PROVE  RowsType' /\ \A m \in Node : OutStep(out[m], out'[m])
<1>1. RowsType /\ HereType /\ References
  BY DEF LinkType
<1>2. CASE out' = out /\ sending' = sending
  BY <1>1, <1>2 DEF RowsType, OutStep, Marked
<1>3. CASE Notify
  <2>1. thread["home"].task \in Tasks
    BY <1>1, <1>3 DEF Notify, At, References, Intends, Node
  <2> QED
    BY <1>1, <1>3, <2>1, SendIsOutStep
    DEF Notify, Says, Kind, Settled, Node
<1>4. ASSUME NEW t \in Tasks, HandOver(t)
      PROVE  RowsType' /\ \A m \in Node : OutStep(out[m], out'[m])
  <2>1. Send("home", "delegate", t, "none", FALSE) /\ sending' = sending
    BY <1>4 DEF HandOver, memory
  <2>2. Says("delegate", t, "none")
    BY DEF Says
  <2> QED
    BY <1>1, <2>1, <2>2, SendIsOutStep DEF Kind, Node
<1>5. CASE Answer
  <2> DEFINE now == thread["peer"]
  <2>1. /\ Send("peer", "result", now.task, now.outcome, now.ran)
        /\ sending' = sending
        /\ now.at \in {"answer", "answer_boot"}
    BY <1>5 DEF Answer
  <2>2. now.task \in Tasks /\ now.outcome \in Settled
    BY <1>1, <2>1 DEF References, Intends, Node
  <2>3. now.ran \in BOOLEAN
    BY <1>1 DEF HereType, StretchType, Node
  <2>4. Says("result", now.task, now.outcome)
    BY <2>2 DEF Says
  <2> HIDE DEF now
  <2> QED
    BY <1>1, <2>1, <2>2, <2>3, <2>4, SendIsOutStep DEF Kind, Node
<1>6. ASSUME NEW n \in Node, QueueSkip(n)
      PROVE  RowsType' /\ \A m \in Node : OutStep(out[m], out'[m])
  BY <1>1, <1>6, SkipIsOutStep
<1>7. ASSUME NEW n \in Node,
             \/ Attempt(n) \/ Acknowledged(n) \/ DeliveryFailed(n)
             \/ HoldBack(n) \/ GiveUpRevoked(n)
      PROVE  RowsType' /\ \A m \in Node : OutStep(out[m], out'[m])
  BY <1>1, <1>7, MarkingSteps DEF OutStep
<1>8. ASSUME NEW n \in Node, Crash(n)
      PROVE  RowsType' /\ \A m \in Node : OutStep(out[m], out'[m])
  BY <1>1, <1>8 DEF Crash, databases, RowsType, OutStep, Marked
<1> QED
  BY <1>2, <1>3, <1>4, <1>5, <1>6, <1>7, <1>8
  DEF Next, Home, Peer, Link, vars, databases, memory, SettleLetter, AskStop,
      ReceiveResult, Resolve, ReadyHere, Boot, CapabilityReady, StartTask,
      WorkerEnds, OwnerStops, ReceiveDelegate, ReceiveCancel, Lose, EndPairing,
      Refuse, Record, ReceiveSkip

\* A stretch that is changed for another keeps the type of thread.
LEMMA StretchChanges ==
  ASSUME NEW n \in Node, NEW before \in [Node -> StretchType], NEW after,
         NEW stretch \in StretchType,
         after = before \/ after = [before EXCEPT ![n] = stretch]
  PROVE  after \in [Node -> StretchType]
OBVIOUS

\* Every action keeps the other types.
LEMMA HerePreserved ==
  ASSUME LinkType, [Next]_vars
  PROVE  HereType'
<1>1. RowsType /\ HereType /\ References
  BY DEF LinkType
<1> USE <1>1
<1> USE DEF HereType, Stretch, Idle, Go, databases, memory, network, counters,
            StretchType, Steps, Node
<1>2. CASE Notify
  BY <1>2 DEF Notify
<1>3. CASE SettleLetter
  <2>1. PICK letter \in letters :
          /\ letters' = letters \ {letter}
          /\ LET t == out["home"][letter.row].task IN
             task' = [task EXCEPT ![t] = AfterLetter(@, letter)]
    BY <1>3 DEF SettleLetter
  <2>2. \A state \in HomeState : AfterLetter(state, letter) \in HomeState
    BY DEF AfterLetter, Unknown, HomeState, Settled, Terminal
  <2>3. task' \in [Tasks -> HomeState]
    BY <2>1, <2>2
  <2> QED
    BY <1>3, <2>1, <2>3 DEF SettleLetter
<1>4. ASSUME NEW t \in Tasks, HandOver(t) PROVE HereType'
  BY <1>4 DEF HandOver, HomeState
<1>5. ASSUME NEW t \in Tasks, AskStop(t) PROVE HereType'
  BY <1>5 DEF AskStop, HomeState
<1>6. ASSUME NEW x \in wire["peer"], ReceiveResult(x) PROVE HereType'
  <2>1. /\ x \in DOMAIN out["peer"]
        /\ HandleKind("home", x, "result")
        /\ task' = [task EXCEPT ![out["peer"][x].task] =
                      AfterResult(@, out["peer"][x].outcome, out["peer"][x].ran)]
    BY <1>6 DEF ReceiveResult, References
  <2>2. out["peer"][x].kind = "result"
    BY <2>1 DEF HandleKind, Other
  <2>3. out["peer"][x].outcome \in Settled
    BY <2>1, <2>2 DEF References, Says
  <2>4. \A state \in HomeState : \A outcome \in Settled : \A ran :
          AfterResult(state, outcome, ran) \in HomeState
    BY DEF AfterResult, HomeState, Settled, Terminal
  <2>5. task' \in [Tasks -> HomeState]
    BY <2>1, <2>3, <2>4
  <2>6. thread' \in [Node -> StretchType]
    BY <1>6 DEF ReceiveResult
  <2>7. wire' \in [Node -> SUBSET Nat]
    BY <2>1 DEF HandleKind, Handle, Other
  <2> QED
    BY <1>6, <2>5, <2>6, <2>7 DEF ReceiveResult
<1>7. CASE Resolve
  BY <1>7 DEF Resolve, PeerState
<1>8. CASE ReadyHere
  <2>1. work' \in [Tasks -> PeerState]
    BY <1>8 DEF ReadyHere, PeerState, HomeState
  <2>2. thread["peer"].task \in Tasks
    BY <1>8 DEF ReadyHere, At, References, Intends
  <2>3. starting' \subseteq Tasks
    BY <1>8, <2>2 DEF ReadyHere
  <2>4. thread' \in [Node -> StretchType]
    BY <1>8 DEF ReadyHere
  <2> QED
    BY <1>8, <2>1, <2>3, <2>4 DEF ReadyHere
<1>9. CASE Answer
  <2>1. AfterAnswer(thread["peer"]) \in StretchType
    BY <1>9 DEF Answer, AfterAnswer
  <2> QED
    BY <1>9, <2>1 DEF Answer
<1>10. CASE Boot
  <2>1. work' \in [Tasks -> PeerState]
    BY <1>10 DEF Boot, PeerState, HomeState, Settled
  <2>2. PICK s : /\ thread' = [thread EXCEPT !["peer"] = s]
                 /\ \/ \E t \in Tasks :
                        s = Stretch("answer_boot", t, "uncertain", TRUE, 0)
                    \/ s = Idle
    BY <1>10 DEF Boot
  <2>3. s \in StretchType
    <3>1. ASSUME NEW t \in Tasks,
                 s = Stretch("answer_boot", t, "uncertain", TRUE, 0)
          PROVE  s \in StretchType
      BY <3>1 DEF Settled
    <3>2. Idle \in StretchType
      OBVIOUS
    <3> QED
      BY <2>2, <3>1, <3>2
  <2>4. thread' \in [Node -> StretchType]
    BY <2>2, <2>3
  <2> QED
    BY <1>10, <2>1, <2>4 DEF Boot
<1>11. ASSUME NEW t \in Tasks, CapabilityReady(t) PROVE HereType'
  BY <1>11 DEF CapabilityReady, Hold, PeerState, HomeState
<1>12. ASSUME NEW t \in Tasks, StartTask(t) PROVE HereType'
  <2>1. starting' \subseteq Tasks /\ held' \subseteq Tasks
    BY <1>12 DEF StartTask, Hold
  <2>2. starts' \in [Tasks -> Nat]
    BY <1>12 DEF StartTask, Hold
  <2> QED
    BY <1>12, <2>1, <2>2 DEF StartTask
<1>13. ASSUME NEW t \in Tasks, WorkerEnds(t) PROVE HereType'
  <2>1. PICK outcome \in Reports(work[t]) :
          /\ work' = [work EXCEPT ![t] = outcome]
          /\ thread' = [thread EXCEPT !["peer"] =
                          Stretch("answer", t, outcome, TRUE, 0)]
    BY <1>13 DEF WorkerEnds
  <2>2. outcome \in Settled
    BY DEF Reports, Settled, Terminal
  <2>3. work' \in [Tasks -> PeerState] /\ thread' \in [Node -> StretchType]
    BY <2>1, <2>2 DEF PeerState, HomeState
  <2> QED
    BY <1>13, <2>3 DEF WorkerEnds
<1>14. ASSUME NEW t \in Tasks, OwnerStops(t) PROVE HereType'
  BY <1>14 DEF OwnerStops, AfterStop, PeerState, HomeState, Settled, Terminal
<1>15. ASSUME NEW x \in wire["home"], ReceiveDelegate(x) PROVE HereType'
  <2>1. /\ x \in Nat /\ out["home"][x].kind = "delegate"
        /\ x \in DOMAIN out["home"]
    BY <1>15, RowsAreRows
    DEF ReceiveDelegate, HandleKind, References, RowsType, Other
  <2>2. out["home"][x].task \in Tasks
    BY <2>1 DEF References, Says
  <2>3. work' \in [Tasks -> PeerState]
    BY <1>15 DEF ReceiveDelegate, PeerState
  <2>4. PICK at \in Steps, outcome \in {"none", "failed"} :
          thread' = [thread EXCEPT !["peer"] =
                       Stretch(at, out["home"][x].task, outcome, FALSE, x)]
    BY <1>15 DEF ReceiveDelegate
  <2>5. Stretch(at, out["home"][x].task, outcome, FALSE, x) \in StretchType
    BY <2>1, <2>2 DEF Settled, Terminal
  <2>6. thread' \in [Node -> StretchType]
    BY <2>4, <2>5
  <2>7. wire' \in [Node -> SUBSET Nat]
    BY <1>15 DEF ReceiveDelegate, HandleKind, Handle, Other
  <2> QED
    BY <1>15, <2>3, <2>6, <2>7 DEF ReceiveDelegate
<1>16. ASSUME NEW x \in wire["home"], ReceiveCancel(x) PROVE HereType'
  <2>1. /\ x \in Nat /\ out["home"][x].kind = "cancel.request"
        /\ x \in DOMAIN out["home"]
    BY <1>16, RowsAreRows
    DEF ReceiveCancel, HandleKind, References, RowsType, Other
  <2>2. out["home"][x].task \in Tasks
    BY <2>1 DEF References, Says
  <2>3. work' \in [Tasks -> PeerState]
    BY <1>16, <2>2
    DEF ReceiveCancel, AfterStop, PeerState, HomeState, Settled, Terminal
  <2>4. thread' \in [Node -> StretchType]
    BY <1>16, <2>1, <2>2 DEF ReceiveCancel, Settled, Terminal
  <2>5. wire' \in [Node -> SUBSET Nat]
    BY <1>16 DEF ReceiveCancel, HandleKind, Handle, Other
  <2> QED
    BY <1>16, <2>3, <2>4, <2>5 DEF ReceiveCancel
<1>17. ASSUME NEW n \in Node, Attempt(n) PROVE HereType'
  <2>1. wire' \in [Node -> SUBSET Nat]
    BY <1>17, RowsAreRows DEF Attempt, RowsType
  <2> QED
    BY <1>17, <2>1 DEF Attempt, Reply
<1>18. ASSUME NEW n \in Node, Lose(n) PROVE HereType'
  <2>1. failures' \in 0..MaxFailures
    BY <1>18, BoundsAssumption DEF Lose
  <2> QED
    BY <1>18, <2>1 DEF Lose, Reply
<1>19. ASSUME NEW n \in Node, Acknowledged(n) PROVE HereType'
  <2>1. thread' \in [Node -> StretchType]
    <3>1. \/ thread' = thread
          \/ thread' = [thread EXCEPT ![n] =
                           Stretch("skip", NoTask, "none", FALSE, 0)]
      BY <1>19 DEF Acknowledged
    <3>2. Stretch("skip", NoTask, "none", FALSE, 0) \in StretchType
      OBVIOUS
    <3>3. thread \in [Node -> StretchType]
      OBVIOUS
    <3> HIDE DEF StretchType, Stretch
    <3> QED
      BY ONLY <3>1, <3>2, <3>3, StretchChanges
  <2>2. reply' \in [Node -> Reply]
    BY <1>19 DEF Acknowledged, Reply
  <2> QED
    BY <1>19, <2>1, <2>2 DEF Acknowledged
<1>20. ASSUME NEW n \in Node, DeliveryFailed(n) PROVE HereType'
  <2>1. letters' \subseteq [row : Nat, refused : BOOLEAN, neverSent : BOOLEAN]
    <3>1. \A rows \in Seq(Row) : GivenUp(rows) \in SUBSET Nat
      BY RowsAreRows DEF GivenUp
    <3>2. /\ out'[n] \in Seq(Row)
          /\ letters' = letters
               \cup LettersOf(n, out'[n],
                      (GivenUp(out'[n]) \ GivenUp(out[n])) \cap {sending[n]},
                      reply[n] # "lost")
               \cup LettersOf(n, out'[n],
                      (GivenUp(out'[n]) \ GivenUp(out[n])) \ {sending[n]},
                      FALSE)
      BY <1>20, FailureMarks
    <3>3. GivenUp(out'[n]) \in SUBSET Nat
      BY <3>1, <3>2
    <3> QED
      BY <3>2, <3>3, LettersAreLetters
  <2>2. thread' \in [Node -> StretchType]
    <3>1. \/ thread' = thread
          \/ thread' = [thread EXCEPT ![n] =
                           Stretch("skip", NoTask, "none", FALSE, 0)]
      BY <1>20 DEF DeliveryFailed
    <3>2. Stretch("skip", NoTask, "none", FALSE, 0) \in StretchType
      OBVIOUS
    <3>3. thread \in [Node -> StretchType]
      OBVIOUS
    <3> HIDE DEF StretchType, Stretch
    <3> QED
      BY ONLY <3>1, <3>2, <3>3, StretchChanges
  <2>3. reply' \in [Node -> Reply]
    BY <1>20 DEF DeliveryFailed, Reply
  <2> QED
    BY <1>20, <2>1, <2>2, <2>3 DEF DeliveryFailed
<1>21. ASSUME NEW n \in Node, HoldBack(n) PROVE HereType'
  <2>1. letters' \subseteq [row : Nat, refused : BOOLEAN, neverSent : BOOLEAN]
    <3>1. \A rows \in Seq(Row) : GivenUp(rows) \in SUBSET Nat
      BY RowsAreRows DEF GivenUp
    <3>2. PICK lost \in SUBSET Nat :
            letters' = letters \cup LettersOf(n, out'[n], lost, FALSE)
      BY <1>21, <3>1, HoldBackMarks
    <3> QED
      BY <3>2, LettersAreLetters
  <2> QED
    BY <1>21, <2>1 DEF HoldBack
<1>22. ASSUME NEW n \in Node, QueueSkip(n) PROVE HereType'
  BY <1>22 DEF QueueSkip
<1>23. ASSUME NEW n \in Node, EndPairing(n) PROVE HereType'
  BY <1>23 DEF EndPairing
<1>24. ASSUME NEW n \in Node, GiveUpRevoked(n) PROVE HereType'
  BY <1>24, GiveUpMarks DEF GiveUpRevoked
<1>25. ASSUME NEW n \in Node, Refuse(n) PROVE HereType'
  <2>1. PICK x \in wire[Other(n)] : Take(Other(n), x, Turned(n, x))
    BY <1>25 DEF Refuse
  <2>2. Turned(n, x) \in Reply
    BY DEF Turned, Answered, Reply
  <2>3. Other(n) \in Node
    BY DEF Other
  <2>4. wire' \in [Node -> SUBSET Nat] /\ reply' \in [Node -> Reply]
    BY <2>1, <2>2, <2>3 DEF Take
  <2> QED
    BY <1>25, <2>4 DEF Refuse
<1>26. ASSUME NEW n \in Node, Record(n) PROVE HereType'
  <2>1. /\ thread[n].row \in DOMAIN out[Other(n)]
        /\ Other(n) \in Node
    BY <1>26 DEF Record, At, References, Intends, Other
  <2>2. out[Other(n)][thread[n].row] \in Row /\ thread[n].row \in Nat
    BY <2>1, RowsAreRows DEF RowsType
  <2>3. seen' \in [Node -> SUBSET Nat] /\ cursor' \in [Node -> Nat]
    BY <1>26, <2>2 DEF Record, Row
  <2>4. reply' \in [Node -> Reply]
    BY <1>26, <2>1 DEF Record, Answered, Reply
  <2>5. thread' \in [Node -> StretchType]
    BY <1>26 DEF Record
  <2> QED
    BY <1>26, <2>3, <2>4, <2>5 DEF Record
<1>27. ASSUME NEW n \in Node, Crash(n) PROVE HereType'
  <2>1. crashes' \in 0..MaxCrashes
    BY <1>27, BoundsAssumption DEF Crash
  <2>2. reply' \in [Node -> Reply]
    BY <1>27 DEF Crash, Reply
  <2>3. thread' \in [Node -> StretchType]
    BY <1>27 DEF Crash
  <2> QED
    BY <1>27, <2>1, <2>2, <2>3 DEF Crash
<1>28. ASSUME NEW n \in Node, NEW x \in wire[Other(n)], ReceiveSkip(n, x)
       PROVE  HereType'
  <2>1. task' \in [Tasks -> HomeState]
    BY <1>28 DEF ReceiveSkip, Unknown, HomeState, Settled
  <2>2. x \in Nat
    BY DEF Other
  <2>3. thread' \in [Node -> StretchType]
    BY <1>28, <2>2 DEF ReceiveSkip
  <2>4. wire' \in [Node -> SUBSET Nat]
    BY <1>28 DEF ReceiveSkip, HandleKind, Handle, Other
  <2> QED
    BY <1>28, <2>1, <2>3, <2>4 DEF ReceiveSkip
<1>29. CASE UNCHANGED vars
  BY <1>29 DEF vars
<1> QED
  BY <1>2, <1>3, <1>4, <1>5, <1>6, <1>7, <1>8, <1>9, <1>10, <1>11, <1>12, <1>13,
     <1>14, <1>15, <1>16, <1>17, <1>18, <1>19, <1>20, <1>21, <1>22, <1>23,
     <1>24, <1>25, <1>26, <1>27, <1>28, <1>29
  DEF Next, Home, Peer, Link

\* Whatever happens to an outbox, a row of it stays and says the same.
Grown(rows, new) ==
  /\ DOMAIN rows \subseteq DOMAIN new
  /\ \A r \in DOMAIN rows :
       /\ new[r].kind = rows[r].kind
       /\ new[r].task = rows[r].task
       /\ new[r].outcome = rows[r].outcome
       /\ new[r].ran = rows[r].ran
       /\ new[r].seq = rows[r].seq
       /\ new[r].lost = rows[r].lost
       /\ rows[r].sent => new[r].sent
       /\ rows[r].state # "owed" => new[r].state = rows[r].state

\* What a step does to an outbox makes it grow.
LEMMA OutStepGrows ==
  ASSUME NEW rows, NEW new, OutStep(rows, new)
  PROVE  Grown(rows, new)
  BY DEF OutStep, Grown, Marked, Added

\* Letters are of rows of the outbox they are written from.
LEMMA LettersNameRows ==
  ASSUME NEW n \in Node, NEW rows, NEW lost, NEW refused,
         NEW letter \in LettersOf(n, rows, lost, refused)
  PROVE  n = "home" /\ letter.row \in lost
  BY DEF LettersOf, Letter, Node

\* Only an attempt puts a row on the wire, and one of those still owed.
LEMMA WireStep ==
  ASSUME LinkType, [Next]_vars, NEW n \in Node
  PROVE  \/ wire'[n] \subseteq wire[n]
         \/ /\ Attempt(n)
            /\ \E r \in DOMAIN out[n] : wire'[n] = wire[n] \cup {r}
<1> DEFINE P == \/ wire'[n] \subseteq wire[n]
                \/ /\ Attempt(n)
                   /\ \E r \in DOMAIN out[n] : wire'[n] = wire[n] \cup {r}
<1>1. wire \in [Node -> SUBSET Nat]
  BY DEF LinkType, HereType
<1>2. ASSUME wire' = wire PROVE P
  BY <1>2
<1>3. ASSUME NEW m \in Node, Attempt(m) PROVE P
  <2>1. PICK r \in DOMAIN out[m] : wire' = [wire EXCEPT ![m] = @ \cup {r}]
    BY <1>3 DEF Attempt
  <2>2. CASE m = n
    BY <1>1, <1>3, <2>1, <2>2
  <2>3. CASE m # n
    BY <1>1, <2>1, <2>3
  <2> QED
    BY <2>2, <2>3
<1>4. ASSUME NEW m \in Node, Lose(m) PROVE P
  BY <1>1, <1>4 DEF Lose
<1>5. ASSUME NEW m \in Node, Refuse(m) PROVE P
  BY <1>1, <1>5 DEF Refuse, Take
<1>6. ASSUME NEW m \in Node, NEW x, Handle(m, x) PROVE P
  BY <1>1, <1>6 DEF Handle
<1>8. ASSUME NEW x, ReceiveResult(x) PROVE P
  BY <1>6, <1>8 DEF ReceiveResult, HandleKind, Node
<1>9. ASSUME NEW x, ReceiveDelegate(x) \/ ReceiveCancel(x) PROVE P
  BY <1>6, <1>9 DEF ReceiveDelegate, ReceiveCancel, HandleKind, Node
<1>10. ASSUME NEW m \in Node, NEW x, ReceiveSkip(m, x) PROVE P
  BY <1>6, <1>10 DEF ReceiveSkip, HandleKind
<1> HIDE DEF P
<1>7. ASSUME Home PROVE P
  BY <1>2, <1>7, <1>8
  DEF Home, network, Notify, SettleLetter, HandOver, AskStop
<1>11. ASSUME Peer PROVE P
  <2>1. \/ wire' = wire
        \/ \E x : ReceiveDelegate(x) \/ ReceiveCancel(x)
    BY <1>11
    DEF Peer, network, Resolve, ReadyHere, Answer, Boot, CapabilityReady,
        StartTask, WorkerEnds, OwnerStops
  <2> QED
    BY <1>2, <1>9, <2>1
<1>12. ASSUME NEW m \in Node, Link(m) PROVE P
  <2>1. \/ wire' = wire \/ Attempt(m) \/ Lose(m) \/ Refuse(m)
        \/ \E x : ReceiveSkip(m, x)
    BY <1>12
    DEF Link, network, Acknowledged, DeliveryFailed, HoldBack, QueueSkip,
        EndPairing, GiveUpRevoked, Record, Crash
  <2> QED
    BY <1>2, <1>3, <1>4, <1>5, <1>10, <2>1
<1>13. P
  BY <1>2, <1>7, <1>11, <1>12 DEF Next, vars, network
<1> QED
  BY <1>13 DEF P

\* Every action keeps the references.
LEMMA ReferencesPreserved ==
  ASSUME LinkType, [Next]_vars
  PROVE  References'
<1>1. RowsType /\ HereType /\ References
  BY DEF LinkType
<1>2. /\ RowsType'
      /\ \A m \in Node : OutStep(out[m], out'[m]) /\ Grown(out[m], out'[m])
  BY RowsPreserved, OutStepGrows
<1>3. \A n \in Node : Other(n) \in Node
  BY DEF Other, Node
<1>4. ASSUME NEW n \in Node, NEW r \in DOMAIN out'[n]
      PROVE  Says(out'[n][r].kind, out'[n][r].task, out'[n][r].outcome)
  <2>1. CASE Marked(out[n], out'[n])
    BY <1>1, <2>1 DEF Marked, References
  <2>2. ASSUME NEW e, NEW k, Added(out[n], out'[n], k, e),
               Message(out[n], e) \/ Skip(out[n], e)
        PROVE  Says(out'[n][r].kind, out'[n][r].task, out'[n][r].outcome)
    BY <1>1, <2>2 DEF Added, Message, Skip, References, Says
  <2> QED
    BY <1>2, <2>1, <2>2 DEF OutStep
<1>5. ASSUME NEW n \in Node PROVE wire'[n] \subseteq DOMAIN out'[n]
  <2>1. DOMAIN out[n] \subseteq DOMAIN out'[n] /\ wire[n] \subseteq DOMAIN out[n]
    BY <1>1, <1>2 DEF Grown, References
  <2>2. wire'[n] \subseteq wire[n] \cup DOMAIN out[n]
    BY <1>1, WireStep DEF LinkType
  <2> QED
    BY <2>1, <2>2
<1>6. ASSUME NEW n \in Node
      PROVE  /\ seen'[n] \subseteq DOMAIN out'[Other(n)]
             /\ cursor'[n] \in {0} \cup Sequences(out'[Other(n)])
  <2>1. /\ DOMAIN out[Other(n)] \subseteq DOMAIN out'[Other(n)]
        /\ Sequences(out[Other(n)]) \subseteq Sequences(out'[Other(n)])
        /\ seen[n] \subseteq DOMAIN out[Other(n)]
        /\ cursor[n] \in {0} \cup Sequences(out[Other(n)])
    BY <1>1, <1>2, <1>3 DEF Grown, References, Sequences
  <2>2. CASE seen'[n] = seen[n] /\ cursor'[n] = cursor[n]
    BY <2>1, <2>2
  <2>3. CASE Record(n)
    <3>1. thread[n].row \in DOMAIN out[Other(n)]
      BY <1>1, <2>3 DEF Record, At, References, Intends
    <3>2. /\ seen'[n] = seen[n] \cup {thread[n].row}
          /\ cursor'[n] = out[Other(n)][thread[n].row].seq
      BY <1>1, <2>3 DEF Record, HereType
    <3>3. cursor'[n] \in Sequences(out[Other(n)])
      BY <3>1, <3>2 DEF Sequences
    <3> QED
      BY <2>1, <3>1, <3>2, <3>3
  <2>4. ASSUME NEW m \in Node \ {n}, Record(m)
        PROVE  seen'[n] = seen[n] /\ cursor'[n] = cursor[n]
    BY <1>1, <2>4 DEF Record, HereType
  <2> QED
    BY <2>2, <2>3, <2>4
    DEF Next, Home, Peer, Link, vars, databases, Notify, SettleLetter, HandOver,
        AskStop, ReceiveResult, Resolve, ReadyHere, Answer, Boot,
        CapabilityReady, StartTask, WorkerEnds, OwnerStops, ReceiveDelegate,
        ReceiveCancel, Attempt, Lose, Acknowledged, DeliveryFailed, HoldBack,
        QueueSkip, EndPairing, GiveUpRevoked, Refuse, Crash, ReceiveSkip
<1>7. ASSUME NEW letter \in letters' PROVE letter.row \in DOMAIN out'["home"]
  <2>1. DOMAIN out["home"] \subseteq DOMAIN out'["home"]
    BY <1>2 DEF Grown, Node
  <2>2. CASE letter \in letters
    BY <1>1, <2>1, <2>2 DEF References
  <2>3. ASSUME NEW n \in Node, DeliveryFailed(n), letter \notin letters
        PROVE  letter.row \in DOMAIN out'["home"]
    <3> DEFINE lost == GivenUp(out'[n]) \ GivenUp(out[n])
    <3>1. \/ letter \in LettersOf(n, out'[n], lost \cap {sending[n]},
                                  reply[n] # "lost")
          \/ letter \in LettersOf(n, out'[n], lost \ {sending[n]}, FALSE)
      BY <1>1, <2>3, FailureMarks
    <3>2. n = "home" /\ letter.row \in lost
      <4>1. CASE letter \in LettersOf(n, out'[n], lost \cap {sending[n]},
                                     reply[n] # "lost")
        <5>1. n = "home" /\ letter.row \in lost \cap {sending[n]}
          BY <2>3, <4>1, LettersNameRows
        <5> QED
          BY <5>1
      <4>2. CASE letter \in LettersOf(n, out'[n], lost \ {sending[n]}, FALSE)
        <5>1. n = "home" /\ letter.row \in lost \ {sending[n]}
          BY <2>3, <4>2, LettersNameRows
        <5> QED
          BY <5>1
      <4> QED
        BY <3>1, <4>1, <4>2
    <3> QED
      BY <3>2 DEF GivenUp
  <2>4. ASSUME NEW n \in Node, HoldBack(n), letter \notin letters
        PROVE  letter.row \in DOMAIN out'["home"]
    <3>1. letter \in LettersOf(n, out'[n],
                               GivenUp(out'[n]) \ GivenUp(out[n]), FALSE)
      BY <1>1, <2>4, HoldBackMarks
    <3>2. n = "home" /\ letter.row \in GivenUp(out'[n]) \ GivenUp(out[n])
      BY <2>4, <3>1, LettersNameRows
    <3> QED
      BY <3>2 DEF GivenUp
  <2>5. ASSUME NEW n \in Node, GiveUpRevoked(n), letter \notin letters
        PROVE  letter.row \in DOMAIN out'["home"]
    <3>1. PICK r \in Owed(out[n]) : letter \in LettersOf(n, out[n], {r}, TRUE)
      BY <2>5 DEF GiveUpRevoked
    <3>2. n = "home" /\ letter.row \in {r}
      BY <2>5, <3>1, LettersNameRows
    <3> QED
      BY <2>1, <3>2 DEF Owed
  <2>6. CASE letters' \subseteq letters
    BY <2>2, <2>6
  <2> QED
    BY <2>2, <2>3, <2>4, <2>5, <2>6
    DEF Next, Home, Peer, Link, vars, memory, Notify, SettleLetter, HandOver,
        AskStop, ReceiveResult, Resolve, ReadyHere, Answer, Boot,
        CapabilityReady, StartTask, WorkerEnds, OwnerStops, ReceiveDelegate,
        ReceiveCancel, Attempt, Lose, Acknowledged, QueueSkip, EndPairing,
        Refuse, Record, Crash, ReceiveSkip
<1>8. ASSUME NEW n \in Node
      PROVE  /\ thread'[n].row \in {0} \cup DOMAIN out'[Other(n)]
             /\ Intends(thread'[n])
  <2>1. /\ thread[n].row \in {0} \cup DOMAIN out'[Other(n)]
        /\ DOMAIN out[Other(n)] \subseteq DOMAIN out'[Other(n)]
        /\ Intends(thread[n])
        /\ thread \in [Node -> StretchType]
        /\ Other(n) \in Node
    BY <1>1, <1>2, <1>3 DEF Grown, References, HereType
  <2>2. CASE thread'[n] = thread[n]
    BY <2>1, <2>2
  <2>3. ASSUME NEW s, NEW m, Go(m, s), Intends(s),
               s.row \in {0} \cup DOMAIN out[Other(m)], n = m
        PROVE  /\ thread'[n].row \in {0} \cup DOMAIN out'[Other(n)]
               /\ Intends(thread'[n])
    BY <2>1, <2>3 DEF Go
  <2>4. ASSUME NEW s, NEW m \in Node, Go(m, s), Intends(s),
               s.row \in {0} \cup DOMAIN out[Other(m)]
        PROVE  /\ thread'[n].row \in {0} \cup DOMAIN out'[Other(n)]
               /\ Intends(thread'[n])
    <3>1. CASE n = m
      BY <2>3, <2>4, <3>1
    <3>2. CASE n # m
      BY <2>1, <2>4, <3>2 DEF Go
    <3> QED
      BY <3>1, <3>2
  <2> DEFINE Fits == /\ thread'[n].row \in {0} \cup DOMAIN out'[Other(n)]
                     /\ Intends(thread'[n])
  <2>5. \A at, t, outcome, ran, row :
          /\ Stretch(at, t, outcome, ran, row).at = at
          /\ Stretch(at, t, outcome, ran, row).task = t
          /\ Stretch(at, t, outcome, ran, row).outcome = outcome
          /\ Stretch(at, t, outcome, ran, row).row = row
    BY DEF Stretch
  <2>6. \A at \in {"return", "boot", "skip"} :
          \A t, outcome, ran : Intends(Stretch(at, t, outcome, ran, 0))
    BY <2>5 DEF Intends
  <2>7. \A m \in Node : \A r \in DOMAIN out[m] : r # 0
    BY <1>1, RowsAreRows DEF RowsType
  <2>8. /\ Intends(thread["peer"]) /\ Intends(thread["home"])
        /\ thread["peer"].row \in {0} \cup DOMAIN out["home"]
    BY <1>1 DEF References, Node, Other
  <2> HIDE DEF Fits
  <2>9. ASSUME NEW m \in Node, NEW at \in {"return", "boot", "skip"},
               NEW t, NEW outcome, NEW ran,
               Go(m, Stretch(at, t, outcome, ran, 0))
        PROVE  Fits
    BY <2>4, <2>5, <2>6, <2>9 DEF Fits
  <2>10. ASSUME NEW m \in Node, Go(m, Idle) PROVE Fits
    BY <2>9, <2>10 DEF Idle
  <2>11. ASSUME NEW m \in Node, NEW x \in DOMAIN out[Other(m)], NEW t,
                NEW outcome, NEW ran,
                Go(m, Stretch("record", t, outcome, ran, x))
         PROVE  Fits
    <3>1. Intends(Stretch("record", t, outcome, ran, x))
      BY <1>3, <2>5, <2>7 DEF Intends
    <3> QED
      BY <2>4, <2>5, <2>11, <3>1 DEF Fits
  <2>12. ASSUME NEW t \in Tasks, NEW outcome \in Settled,
                NEW ran, NEW row \in {0} \cup DOMAIN out["home"],
                NEW at \in {"answer", "answer_boot"},
                Go("peer", Stretch(at, t, outcome, ran, row))
         PROVE  Fits
    <3>1. Intends(Stretch(at, t, outcome, ran, row))
      BY <2>5 DEF Intends
    <3> QED
      BY <2>4, <2>5, <2>12, <3>1 DEF Fits, Node, Other
  <2>13. ASSUME NEW t \in Tasks, AskStop(t) PROVE Fits
    <3>1. Intends(Stretch("notify", t, "none", FALSE, 0))
      BY DEF Intends, Stretch
    <3>2. Go("home", Stretch("notify", t, "none", FALSE, 0))
      BY <2>13 DEF AskStop
    <3>3. Stretch("notify", t, "none", FALSE, 0).row = 0
      BY DEF Stretch
    <3> QED
      BY <2>4, <3>1, <3>2, <3>3 DEF Fits, Node
  <2>14. ASSUME Notify PROVE Fits
    BY <2>10, <2>14 DEF Notify, Node
  <2>15. ASSUME NEW x \in wire["peer"], ReceiveResult(x) PROVE Fits
    <3>1. x \in DOMAIN out[Other("home")]
      BY <1>1 DEF References, Node, Other
    <3> QED
      BY <2>11, <2>15, <3>1 DEF ReceiveResult, Node
  <2>16. ASSUME Resolve \/ ReadyHere PROVE Fits
    <3>1. PICK at \in {"ready", "record"} :
            Go("peer", [thread["peer"] EXCEPT !.at = at])
      BY <2>16 DEF Resolve, ReadyHere
    <3>2. thread["peer"].at \in {"resolve", "ready"}
      BY <2>16 DEF Resolve, ReadyHere, At
    <3> DEFINE s == [thread["peer"] EXCEPT !.at = at]
    <3>3. thread["peer"].row # 0
      BY <2>8, <3>2 DEF Intends
    <3>4. /\ s.at = at /\ s.task = thread["peer"].task
          /\ s.row = thread["peer"].row
      BY <2>1 DEF StretchType, Node, HereType
    <3>5. Intends(s)
      BY <2>8, <3>2, <3>3, <3>4 DEF Intends
    <3> HIDE DEF s
    <3> QED
      BY <2>4, <2>8, <3>1, <3>4, <3>5 DEF Fits, Node, Other, s
  <2>17. ASSUME NEW t \in Tasks, WorkerEnds(t) PROVE Fits
    <3>1. PICK outcome \in Reports(work[t]) :
            Go("peer", Stretch("answer", t, outcome, TRUE, 0))
      BY <2>17 DEF WorkerEnds
    <3>2. outcome \in Settled
      BY DEF Reports, Settled, Terminal
    <3> QED
      BY <2>12, <3>1, <3>2
  <2>18. ASSUME Answer PROVE Fits
    <3> DEFINE now == thread["peer"]
               s == [now EXCEPT !.at = "record"]
    <3>1. Go("peer", AfterAnswer(now))
      BY <2>18 DEF Answer
    <3>2. CASE now.at = "answer_boot"
      <4>0. AfterAnswer(now) = Stretch("boot", NoTask, "none", FALSE, 0)
        BY <3>2 DEF AfterAnswer
      <4>1. Go("peer", Stretch("boot", NoTask, "none", FALSE, 0))
        BY <3>1, <4>0
      <4> QED
        BY <2>9, <4>1 DEF Node
    <3>3. CASE now.at # "answer_boot" /\ now.row # 0
      <4>1. Go("peer", s)
        BY <3>1, <3>3 DEF AfterAnswer
      <4>2. s.at = "record" /\ s.row = now.row
        BY <2>1 DEF StretchType, Node
      <4>3. Intends(s)
        BY <3>3, <4>2 DEF Intends
      <4> HIDE DEF s, now
      <4> QED
        BY <2>4, <2>8, <4>1, <4>2, <4>3 DEF Fits, Node, Other, now
    <3>4. CASE now.at # "answer_boot" /\ now.row = 0
      BY <2>10, <3>1, <3>4 DEF AfterAnswer, Node
    <3> QED
      BY <3>2, <3>3, <3>4
  <2>19. ASSUME Boot PROVE Fits
    <3>1. CASE \E t \in Tasks :
                 Go("peer", Stretch("answer_boot", t, "uncertain", TRUE, 0))
      <4>1. "uncertain" \in Settled
        BY DEF Settled
      <4> QED
        BY <2>12, <3>1, <4>1
    <3>2. CASE Go("peer", Idle)
      BY <2>10, <3>2 DEF Node
    <3> QED
      BY <2>19, <3>1, <3>2 DEF Boot
  <2>20. ASSUME NEW x \in wire["home"], ReceiveDelegate(x) PROVE Fits
    <3> DEFINE t == out["home"][x].task
    <3>1. x \in DOMAIN out["home"] /\ x # 0
      BY <1>1, <2>7 DEF References, Node
    <3>2. t \in Tasks
      BY <1>1, <2>20, <3>1
      DEF ReceiveDelegate, HandleKind, References, Says, Node, Other
    <3> HIDE DEF t
    <3>3. \/ Go("peer", Stretch("record", t, "none", FALSE, x))
          \/ Go("peer", Stretch("resolve", t, "none", FALSE, x))
          \/ Go("peer", Stretch("answer", t, "failed", FALSE, x))
      BY <2>20 DEF ReceiveDelegate, t
    <3>4. CASE Go("peer", Stretch("record", t, "none", FALSE, x))
      BY <2>11, <3>1, <3>4 DEF Node, Other
    <3>5. CASE Go("peer", Stretch("resolve", t, "none", FALSE, x))
      <4>1. Intends(Stretch("resolve", t, "none", FALSE, x))
        BY <3>1, <3>2 DEF Intends, Stretch
      <4>2. Stretch("resolve", t, "none", FALSE, x).row = x
        BY DEF Stretch
      <4> QED
        BY <2>4, <3>1, <3>5, <4>1, <4>2 DEF Fits, Node, Other
    <3>6. CASE Go("peer", Stretch("answer", t, "failed", FALSE, x))
      <4>1. "failed" \in Settled
        BY DEF Settled, Terminal
      <4> QED
        BY <2>12, <3>1, <3>2, <3>6, <4>1
    <3> QED
      BY <3>3, <3>4, <3>5, <3>6
  <2>21. ASSUME NEW x \in wire["home"], ReceiveCancel(x) PROVE Fits
    <3> DEFINE t == out["home"][x].task
    <3>1. x \in DOMAIN out["home"] /\ x # 0
      BY <1>1, <2>7 DEF References, Node
    <3>2. t \in Tasks
      BY <1>1, <2>21, <3>1
      DEF ReceiveCancel, HandleKind, References, Says, Node, Other
    <3> HIDE DEF t
    <3>3. \/ Go("peer", Stretch("answer", t, "cancelled", TRUE, x))
          \/ Go("peer", Stretch("record", t, "cancelled", TRUE, x))
      BY <2>21 DEF ReceiveCancel, t
    <3>4. "cancelled" \in Settled
      BY DEF Settled, Terminal
    <3>5. CASE Go("peer", Stretch("answer", t, "cancelled", TRUE, x))
      BY <2>12, <3>1, <3>2, <3>4, <3>5
    <3>6. CASE Go("peer", Stretch("record", t, "cancelled", TRUE, x))
      BY <2>11, <3>1, <3>6 DEF Node, Other
    <3> QED
      BY <3>3, <3>5, <3>6
  <2>22. ASSUME NEW m \in Node, Link(m) PROVE Fits
    <3>1. \/ thread' = thread
          \/ Go(m, Stretch("skip", NoTask, "none", FALSE, 0))
          \/ Go(m, Idle)
          \/ Crash(m)
          \/ \E x \in wire[Other(m)] : ReceiveSkip(m, x)
      BY <2>22
      DEF Link, memory, Attempt, Lose, Acknowledged, DeliveryFailed, HoldBack,
          QueueSkip, EndPairing, GiveUpRevoked, Refuse, Record
    <3>2. CASE Go(m, Stretch("skip", NoTask, "none", FALSE, 0))
      BY <2>9, <3>2
    <3>3. CASE Crash(m)
      <4>1. Go(m, IF m = "peer" THEN Stretch("boot", NoTask, "none", FALSE, 0)
                  ELSE Idle)
        BY <3>3 DEF Crash
      <4> QED
        BY <2>9, <2>10, <4>1
    <3>4. ASSUME NEW x \in wire[Other(m)], ReceiveSkip(m, x) PROVE Fits
      <4>1. x \in DOMAIN out[Other(m)]
        BY <1>1, <1>3 DEF References
      <4> QED
        BY <2>11, <3>4, <4>1 DEF ReceiveSkip
    <3> QED
      BY <2>2, <2>10, <3>1, <3>2, <3>3, <3>4 DEF Fits
  <2>23. ASSUME Home PROVE Fits
    <3>1. \/ thread' = thread
          \/ Notify
          \/ \E t \in Tasks : AskStop(t)
          \/ \E x \in wire["peer"] : ReceiveResult(x)
      BY <2>23 DEF Home, memory, SettleLetter, HandOver
    <3> QED
      BY <2>2, <2>13, <2>14, <2>15, <3>1 DEF Fits
  <2>24. ASSUME Peer PROVE Fits
    <3>1. \/ thread' = thread
          \/ Resolve \/ ReadyHere \/ Answer \/ Boot
          \/ \E t \in Tasks : WorkerEnds(t)
          \/ \E x \in wire["home"] : ReceiveDelegate(x) \/ ReceiveCancel(x)
      BY <2>24 DEF Peer, memory, CapabilityReady, StartTask, OwnerStops
    <3> QED
      BY <2>2, <2>16, <2>17, <2>18, <2>19, <2>20, <2>21, <3>1 DEF Fits
  <2>25. Fits
    BY <2>2, <2>22, <2>23, <2>24 DEF Next, vars, memory, Fits
  <2> QED
    BY <2>25 DEF Fits
<1> QED
  BY <1>1, <1>2, <1>4, <1>5, <1>6, <1>7, <1>8 DEF References

\* The initial state has the types.
LEMMA InitType ==
  ASSUME Init
  PROVE  LinkType
<1> DEFINE first == [Envelope("pair.confirm", NoTask, "none", FALSE, 1, {})
                        EXCEPT !.state = "acked", !.tries = 1, !.sent = TRUE]
<1> DEFINE base == Envelope("pair.confirm", NoTask, "none", FALSE, 1, {})
<1>0. base \in Row /\ base.seq = 1 /\ base.kind = "pair.confirm"
  <2>1. "pair.confirm" \in Kind /\ 1 \in Nat \ {0} /\ {} \in SUBSET Nat
    BY DEF Kind
  <2>2. base \in Row
    BY <2>1, EnvelopeIsRow
  <2> QED
    BY <2>2 DEF Envelope
<1> HIDE DEF base
<1>1. first \in Row /\ first.seq = 1 /\ first.kind = "pair.confirm"
  <2>1. \A row \in Row :
          LET f == [row EXCEPT !.state = "acked", !.tries = 1, !.sent = TRUE] IN
          f \in Row /\ f.seq = row.seq /\ f.kind = row.kind
    BY DEF Row
  <2> QED
    BY <1>0, <2>1 DEF base
<1> HIDE DEF first
<1>2. out = [n \in Node |-> IF n = "peer" THEN << >> ELSE <<first>>]
  BY DEF Init, first
<1>3. out["peer"] = << >> /\ out["home"] = <<first>>
  BY <1>2 DEF Node
<1>4. /\ out["peer"] \in Seq(Row) /\ DOMAIN out["peer"] = {}
      /\ out["home"] \in Seq(Row) /\ DOMAIN out["home"] = {1}
      /\ out["home"][1] = first
  BY <1>1, <1>3
<1>5. Bounded(out["peer"]) /\ Bounded(out["home"])
  BY <1>1, <1>4 DEF Bounded
<1>6. RowsType
  BY <1>2, <1>4, <1>5 DEF Init, RowsType, Node
<1>7. HereType
  <2>1. verdict \in [Tasks -> Verdicts]
    BY DEF Init
  <2> QED
    BY <2>1, BoundsAssumption
    DEF Init, HereType, Node, HomeState, PeerState, StretchType, Steps, Idle,
        Stretch, Reply
<1>8. References
  <2>1. Other("home") = "peer" /\ Other("peer") = "home"
    BY DEF Other
  <2>2. /\ Intends(Idle) /\ Idle.row = 0
        /\ Says(first.kind, first.task, first.outcome)
    BY <1>1 DEF Intends, Idle, Stretch, Says
  <2>3. cursor["peer"] \in Sequences(out["home"])
    BY <1>1, <1>4 DEF Init, Sequences, Node
  <2> QED
    BY <1>4, <2>1, <2>2, <2>3 DEF Init, References, Node
<1> QED
  BY <1>6, <1>7, <1>8 DEF LinkType

\* LinkType is an invariant of PeerDelegation.
LEMMA LinkCorrect == Spec => []LinkType
<1>1. Init => LinkType
  BY InitType
<1>2. LinkType /\ [Next]_vars => LinkType'
  BY RowsPreserved, HerePreserved, ReferencesPreserved DEF LinkType
<1> QED
  BY <1>1, <1>2, PTL DEF Spec

\* The steps that mark rows of an outbox, and those that leave them alone.
Marks(n) ==
  \/ Attempt(n) \/ Acknowledged(n) \/ DeliveryFailed(n)
  \/ HoldBack(n) \/ GiveUpRevoked(n)

Sends == Notify \/ Answer \/ \E t \in Tasks : HandOver(t)

\* What a step may do to the outboxes and the passes that deliver them.
LEMMA OutCases ==
  ASSUME [Next]_vars
  PROVE  \/ \E n \in Node : Marks(n) \/ Crash(n) \/ QueueSkip(n)
         \/ Sends /\ UNCHANGED <<sending, crashes>>
         \/ UNCHANGED <<out, sending, crashes>>
<1>1. CASE UNCHANGED vars
  BY <1>1 DEF vars, databases, memory, counters
<1>2. CASE Home
  BY <1>2
  DEF Home, Sends, databases, memory, counters, Notify, HandOver, SettleLetter,
      AskStop, ReceiveResult
<1>3. CASE Peer
  BY <1>3
  DEF Peer, Sends, databases, memory, counters, Answer, Resolve, ReadyHere,
      Boot, CapabilityReady, StartTask, WorkerEnds, OwnerStops,
      ReceiveDelegate, ReceiveCancel
<1>4. CASE \E n \in Node : Link(n)
  BY <1>4
  DEF Link, Marks, databases, memory, counters, Lose, EndPairing, Refuse,
      Record, ReceiveSkip
<1> QED
  BY <1>1, <1>2, <1>3, <1>4 DEF Next

\* A message that is sent is one row more, and says what is sent.
LEMMA SendsAdd ==
  ASSUME LinkType, Sends, UNCHANGED sending
  PROVE  \E n \in Node : \E e \in Row : \E k :
           /\ Added(out[n], out'[n], k, e)
           /\ \A m \in Node \ {n} : out'[m] = out[m]
           /\ Message(out[n], e)
           /\ e.state = "owed" /\ ~ e.sent /\ e.tries = 0
           /\ \/ HandOver(e.task) /\ e.kind = "delegate" /\ n = "home"
              \/ Notify /\ e.kind = "cancel.request" /\ n = "home"
                   /\ e.task = thread["home"].task
              \/ Answer /\ e.kind = "result" /\ n = "peer"
                   /\ e.task = thread["peer"].task
                   /\ e.outcome = thread["peer"].outcome
                   /\ e.ran = thread["peer"].ran
<1>1. RowsType /\ HereType /\ References
  BY DEF LinkType
<1>2. ASSUME NEW n \in Node, NEW kind \in Kind \ {"skip"}, NEW t \in Tasks,
             NEW outcome \in Settled \cup {"none"}, NEW ran \in BOOLEAN,
             Says(kind, t, outcome), Send(n, kind, t, outcome, ran)
      PROVE  \E e \in Row : \E k :
               /\ Added(out[n], out'[n], k, e)
               /\ \A m \in Node \ {n} : out'[m] = out[m]
               /\ Message(out[n], e)
               /\ e.state = "owed" /\ ~ e.sent /\ e.tries = 0
               /\ e.kind = kind /\ e.task = t /\ e.outcome = outcome
               /\ e.ran = ran
  <2> DEFINE e == Envelope(kind, t, outcome, ran, NextSequence(out[n]), {})
  <2>1. /\ \A m \in Node \ {n} : out'[m] = out[m]
        /\ \E k : Added(out[n], out'[n], k, e)
    BY <1>1, <1>2, SendKeepsRows
  <2>2. /\ NextSequence(out[n]) \in Nat \ {0}
        /\ \A r \in DOMAIN out[n] : out[n][r].seq < NextSequence(out[n])
    BY <1>1, NextIsBeyond DEF RowsType
  <2>3. e \in Row
    BY <2>2, EnvelopeIsRow
  <2>4. /\ e.kind = kind /\ e.task = t /\ e.outcome = outcome
        /\ e.seq = NextSequence(out[n]) /\ e.state = "owed" /\ ~ e.sent
        /\ e.tries = 0 /\ e.ran = ran
    BY DEF Envelope
  <2> HIDE DEF e
  <2>5. Message(out[n], e)
    BY <1>2, <2>2, <2>4 DEF Message
  <2> QED
    BY <2>1, <2>3, <2>4, <2>5
<1>3. ASSUME NEW t \in Tasks, HandOver(t)
      PROVE  \E e \in Row : \E k :
               /\ Added(out["home"], out'["home"], k, e)
               /\ \A m \in Node \ {"home"} : out'[m] = out[m]
               /\ Message(out["home"], e)
               /\ e.state = "owed" /\ ~ e.sent /\ e.tries = 0
               /\ e.kind = "delegate" /\ e.task = t
  <2>0. PICK no \in BOOLEAN : no = FALSE
    OBVIOUS
  <2>1. Send("home", "delegate", t, "none", no)
    BY <1>3, <2>0 DEF HandOver, Send, Envelope
  <2>2. Says("delegate", t, "none") /\ "delegate" \in Kind \ {"skip"}
    BY DEF Says, Kind
  <2>3. "none" \in Settled \cup {"none"} /\ FALSE \in BOOLEAN /\ "home" \in Node
    BY DEF Node
  <2> QED
    <3>1. PICK e, k :
            /\ e \in Row
            /\ Added(out["home"], out'["home"], k, e)
            /\ \A m \in Node \ {"home"} : out'[m] = out[m]
            /\ Message(out["home"], e)
            /\ e.state = "owed" /\ ~ e.sent /\ e.tries = 0
            /\ e.kind = "delegate" /\ e.task = t
      BY <1>2, <2>1, <2>2, <2>3
    <3> QED
      BY <3>1
<1>4. ASSUME Notify
      PROVE  \E e \in Row : \E k :
               /\ Added(out["home"], out'["home"], k, e)
               /\ \A m \in Node \ {"home"} : out'[m] = out[m]
               /\ Message(out["home"], e)
               /\ e.state = "owed" /\ ~ e.sent /\ e.tries = 0
               /\ e.kind = "cancel.request" /\ e.task = thread["home"].task
  <2> DEFINE t == thread["home"].task
  <2>0. PICK no \in BOOLEAN : no = FALSE
    OBVIOUS
  <2>1. Send("home", "cancel.request", t, "none", no)
    BY <1>4, <2>0 DEF Notify, Send, Envelope
  <2>2. t \in Tasks
    BY <1>1, <1>4 DEF Notify, At, References, Intends, Node
  <2> HIDE DEF t
  <2>3. Says("cancel.request", t, "none") /\ "cancel.request" \in Kind \ {"skip"}
    BY <2>2 DEF Says, Kind
  <2>4. "none" \in Settled \cup {"none"} /\ FALSE \in BOOLEAN /\ "home" \in Node
    BY DEF Node
  <2> QED
    <3>1. PICK e, k :
            /\ e \in Row
            /\ Added(out["home"], out'["home"], k, e)
            /\ \A m \in Node \ {"home"} : out'[m] = out[m]
            /\ Message(out["home"], e)
            /\ e.state = "owed" /\ ~ e.sent /\ e.tries = 0
            /\ e.kind = "cancel.request" /\ e.task = t
      BY <1>2, <2>1, <2>2, <2>3, <2>4
    <3> QED
      BY <3>1 DEF t
<1>5. ASSUME Answer
      PROVE  \E e \in Row : \E k :
               /\ Added(out["peer"], out'["peer"], k, e)
               /\ \A m \in Node \ {"peer"} : out'[m] = out[m]
               /\ Message(out["peer"], e)
               /\ e.state = "owed" /\ ~ e.sent /\ e.tries = 0
               /\ e.kind = "result"
               /\ e.task = thread["peer"].task
               /\ e.outcome = thread["peer"].outcome
               /\ e.ran = thread["peer"].ran
  <2> DEFINE now == thread["peer"]
  <2>1. /\ Send("peer", "result", now.task, now.outcome, now.ran)
        /\ now.at \in {"answer", "answer_boot"}
    BY <1>5 DEF Answer
  <2>2. now.task \in Tasks /\ now.outcome \in Settled
    BY <1>1, <2>1 DEF References, Intends, Node
  <2>3. now.ran \in BOOLEAN
    BY <1>1 DEF HereType, StretchType, Node
  <2> HIDE DEF now
  <2>4. Says("result", now.task, now.outcome) /\ "result" \in Kind \ {"skip"}
    BY <2>2 DEF Says, Kind
  <2> QED
    BY <1>2, <2>1, <2>2, <2>3, <2>4 DEF Node, now
<1>6. "home" \in Node /\ "peer" \in Node
  BY DEF Node
<1>7. CASE Notify
  BY <1>4, <1>6, <1>7
<1>8. CASE Answer
  BY <1>5, <1>6, <1>8
<1>9. ASSUME NEW t \in Tasks, HandOver(t)
      PROVE  \E n \in Node : \E e \in Row : \E k :
               /\ Added(out[n], out'[n], k, e)
               /\ \A m \in Node \ {n} : out'[m] = out[m]
               /\ Message(out[n], e)
               /\ e.state = "owed" /\ ~ e.sent /\ e.tries = 0
               /\ HandOver(e.task) /\ e.kind = "delegate" /\ n = "home"
  BY <1>3, <1>6, <1>9
<1> QED
  BY <1>7, <1>8, <1>9 DEF Sends

\* How often a row was tried: what is still owed can be tried once more,
\* unless it is being tried; a crash can cut one attempt short.
TriesFit ==
  \A n \in Node : \A r \in DOMAIN out[n] :
    /\ out[n][r].tries <= MaxTries + crashes
    /\ out[n][r].state = "owed" /\ sending[n] # r
         => out[n][r].tries < MaxTries + crashes

\* A row that failed is owed only while it may be tried again.
LEMMA FailedIsBounded ==
  ASSUME NEW row \in Row, Failed(row).state = "owed"
  PROVE  row.tries < MaxTries
  BY BoundsAssumption DEF Failed, Row

\* Counting one row more as failing keeps the bound.
LEMMA HeldBackFits ==
  ASSUME NEW row \in Row, NEW m \in Nat, row.tries < MaxTries + m
  PROVE  /\ HeldBack(row).tries <= MaxTries + m
         /\ HeldBack(row).state = "owed" => HeldBack(row).tries < MaxTries + m
<1> DEFINE tried == [row EXCEPT !.tries = @ + 1, !.unreached = TRUE]
<1>1. tried \in Row /\ tried.tries = row.tries + 1
  BY TriedIsRow DEF Row
<1> HIDE DEF tried
<1>2. HeldBack(row) = Failed(tried)
  BY DEF HeldBack, tried
<1>3. Failed(tried).tries = tried.tries
  BY <1>1 DEF Failed, Row
<1>4. row.tries \in Nat /\ MaxTries \in Nat
  BY BoundsAssumption DEF Row
<1>5. Failed(tried).state = "owed" => tried.tries < MaxTries
  BY <1>1, FailedIsBounded
<1> QED
  BY <1>1, <1>2, <1>3, <1>4, <1>5

\* Every action keeps the bound on the tries.
LEMMA TriesPreserved ==
  ASSUME LinkType, TriesFit, [Next]_vars
  PROVE  TriesFit'
<1>1. RowsType /\ HereType /\ References
  BY DEF LinkType
<1>2. RowsType' /\ \A m \in Node : OutStep(out[m], out'[m])
  BY RowsPreserved
<1>3. /\ MaxTries \in Nat \ {0} /\ crashes \in Nat
      /\ \A m \in Node : \A r \in DOMAIN out[m] :
           out[m][r] \in Row /\ out[m][r].tries \in Nat /\ r # 0
  <2>1. \A m \in Node : \A r \in DOMAIN out[m] : out[m][r] \in Row /\ r # 0
    BY <1>1, RowsAreRows DEF RowsType
  <2>2. \A row \in Row : row.tries \in Nat
    BY DEF Row
  <2> QED
    BY <1>1, <2>1, <2>2, BoundsAssumption DEF HereType
<1> DEFINE Fits(m) ==
      \A r \in DOMAIN out'[m] :
        /\ out'[m][r].tries <= MaxTries + crashes'
        /\ out'[m][r].state = "owed" /\ sending'[m] # r
             => out'[m][r].tries < MaxTries + crashes'
<1>4. ASSUME NEW m \in Node, out'[m] = out[m], sending'[m] = sending[m],
             crashes' = crashes
      PROVE  Fits(m)
  BY <1>4 DEF TriesFit
<1>5. ASSUME NEW m \in Node, sending'[m] = sending[m], crashes' = crashes,
             NEW e, NEW k, Added(out[m], out'[m], k, e), e.tries = 0
      PROVE  Fits(m)
  BY <1>3, <1>5 DEF TriesFit, Added
<1>6. ASSUME Sends, UNCHANGED <<sending, crashes>>
      PROVE  \A m \in Node : Fits(m)
  BY <1>4, <1>5, <1>6, SendsAdd
<1>7. ASSUME NEW n \in Node, QueueSkip(n)
      PROVE  \A m \in Node : Fits(m)
  <2>1. sending' = sending /\ crashes' = crashes
    BY <1>7 DEF QueueSkip, counters
  <2>2. CASE out' = out
    BY <1>4, <2>1, <2>2
  <2>3. CASE out' # out
    <3>1. PICK last, k :
            /\ last \in Skippable(out[n])
            /\ Added(out[n], out'[n], k,
                     Envelope("skip", NoTask, "none", FALSE,
                              out[n][last].seq, Skippable(out[n])))
      BY <1>1, <1>7, <2>3, SkipKeepsRows
    <3>2. \A m \in Node \ {n} : out'[m] = out[m]
      BY <1>1, <1>7, SkipKeepsRows
    <3>3. Envelope("skip", NoTask, "none", FALSE,
                   out[n][last].seq, Skippable(out[n])).tries = 0
      BY DEF Envelope
    <3>4. Fits(n)
      BY <1>5, <2>1, <3>1, <3>3
    <3> QED
      BY <1>4, <2>1, <3>2, <3>4
  <2> QED
    BY <2>2, <2>3
<1>8. ASSUME NEW n \in Node, Crash(n)
      PROVE  \A m \in Node : Fits(m)
  <2>1. out' = out /\ crashes' = crashes + 1
    BY <1>8 DEF Crash, databases
  <2>2. \A m \in Node : \A r \in DOMAIN out[m] :
          out[m][r].tries < MaxTries + crashes'
    BY <1>3, <2>1 DEF TriesFit
  <2> QED
    BY <1>3, <2>1, <2>2
<1>9. ASSUME NEW n \in Node, Attempt(n)
      PROVE  \A m \in Node : Fits(m)
  <2>1. PICK r \in Owed(out[n]) :
          /\ sending' = [sending EXCEPT ![n] = r]
          /\ out'[n][r].tries = out[n][r].tries + 1
          /\ \A o \in DOMAIN out[n] \ {r} : out'[n][o] = out[n][o]
          /\ out' = [out EXCEPT ![n] = out'[n]]
          /\ Marked(out[n], out'[n])
    BY <1>1, <1>9, AttemptMarks
  <2>2. crashes' = crashes /\ sending[n] = 0
    BY <1>9 DEF Attempt, counters
  <2>3. \A m \in Node \ {n} : out'[m] = out[m] /\ sending'[m] = sending[m]
    BY <1>1, <2>1 DEF RowsType
  <2>4. sending'[n] = r /\ r \in DOMAIN out[n] /\ out[n][r].state = "owed"
    BY <1>1, <2>1 DEF RowsType, Owed
  <2>5. Fits(n)
    BY <1>3, <2>1, <2>2, <2>4 DEF TriesFit, Marked
  <2> QED
    BY <1>4, <2>2, <2>3, <2>5
<1>10. ASSUME NEW n \in Node, Acknowledged(n)
       PROVE  \A m \in Node : Fits(m)
  <2>1. /\ out' = [out EXCEPT ![n] = out'[n]]
        /\ Marked(out[n], out'[n])
        /\ sending[n] \in Owed(out[n])
        /\ out'[n][sending[n]].state = "acked"
        /\ \A o \in DOMAIN out[n] \ {sending[n]} : out'[n][o] = out[n][o]
    BY <1>1, <1>10, AcknowledgedMarks
  <2>2. /\ crashes' = crashes
        /\ out' = [out EXCEPT ![n][sending[n]].state = "acked"]
        /\ sending' = [sending EXCEPT ![n] = 0]
    BY <1>10 DEF Acknowledged, counters
  <2>3. \A m \in Node \ {n} : out'[m] = out[m] /\ sending'[m] = sending[m]
    BY <1>1, <2>1, <2>2 DEF RowsType
  <2>4. out'[n][sending[n]].tries = out[n][sending[n]].tries
    <3>1. sending[n] \in DOMAIN out[n] /\ out[n] \in Seq(Row)
      BY <1>1, <2>1 DEF Owed, RowsType
    <3>2. out'[n] = [out[n] EXCEPT ![sending[n]] =
                       [@ EXCEPT !.state = "acked"]]
      BY <1>1, <2>2 DEF RowsType
    <3>3. out'[n][sending[n]] = [out[n][sending[n]] EXCEPT !.state = "acked"]
      BY <3>1, <3>2
    <3> QED
      BY <1>3, <3>1, <3>3 DEF Row
  <2>5. Fits(n)
    BY <1>3, <2>1, <2>2, <2>4 DEF TriesFit, Marked, Owed
  <2> QED
    BY <1>4, <2>2, <2>3, <2>5
<1>11. ASSUME NEW n \in Node, DeliveryFailed(n)
       PROVE  \A m \in Node : Fits(m)
  <2>1. PICK back \in SUBSET (Owed(out[n]) \ {sending[n]}) :
          /\ sending[n] \in Owed(out[n])
          /\ out' = [out EXCEPT ![n] = out'[n]]
          /\ Marked(out[n], out'[n])
          /\ out'[n][sending[n]].tries = out[n][sending[n]].tries
          /\ out'[n][sending[n]].state = Failed(out[n][sending[n]]).state
          /\ \A r \in DOMAIN out[n] \ {sending[n]} :
               out'[n][r] = IF r \in back THEN HeldBack(out[n][r])
                                           ELSE out[n][r]
    BY <1>1, <1>11, FailureMarks
  <2>2. crashes' = crashes /\ sending' = [sending EXCEPT ![n] = 0]
    BY <1>11 DEF DeliveryFailed, counters
  <2>3. \A m \in Node \ {n} : out'[m] = out[m] /\ sending'[m] = sending[m]
    BY <1>1, <2>1, <2>2 DEF RowsType
  <2>4. ASSUME NEW r \in DOMAIN out[n]
        PROVE  /\ out'[n][r].tries <= MaxTries + crashes
               /\ out'[n][r].state = "owed"
                    => out'[n][r].tries < MaxTries + crashes
    <3>1. CASE r = sending[n]
      BY <1>3, <2>1, <3>1, FailedIsBounded DEF TriesFit
    <3>2. CASE r \in back
      <4>1. out[n][r].tries < MaxTries + crashes
        BY <2>1, <3>2 DEF TriesFit, Owed
      <4> QED
        BY <1>3, <2>1, <3>2, <4>1, HeldBackFits
    <3>3. CASE r # sending[n] /\ r \notin back
      BY <2>1, <3>3 DEF TriesFit
    <3> QED
      BY <3>1, <3>2, <3>3
  <2>5. Fits(n)
    BY <2>1, <2>2, <2>4 DEF Marked
  <2> QED
    BY <1>4, <2>2, <2>3, <2>5
<1>12. ASSUME NEW n \in Node, HoldBack(n)
       PROVE  \A m \in Node : Fits(m)
  <2>1. PICK back \in SUBSET Owed(out[n]) :
          /\ out' = [out EXCEPT ![n] = out'[n]]
          /\ Marked(out[n], out'[n])
          /\ \A r \in DOMAIN out[n] :
               out'[n][r] = IF r \in back THEN HeldBack(out[n][r])
                                           ELSE out[n][r]
    BY <1>1, <1>12, HoldBackMarks
  <2>2. crashes' = crashes /\ sending' = sending /\ sending[n] = 0
    BY <1>12 DEF HoldBack, counters
  <2>3. \A m \in Node \ {n} : out'[m] = out[m]
    BY <1>1, <2>1 DEF RowsType
  <2>4. ASSUME NEW r \in DOMAIN out[n]
        PROVE  /\ out'[n][r].tries <= MaxTries + crashes
               /\ out'[n][r].state = "owed"
                    => out'[n][r].tries < MaxTries + crashes
    <3>1. CASE r \in back
      <4>1. out[n][r].tries < MaxTries + crashes
        BY <1>3, <2>2, <3>1 DEF TriesFit, Owed
      <4> QED
        BY <1>3, <2>1, <3>1, <4>1, HeldBackFits
    <3>2. CASE r \notin back
      BY <1>3, <2>1, <2>2, <3>2 DEF TriesFit
    <3> QED
      BY <3>1, <3>2
  <2>5. Fits(n)
    BY <2>1, <2>2, <2>4 DEF Marked
  <2> QED
    BY <1>4, <2>2, <2>3, <2>5
<1>13. ASSUME NEW n \in Node, GiveUpRevoked(n)
       PROVE  \A m \in Node : Fits(m)
  <2>1. /\ out' = [out EXCEPT ![n] = out'[n]]
        /\ Marked(out[n], out'[n])
        /\ \A o \in DOMAIN out[n] : out'[n][o].tries = out[n][o].tries
    BY <1>1, <1>13, GiveUpMarks
  <2>2. crashes' = crashes /\ sending' = sending
    BY <1>13 DEF GiveUpRevoked, counters
  <2>3. \A m \in Node \ {n} : out'[m] = out[m]
    BY <1>1, <2>1 DEF RowsType
  <2>4. ASSUME NEW r \in DOMAIN out[n], out'[n][r].state = "owed"
        PROVE  out[n][r].state = "owed"
    BY <2>1, <2>4 DEF Marked
  <2>5. Fits(n)
    BY <2>1, <2>2, <2>4 DEF TriesFit, Marked
  <2> QED
    BY <1>4, <2>2, <2>3, <2>5
<1>14. CASE UNCHANGED <<out, sending, crashes>>
  BY <1>14 DEF TriesFit
<1> HIDE DEF Fits
<1>15. CASE \E n \in Node : Marks(n) \/ Crash(n) \/ QueueSkip(n)
  <2>1. \A m \in Node : Fits(m)
    BY <1>7, <1>8, <1>9, <1>10, <1>11, <1>12, <1>13, <1>15 DEF Marks
  <2> QED
    BY <2>1 DEF Fits, TriesFit
<1>16. CASE Sends /\ UNCHANGED <<sending, crashes>>
  <2>1. \A m \in Node : Fits(m)
    BY <1>6, <1>16
  <2> QED
    BY <2>1 DEF Fits, TriesFit
<1> QED
  BY <1>14, <1>15, <1>16, OutCases

\* TypeOK: every variable has its type, every row named is a row of its outbox,
\* and no row is tried more often than the outbox allows, crashes apart.
THEOREM TypeCorrect == Spec => []TypeOK
<1>1. Init /\ LinkType => TriesFit
  <2> SUFFICES ASSUME Init, LinkType PROVE TriesFit
    OBVIOUS
  <2> DEFINE first == [Envelope("pair.confirm", NoTask, "none", FALSE, 1, {})
                         EXCEPT !.state = "acked", !.tries = 1, !.sent = TRUE]
  <2>1. first.tries = 1 /\ first.state = "acked"
    BY DEF Envelope
  <2> HIDE DEF first
  <2>2. out = [n \in Node |-> IF n = "peer" THEN << >> ELSE <<first>>]
    BY DEF Init, first
  <2>3. /\ DOMAIN out["peer"] = {} /\ DOMAIN out["home"] = {1}
        /\ out["home"][1] = first
    BY <2>2 DEF Node
  <2>4. crashes = 0
    BY DEF Init
  <2> QED
    BY <2>1, <2>3, <2>4, BoundsAssumption DEF TriesFit, Node
<1>2. LinkType /\ TriesFit => TypeOK
  <2> SUFFICES ASSUME LinkType, TriesFit PROVE TypeOK
    OBVIOUS
  <2>1. RowsType /\ HereType /\ References
    BY DEF LinkType
  <2>2. ASSUME NEW n \in Node, NEW r \in DOMAIN out[n]
        PROVE  out[n][r] \in RowType
    <3>1. out[n][r] \in Row
      BY <2>1, RowsAreRows DEF RowsType
    <3>2. out[n][r].tries \in 0..(MaxTries + crashes)
      <4>1. out[n][r].tries \in Nat
        BY <3>1 DEF Row
      <4>2. MaxTries + crashes \in Nat
        BY <2>1, BoundsAssumption DEF HereType
      <4> QED
        BY <4>1, <4>2 DEF TriesFit
    <3> QED
      BY <3>1, <3>2 DEF Row, RowType
  <2>3. ASSUME NEW n \in Node PROVE sending[n] \in {0} \cup DOMAIN out[n]
    BY <2>1 DEF RowsType, Owed
  <2>4. ASSUME NEW letter \in letters
        PROVE  letter \in [row : DOMAIN out["home"], refused : BOOLEAN,
                           neverSent : BOOLEAN]
    BY <2>1 DEF HereType, References
  <2> QED
    BY <2>1, <2>2, <2>3, <2>4 DEF HereType, References, TypeOK, Node
<1>3. Init => LinkType
  BY InitType
<1> QED
  BY <1>1, <1>2, <1>3, LinkCorrect, TriesPreserved, PTL DEF Spec

-----------------------------------------------------------------------------
(* The work of a task is begun once.                                       *)

\* A task that is still to go to the dispatcher.
Before == {"none", "queued", "resolving", "parked"}

\* What is still to go to the dispatcher has not been there, nor is it on its
\* way; and a stretch takes its task on from the state it left it in.
StartInv ==
  /\ \A t \in Tasks :
       /\ work[t] \in Before => starts[t] = 0 /\ t \notin starting
       /\ t \in starting => starts[t] = 0
       /\ starts[t] <= 1
  /\ At("peer", "resolve") => work[thread["peer"].task] = "queued"
  /\ At("peer", "ready") => work[thread["peer"].task] = "resolving"

\* The delivery passes and home change nothing of it, but a crash.
LEMMA LinkLeavesWork ==
  ASSUME LinkType, NEW n \in Node, Link(n)
  PROVE  /\ work' = work /\ starts' = starts /\ starting' \subseteq starting
         /\ \/ thread'["peer"] = thread["peer"]
            \/ thread'["peer"].at \in {"return", "boot", "skip", "record"}
<1>1. thread \in [Node -> StretchType]
  BY DEF LinkType, HereType
<1>2. work' = work
  BY DEF Link, Attempt, Lose, Acknowledged, DeliveryFailed, HoldBack, QueueSkip,
         EndPairing, GiveUpRevoked, Refuse, Record, Crash, ReceiveSkip, databases
<1>3. starts' = starts
  BY DEF Link, Attempt, Lose, Acknowledged, DeliveryFailed, HoldBack, QueueSkip,
         EndPairing, GiveUpRevoked, Refuse, Record, Crash, ReceiveSkip, counters
<1>4. starting' \subseteq starting
  BY DEF Link, Attempt, Lose, Acknowledged, DeliveryFailed, HoldBack, QueueSkip,
         EndPairing, GiveUpRevoked, Refuse, Record, Crash, ReceiveSkip, memory
<1>5. \/ thread' = thread
      \/ \E s : Go(n, s) /\ s.at \in {"return", "boot", "skip", "record"}
  <2>2. Idle.at = "return"
    BY DEF Idle, Stretch
  <2>3. CASE Crash(n)
    BY <2>3 DEF Crash, Stretch, Idle
  <2>4. CASE \E x \in wire[Other(n)] : ReceiveSkip(n, x)
    BY <2>4 DEF ReceiveSkip, Stretch
  <2>5. CASE Acknowledged(n)
    BY <2>5 DEF Acknowledged, Stretch
  <2>6. CASE DeliveryFailed(n)
    <3>1. \/ thread' = thread
          \/ Go(n, Stretch("skip", NoTask, "none", FALSE, 0))
      BY <2>6 DEF DeliveryFailed
    <3> QED
      BY <3>1 DEF Stretch
  <2>7. CASE QueueSkip(n) \/ Record(n)
    BY <2>2, <2>7 DEF QueueSkip, Record
  <2>8. CASE \/ Attempt(n) \/ Lose(n) \/ HoldBack(n) \/ EndPairing(n)
             \/ GiveUpRevoked(n) \/ Refuse(n)
    BY <2>8
    DEF Attempt, Lose, HoldBack, EndPairing, GiveUpRevoked, Refuse, memory
  <2> QED
    BY <2>3, <2>4, <2>5, <2>6, <2>7, <2>8 DEF Link
<1>6. \/ thread'["peer"] = thread["peer"]
      \/ thread'["peer"].at \in {"return", "boot", "skip", "record"}
  BY <1>1, <1>5 DEF Go, Node
<1> QED
  BY <1>2, <1>3, <1>4, <1>6

\* What a request that hands over, or stops, does to the task it is about.
LEMMA RequestTask ==
  ASSUME LinkType, NEW x \in wire["home"],
         ReceiveDelegate(x) \/ ReceiveCancel(x)
  PROVE  /\ x \in DOMAIN out["home"] /\ x # 0
         /\ out["home"][x].task \in Tasks
<1>1. x \in DOMAIN out["home"] /\ out["home"] \in Seq(Row)
  BY DEF LinkType, References, RowsType, Node
<1>2. out["home"][x].kind \in {"delegate", "cancel.request"}
  BY DEF ReceiveDelegate, ReceiveCancel, HandleKind, Other
<1> QED
  BY <1>1, <1>2, RowsAreRows DEF LinkType, References, Says, Node

\* Every action keeps StartInv.
LEMMA StartPreserved ==
  ASSUME LinkType, StartInv, [Next]_vars
  PROVE  StartInv'
<1>1. HereType /\ References
  BY DEF LinkType
<1>0. /\ thread \in [Node -> StretchType]
      /\ work \in [Tasks -> PeerState] /\ starts \in [Tasks -> Nat]
      /\ starting \subseteq Tasks
      /\ "peer" \in Node /\ "home" \in Node
      /\ At("peer", "resolve") \/ At("peer", "ready")
           => thread["peer"].task \in Tasks
  BY <1>1 DEF HereType, References, Intends, At, Node
<1> USE <1>0
<1> USE DEF StartInv, Before, At, Go, Stretch, Idle
<1>2. CASE UNCHANGED vars
  BY <1>2 DEF vars, databases, memory, counters
<1>3. CASE Home
  <2>1. work' = work /\ starts' = starts /\ starting' = starting
    BY <1>3
    DEF Home, databases, memory, counters, Notify, SettleLetter, HandOver,
        AskStop, ReceiveResult
  <2>2. thread'["peer"] = thread["peer"]
    BY <1>3
    DEF Home, databases, memory, counters, Notify, SettleLetter, HandOver,
        AskStop, ReceiveResult
  <2> QED
    BY <2>1, <2>2
<1>4. ASSUME NEW n \in Node, Link(n) PROVE StartInv'
  BY <1>4, LinkLeavesWork
<1>5. CASE Resolve
  BY <1>5 DEF Resolve, StretchType, counters
<1>6. CASE ReadyHere
  <2> DEFINE t == thread["peer"].task
  <2>1. t \in Tasks /\ work[t] = "resolving" /\ starts[t] = 0
    BY <1>6 DEF ReadyHere
  <2>2. /\ work' = [work EXCEPT ![t] = IF verdict[t] = "parks" THEN "parked"
                                                            ELSE "running"]
        /\ starting' = IF verdict[t] = "parks" THEN starting
                                               ELSE starting \cup {t}
        /\ starts' = starts
        /\ thread'["peer"].at = "record"
    BY <1>6 DEF ReadyHere, counters, StretchType
  <2> HIDE DEF t
  <2>3. /\ work'[t] \in Before => t \notin starting'
        /\ \A u \in Tasks \ {t} :
             work'[u] = work[u] /\ (u \in starting' <=> u \in starting)
    BY <2>1, <2>2
  <2> QED
    BY <2>1, <2>2, <2>3
<1>7. CASE Answer
  <2>1. AfterAnswer(thread["peer"]).at \in {"boot", "record", "return"}
    BY DEF AfterAnswer, StretchType
  <2> QED
    BY <1>7, <2>1 DEF Answer, counters
<1>8. CASE Boot
  <2>1. \A t \in Tasks : work'[t] = work[t] \/ work'[t] = "uncertain"
    BY <1>8 DEF Boot
  <2>2. thread'["peer"].at \in {"answer_boot", "return"}
    BY <1>8 DEF Boot
  <2>3. starts' = starts /\ starting' = starting
    BY <1>8 DEF Boot, counters
  <2> QED
    BY <2>1, <2>2, <2>3
<1>9. ASSUME NEW t \in Tasks, CapabilityReady(t) PROVE StartInv'
  <2>1. thread["peer"].at = "return"
    BY <1>9 DEF CapabilityReady, Ready
  <2> QED
    BY <1>9, <2>1 DEF CapabilityReady, Hold
<1>10. ASSUME NEW t \in Tasks, StartTask(t) PROVE StartInv'
  <2>1. thread["peer"].at = "return"
    BY <1>10 DEF StartTask, Ready
  <2>2. /\ work' = work /\ thread' = thread /\ starting' = starting \ {t}
        /\ starts' \in {starts, [starts EXCEPT ![t] = @ + 1]}
        /\ starts' # starts => work[t] = "running"
    BY <1>10 DEF StartTask, Hold, databases
  <2> QED
    BY <1>10, <2>1, <2>2 DEF StartTask
<1>11. ASSUME NEW t \in Tasks, WorkerEnds(t) PROVE StartInv'
  <2>1. PICK outcome \in Reports(work[t]) :
          /\ work' = [work EXCEPT ![t] = outcome]
          /\ thread' = [thread EXCEPT !["peer"] =
                          Stretch("answer", t, outcome, TRUE, 0)]
    BY <1>11 DEF WorkerEnds
  <2>2. outcome \notin Before
    BY DEF Reports
  <2> QED
    BY <1>11, <2>1, <2>2 DEF WorkerEnds, counters
<1>12. ASSUME NEW t \in Tasks, OwnerStops(t) PROVE StartInv'
  <2>1. AfterStop(t) \notin Before
    BY <1>12 DEF OwnerStops, AfterStop, Terminal
  <2>2. thread["peer"].at = "return"
    BY <1>12 DEF OwnerStops, Ready
  <2> QED
    BY <1>12, <2>1, <2>2 DEF OwnerStops, memory, counters
<1>13. ASSUME NEW x \in wire["home"], ReceiveDelegate(x) PROVE StartInv'
  <2> DEFINE t == out["home"][x].task
  <2>1. t \in Tasks
    BY <1>13, RequestTask
  <2>2. starts' = starts /\ starting' = starting
    BY <1>13 DEF ReceiveDelegate, counters
  <2> HIDE DEF t
  <2>3. \/ /\ work' = work /\ work[t] # "none"
           /\ Go("peer", Stretch(IF work[t] = "queued" THEN "resolve"
                                 ELSE "record", t, "none", FALSE, x))
        \/ work' = work /\ Go("peer", Stretch("answer", t, "failed", FALSE, x))
        \/ /\ work' = [work EXCEPT ![t] = "queued"] /\ work[t] = "none"
           /\ Go("peer", Stretch("resolve", t, "none", FALSE, x))
    BY <1>13 DEF ReceiveDelegate, Existing, t
  <2> QED
    BY <2>1, <2>2, <2>3
<1>14. ASSUME NEW x \in wire["home"], ReceiveCancel(x) PROVE StartInv'
  <2> DEFINE t == out["home"][x].task
  <2>1. t \in Tasks
    BY <1>14, RequestTask
  <2>2. starts' = starts /\ starting' = starting
    BY <1>14 DEF ReceiveCancel, counters
  <2> HIDE DEF t
  <2>3. /\ work' = [work EXCEPT ![t] = AfterStop(t)]
        /\ thread'["peer"].at \in {"answer", "record"}
    BY <1>14 DEF ReceiveCancel, t
  <2>4. AfterStop(t) = work[t] \/ AfterStop(t) \notin Before
    BY DEF AfterStop
  <2> QED
    BY <2>1, <2>2, <2>3, <2>4
<1> QED
  BY <1>2, <1>3, <1>4, <1>5, <1>6, <1>7, <1>8, <1>9, <1>10, <1>11, <1>12, <1>13,
     <1>14
  DEF Next, Peer

\* StartInv is an invariant of PeerDelegation.
LEMMA StartCorrect == Spec => []StartInv
<1>1. Init => StartInv
  BY DEF Init, StartInv, Before, At, Idle, Stretch, Node
<1> QED
  BY <1>1, LinkCorrect, StartPreserved, PTL DEF Spec

\* RunsOnce: however often a hand-over arrives, around whatever crash, its work
\* is begun once at most.
THEOREM RunsOnceHolds == Spec => []RunsOnce
<1>1. StartInv => RunsOnce
  BY DEF StartInv, RunsOnce
<1> QED
  BY <1>1, StartCorrect, PTL

-----------------------------------------------------------------------------
(* What is owed can still be taken.                                        *)

\* A stretch handles the request it handled before, one off the wire, or none.
LEMMA RowsHandled ==
  ASSUME LinkType, [Next]_vars, NEW n \in Node
  PROVE  \/ thread'[n].row \in {0, thread[n].row}
         \/ \E x \in wire[Other(n)] : Handle(n, x) /\ thread'[n].row = x
<1> DEFINE Handles(m) ==
      /\ \A o \in Node \ {m} : thread'[o] = thread[o]
      /\ \/ thread'[m].row \in {0, thread[m].row}
         \/ \E x \in wire[Other(m)] : Handle(m, x) /\ thread'[m].row = x
<1>1. thread \in [Node -> StretchType] /\ "home" \in Node /\ "peer" \in Node
  BY DEF LinkType, HereType, Node
<1>2. Other("home") = "peer" /\ Other("peer") = "home"
  BY DEF Other
<1>3. ASSUME Home PROVE thread' = thread \/ Handles("home")
  <2>1. ASSUME Notify PROVE Handles("home")
    BY <1>1, <2>1 DEF Notify, Go, Idle, Stretch
  <2>2. ASSUME SettleLetter \/ \E t \in Tasks : HandOver(t)
        PROVE  thread' = thread
    BY <2>2 DEF SettleLetter, HandOver, memory
  <2>3. ASSUME NEW t \in Tasks, AskStop(t) PROVE Handles("home")
    BY <1>1, <2>3 DEF AskStop, Go, Stretch
  <2>4. ASSUME NEW x \in wire["peer"], ReceiveResult(x) PROVE Handles("home")
    BY <1>1, <1>2, <2>4 DEF ReceiveResult, HandleKind, Go, Stretch
  <2> HIDE DEF Handles
  <2> QED
    BY <1>3, <2>1, <2>2, <2>3, <2>4 DEF Home
<1>4. ASSUME Peer PROVE thread' = thread \/ Handles("peer")
  <2>1. ASSUME Boot PROVE Handles("peer")
    BY <1>1, <2>1 DEF Boot, Go, Idle, Stretch
  <2>2. ASSUME NEW t \in Tasks, WorkerEnds(t) PROVE Handles("peer")
    BY <1>1, <2>2 DEF WorkerEnds, Go, Stretch
  <2>3. ASSUME NEW x \in wire["home"], ReceiveDelegate(x) PROVE Handles("peer")
    <3>1. PICK no \in BOOLEAN : no = FALSE
      OBVIOUS
    <3>2. \E at, t, o : Go("peer", Stretch(at, t, o, no, x))
      BY <2>3, <3>1 DEF ReceiveDelegate
    <3>3. PICK at, t, o : Go("peer", Stretch(at, t, o, no, x))
      BY <3>2
    <3>4. Handle("peer", x)
      BY <2>3 DEF ReceiveDelegate, HandleKind
    <3> QED
      BY <1>1, <1>2, <3>3, <3>4 DEF Go, Stretch
  <2>4. ASSUME NEW x \in wire["home"], ReceiveCancel(x) PROVE Handles("peer")
    BY <1>1, <1>2, <2>4 DEF ReceiveCancel, HandleKind, Go, Stretch
  <2>5. ASSUME NEW t \in Tasks,
               CapabilityReady(t) \/ StartTask(t) \/ OwnerStops(t)
        PROVE  thread' = thread
    BY <2>5 DEF CapabilityReady, StartTask, OwnerStops, memory
  <2>6. ASSUME Resolve \/ ReadyHere PROVE Handles("peer")
    BY <1>1, <2>6 DEF Resolve, ReadyHere, Go, StretchType
  <2>7. ASSUME Answer PROVE Handles("peer")
    BY <1>1, <2>7 DEF Answer, AfterAnswer, Go, Idle, Stretch, StretchType
  <2> HIDE DEF Handles
  <2> QED
    BY <1>4, <2>1, <2>2, <2>3, <2>4, <2>5, <2>6, <2>7 DEF Peer
<1>5. ASSUME NEW m \in Node, Link(m) PROVE thread' = thread \/ Handles(m)
  <2>1. ASSUME Crash(m) PROVE Handles(m)
    BY <1>1, <2>1 DEF Crash, Go, Idle, Stretch
  <2>2. ASSUME NEW x \in wire[Other(m)], ReceiveSkip(m, x) PROVE Handles(m)
    BY <1>1, <2>2 DEF ReceiveSkip, HandleKind, Go, Stretch
  <2>3. ASSUME Acknowledged(m) PROVE thread' = thread \/ Handles(m)
    BY <1>1, <2>3 DEF Acknowledged, Go, Stretch
  <2>4. ASSUME DeliveryFailed(m) PROVE thread' = thread \/ Handles(m)
    <3>1. \/ thread' = thread
          \/ Go(m, Stretch("skip", NoTask, "none", FALSE, 0))
      BY <2>4 DEF DeliveryFailed
    <3> QED
      BY <1>1, <3>1 DEF Go, Stretch
  <2>5. ASSUME QueueSkip(m) \/ Record(m) PROVE Handles(m)
    <3>1. Go(m, Idle)
      BY <2>5 DEF QueueSkip, Record
    <3> QED
      BY <1>1, <3>1 DEF Go, Idle, Stretch
  <2>6. ASSUME \/ Attempt(m) \/ Lose(m) \/ HoldBack(m) \/ EndPairing(m)
               \/ GiveUpRevoked(m) \/ Refuse(m)
        PROVE  thread' = thread
    BY <2>6
    DEF Attempt, Lose, HoldBack, EndPairing, GiveUpRevoked, Refuse, memory
  <2> HIDE DEF Handles
  <2> QED
    BY <1>5, <2>1, <2>2, <2>3, <2>4, <2>5, <2>6 DEF Link
<1>6. ASSUME NEW m \in Node, Handles(m)
      PROVE  \/ thread'[n].row \in {0, thread[n].row}
             \/ \E x \in wire[Other(n)] : Handle(n, x) /\ thread'[n].row = x
  BY <1>6
<1>7. CASE UNCHANGED vars
  BY <1>7 DEF vars, memory
<1>8. CASE thread' = thread
  BY <1>8
<1> HIDE DEF Handles
<1> QED
  BY <1>1, <1>3, <1>4, <1>5, <1>6, <1>7, <1>8 DEF Next

\* A failed attempt sends nothing.
LEMMA FailureSendsNothing ==
  ASSUME RowsType, NEW n \in Node, DeliveryFailed(n)
  PROVE  \A r \in DOMAIN out[n] : out'[n][r].sent => out[n][r].sent
<1>1. PICK back \in SUBSET (Owed(out[n]) \ {sending[n]}) :
        /\ sending[n] \in Owed(out[n])
        /\ Marked(out[n], out'[n])
        /\ out'[n][sending[n]].sent => out[n][sending[n]].sent
        /\ \A r \in DOMAIN out[n] \ {sending[n]} :
             out'[n][r] = IF r \in back THEN HeldBack(out[n][r])
                                        ELSE out[n][r]
  BY FailureMarks
<1>2. \A r \in DOMAIN out[n] : HeldBack(out[n][r]).sent = out[n][r].sent
  BY RowsAreRows DEF RowsType, Row, Failed, HeldBack
<1> QED
  BY <1>1, <1>2

\* Only an attempt sends a row, the lowest that is owed.
LEMMA SentStep ==
  ASSUME LinkType, [Next]_vars, NEW n \in Node, NEW r \in DOMAIN out[n],
         out'[n][r].sent
  PROVE  out[n][r].sent \/ IsHead(out[n], r)
<1>1. RowsType /\ HereType /\ References
  BY DEF LinkType
<1>2. \A m \in Node : \A o \in DOMAIN out[m] : out[m][o] \in Row
  BY <1>1, RowsAreRows DEF RowsType
<1>3. \A row \in Row : Failed(row).sent = row.sent /\ HeldBack(row).sent = row.sent
  BY DEF Row, Failed, HeldBack
<1>4. CASE out'[n] = out[n]
  BY <1>4
<1>5. CASE \E m \in Node : Marks(m)
  <2>1. PICK m \in Node : Marks(m)
    BY <1>5
  <2>2. /\ out' = [out EXCEPT ![m] = out'[m]]
    BY <1>1, <2>1, AttemptMarks, AcknowledgedMarks, FailureMarks, HoldBackMarks,
       GiveUpMarks DEF Marks
  <2>3. m # n => out'[n] = out[n]
    BY <1>1, <2>2 DEF RowsType
  <2>4. CASE Attempt(m)
    <3>1. PICK o \in Owed(out[m]) :
            /\ IsHead(out[m], o)
            /\ \A x \in DOMAIN out[m] \ {o} : out'[m][x] = out[m][x]
      BY <1>1, <2>4, AttemptMarks
    <3> QED
      BY <2>3, <3>1
  <2>5. CASE Acknowledged(m)
    <3>1. /\ out' = [out EXCEPT ![m][sending[m]].state = "acked"]
          /\ sending[m] \in Owed(out[m])
          /\ \A o \in DOMAIN out[m] \ {sending[m]} : out'[m][o] = out[m][o]
      BY <1>1, <2>5, AcknowledgedMarks DEF Acknowledged
    <3>2. out'[m][sending[m]] = [out[m][sending[m]] EXCEPT !.state = "acked"]
      BY <1>1, <3>1 DEF RowsType, Owed
    <3>3. out'[m][sending[m]].sent = out[m][sending[m]].sent
      BY <1>2, <3>1, <3>2 DEF Owed, Row
    <3> QED
      BY <2>3, <3>1, <3>3
  <2>6. CASE DeliveryFailed(m)
    BY <1>1, <2>3, <2>6, FailureSendsNothing
  <2>7. CASE HoldBack(m)
    <3>1. PICK back \in SUBSET Owed(out[m]) :
            \A o \in DOMAIN out[m] :
              out'[m][o] = IF o \in back THEN HeldBack(out[m][o]) ELSE out[m][o]
      BY <1>1, <2>7, HoldBackMarks
    <3> QED
      BY <1>2, <1>3, <2>3, <3>1
  <2>8. CASE GiveUpRevoked(m)
    <3>1. PICK o \in Owed(out[m]) : out' = [out EXCEPT ![m][o].state = "dead"]
      BY <2>8 DEF GiveUpRevoked
    <3>2. out'[m] = [out[m] EXCEPT ![o] = [out[m][o] EXCEPT !.state = "dead"]]
      BY <1>1, <3>1 DEF RowsType, Owed
    <3>3. o \in DOMAIN out[m] /\ out[m][o] \in Row
      BY <1>2, <3>1 DEF Owed
    <3>4. \A x \in DOMAIN out[m] : out'[m][x].sent = out[m][x].sent
      BY <1>2, <3>2, <3>3 DEF Row
    <3> QED
      BY <2>3, <3>4
  <2> QED
    BY <2>1, <2>4, <2>5, <2>6, <2>7, <2>8 DEF Marks
<1>6. ASSUME NEW m \in Node, NEW e, NEW k, Added(out[m], out'[m], k, e),
             \A o \in Node \ {m} : out'[o] = out[o]
      PROVE  out[n][r].sent
  BY <1>6 DEF Added
<1>7. CASE Sends /\ UNCHANGED <<sending, crashes>>
  BY <1>6, <1>7, SendsAdd
<1>8. ASSUME NEW m \in Node, QueueSkip(m) PROVE out[n][r].sent
  <2>1. \/ out' = out
        \/ \E e, k : /\ Added(out[m], out'[m], k, e)
                     /\ \A o \in Node \ {m} : out'[o] = out[o]
    BY <1>1, <1>8, SkipKeepsRows
  <2> QED
    BY <1>6, <2>1
<1>9. ASSUME NEW m \in Node, Crash(m) PROVE out'[n] = out[n]
  BY <1>9 DEF Crash, databases
<1> QED
  BY <1>4, <1>5, <1>7, <1>8, <1>9, OutCases

\* What two messages of one outbox have apart; and what was sent, or skips, is
\* before every message still owed.
Ordered(rows) ==
  /\ \A r \in DOMAIN rows : \A o \in DOMAIN rows :
       rows[r].kind # "skip" /\ rows[o].kind # "skip" /\ r # o
         => rows[r].seq # rows[o].seq
  /\ \A o \in Owed(rows) : \A r \in DOMAIN rows :
       /\ rows[o].kind # "skip"
       /\ r # o
       /\ rows[r].sent \/ rows[r].kind = "skip"
       => rows[r].seq < rows[o].seq

\* What is on its way, or handled, was sent.
SentInv ==
  \A n \in Node :
    /\ \A r \in wire[n] : out[n][r].sent
    /\ thread[Other(n)].row # 0 => out[n][thread[Other(n)].row].sent

\* OwedIsDeliverable, of the messages one node owes.
Deliverable(n) ==
  \A r \in Owed(out[n]) :
    out[n][r].kind # "skip" =>
      r \in seen[Other(n)] \/ out[n][r].seq > cursor[Other(n)]

OwedInv ==
  /\ \A n \in Node : Ordered(out[n])
  /\ SentInv
  /\ \A n \in Node : Deliverable(n)

\* Every action keeps the order of an outbox.
LEMMA OrderedPreserved ==
  ASSUME LinkType, [Next]_vars, NEW n \in Node, Ordered(out[n])
  PROVE  Ordered(out'[n])
<1> DEFINE rows == out[n]
           new == out'[n]
<1>1. \A r \in DOMAIN rows : rows[r] \in Row /\ rows[r].seq \in Nat
  <2>1. \A r \in DOMAIN rows : rows[r] \in Row
    BY RowsAreRows DEF LinkType, RowsType
  <2> QED
    BY <2>1 DEF Row
<1>2. OutStep(rows, new)
  BY RowsPreserved
<1>3. \A r \in DOMAIN rows : new[r].sent => rows[r].sent \/ IsHead(rows, r)
  BY SentStep
<1> HIDE DEF rows, new
<1>4. Ordered(rows)
  BY DEF rows
<1>5. ASSUME Marked(rows, new) PROVE Ordered(new)
  <2>1. /\ DOMAIN new = DOMAIN rows
        /\ Owed(new) \subseteq Owed(rows)
        /\ \A r \in DOMAIN rows :
             new[r].kind = rows[r].kind /\ new[r].seq = rows[r].seq
    BY <1>5 DEF Marked, Owed
  <2>2. ASSUME NEW o \in Owed(new), NEW r \in DOMAIN new,
               new[o].kind # "skip", r # o,
               new[r].sent \/ new[r].kind = "skip"
        PROVE  new[r].seq < new[o].seq
    <3>1. o \in Owed(rows) /\ o \in DOMAIN rows /\ r \in DOMAIN rows
      BY <2>1, <2>2 DEF Owed
    <3>2. CASE rows[r].sent \/ rows[r].kind = "skip"
      BY <1>4, <2>1, <2>2, <3>1, <3>2 DEF Ordered
    <3>3. CASE IsHead(rows, r) /\ rows[r].kind # "skip"
      <4>1. rows[r].seq <= rows[o].seq
        BY <3>1, <3>3 DEF IsHead
      <4>2. rows[r].seq # rows[o].seq
        BY <1>4, <2>1, <2>2, <3>1, <3>3 DEF Ordered
      <4> QED
        BY <1>1, <2>1, <3>1, <4>1, <4>2
    <3> QED
      BY <1>3, <2>1, <2>2, <3>1, <3>2, <3>3
  <2>3. \A r \in DOMAIN new : \A o \in DOMAIN new :
          new[r].kind # "skip" /\ new[o].kind # "skip" /\ r # o
            => new[r].seq # new[o].seq
    BY <1>4, <2>1 DEF Ordered
  <2>4. \A o \in Owed(new) : \A r \in DOMAIN new :
          /\ new[o].kind # "skip"
          /\ r # o
          /\ new[r].sent \/ new[r].kind = "skip"
          => new[r].seq < new[o].seq
    BY <2>2
  <2> QED
    BY <2>3, <2>4 DEF Ordered
<1>6. ASSUME NEW e \in Row, NEW k, Added(rows, new, k, e), e.state = "owed",
             ~ e.sent, Message(rows, e) \/ Skip(rows, e)
      PROVE  Ordered(new)
  <2>1. /\ DOMAIN new = DOMAIN rows \cup {k}
        /\ k \notin DOMAIN rows
        /\ new[k] = e
        /\ \A r \in DOMAIN rows : new[r] = rows[r]
    BY <1>6 DEF Added
  <2>2. Owed(new) = Owed(rows) \cup {k}
    BY <1>6, <2>1 DEF Owed
  <2>3. CASE Message(rows, e)
    <3>1. /\ e.kind # "skip" /\ ~ e.sent
          /\ \A r \in DOMAIN rows : rows[r].seq < e.seq
      BY <1>6, <2>3 DEF Message
    <3>2. e.seq \in Nat
      BY <1>6 DEF Row
    <3>3. \A o \in Owed(rows) : o \in DOMAIN rows
      BY DEF Owed
    <3> QED
      BY <1>1, <1>4, <2>1, <2>2, <3>1, <3>2, <3>3 DEF Ordered
  <2>4. CASE Skip(rows, e)
    <3>1. /\ e.kind = "skip"
          /\ \A o \in Owed(rows) : e.seq < rows[o].seq
      BY <2>4 DEF Skip, Skippable, GapsLeft
    <3>2. \A o \in Owed(rows) : o \in DOMAIN rows
      BY DEF Owed
    <3> QED
      BY <1>1, <1>4, <2>1, <2>2, <3>1, <3>2 DEF Ordered
  <2> QED
    BY <1>6, <2>3, <2>4
<1>7. Ordered(new)
  <2>1. CASE ~ Marked(rows, new)
    <3>1. PICK e, k :
            /\ e \in Row
            /\ Added(rows, new, k, e)
            /\ e.state = "owed" /\ ~ e.sent
            /\ Message(rows, e) \/ Skip(rows, e)
      BY <1>2, <2>1 DEF OutStep
    <3> QED
      BY <1>6, <3>1
  <2> QED
    BY <1>5, <2>1
<1> QED
  BY <1>7 DEF new

\* Every action keeps what is on its way, or handled, among what was sent.
LEMMA SentPreserved ==
  ASSUME LinkType, [Next]_vars, SentInv
  PROVE  SentInv'
<1>1. ASSUME NEW n \in Node, NEW r \in DOMAIN out[n], out[n][r].sent
      PROVE  out'[n][r].sent
  <2>1. Grown(out[n], out'[n])
    BY RowsPreserved, OutStepGrows
  <2> QED
    BY <1>1, <2>1 DEF Grown
<1>2. \A n \in Node : /\ Other(n) \in Node /\ Other(Other(n)) = n
                      /\ wire[n] \subseteq DOMAIN out[n]
                      /\ thread[Other(n)].row \in {0} \cup DOMAIN out[n]
  BY DEF LinkType, References, Node, Other
<1>3. ASSUME NEW n \in Node, NEW r \in wire'[n]
      PROVE  out'[n][r].sent
  <2>1. CASE r \in wire[n]
    BY <1>1, <1>2, <2>1 DEF SentInv
  <2>2. CASE Attempt(n) /\ r \notin wire[n]
    <3>1. PICK o \in Owed(out[n]) : /\ wire' = [wire EXCEPT ![n] = @ \cup {o}]
                                    /\ out'[n][o].sent
      BY <2>2, AttemptMarks DEF LinkType
    <3>2. wire'[n] = wire[n] \cup {o}
      BY <3>1 DEF LinkType, HereType
    <3> QED
      BY <1>3, <2>2, <3>1, <3>2
  <2> QED
    BY <1>3, <2>1, <2>2, WireStep
<1>4. ASSUME NEW n \in Node, thread'[Other(n)].row # 0
      PROVE  out'[n][thread'[Other(n)].row].sent
  <2>1. thread'[Other(n)].row \in {thread[Other(n)].row} \cup wire[n]
    BY <1>2, <1>4, RowsHandled
  <2> QED
    BY <1>1, <1>2, <1>4, <2>1 DEF SentInv
<1> QED
  BY <1>3, <1>4 DEF SentInv

\* Only a recorded request moves a cursor: to it, once it is in the inbox.
LEMMA CursorStep ==
  ASSUME LinkType, [Next]_vars, NEW n \in Node
  PROVE  \/ cursor'[n] = cursor[n] /\ seen'[n] = seen[n]
         \/ /\ Record(n)
            /\ out' = out
            /\ thread[n].row # 0
            /\ cursor'[n] = out[Other(n)][thread[n].row].seq
            /\ seen'[n] = seen[n] \cup {thread[n].row}
<1> DEFINE P == \/ cursor'[n] = cursor[n] /\ seen'[n] = seen[n]
                \/ /\ Record(n)
                   /\ out' = out
                   /\ thread[n].row # 0
                   /\ cursor'[n] = out[Other(n)][thread[n].row].seq
                   /\ seen'[n] = seen[n] \cup {thread[n].row}
<1>1. ASSUME UNCHANGED <<seen, cursor>> PROVE P
  BY <1>1
<1>2. ASSUME NEW m \in Node, Record(m) PROVE P
  <2>1. /\ out' = out
        /\ seen' = [seen EXCEPT ![m] = @ \cup {thread[m].row}]
        /\ cursor' = [cursor EXCEPT ![m] = out[Other(m)][thread[m].row].seq]
    BY <1>2 DEF Record
  <2>2. thread[m].row # 0
    BY <1>2 DEF Record, At, LinkType, References, Intends
  <2>3. seen \in [Node -> SUBSET Nat] /\ cursor \in [Node -> Nat]
    BY DEF LinkType, HereType
  <2> QED
    BY <1>2, <2>1, <2>2, <2>3
<1> HIDE DEF P
<1>3. ASSUME Home PROVE UNCHANGED <<seen, cursor>>
  BY <1>3
  DEF Home, databases, Notify, SettleLetter, HandOver, AskStop, ReceiveResult
<1>4. ASSUME Peer PROVE UNCHANGED <<seen, cursor>>
  BY <1>4
  DEF Peer, databases, Resolve, ReadyHere, Answer, Boot, CapabilityReady,
      StartTask, WorkerEnds, OwnerStops, ReceiveDelegate, ReceiveCancel
<1>5. ASSUME NEW m \in Node, Link(m), ~ Record(m)
      PROVE  UNCHANGED <<seen, cursor>>
  BY <1>5
  DEF Link, databases, Attempt, Lose, Acknowledged, DeliveryFailed, HoldBack,
      QueueSkip, EndPairing, GiveUpRevoked, Refuse, ReceiveSkip, Crash
<1>6. ASSUME UNCHANGED vars PROVE UNCHANGED <<seen, cursor>>
  BY <1>6 DEF vars, databases
<1>7. P
  BY <1>1, <1>2, <1>3, <1>4, <1>5, <1>6 DEF Next
<1> QED
  BY <1>7 DEF P

\* Every action keeps what is owed where it can be taken.
LEMMA DeliverablePreserved ==
  ASSUME LinkType, [Next]_vars, OwedInv, NEW n \in Node
  PROVE  Deliverable(n)'
<1> DEFINE m == Other(n)
<1>1. /\ m \in Node /\ Other(m) = n
      /\ cursor[m] \in {0} \cup Sequences(out[n])
      /\ thread[m].row \in {0} \cup DOMAIN out[n]
  BY DEF LinkType, References, Node, Other
<1>2. \A r \in DOMAIN out[n] : out[n][r].seq \in Nat \ {0}
  BY RowsAreRows DEF LinkType, RowsType, Row
<1>3. /\ Ordered(out[n]) /\ Deliverable(n)
      /\ thread[m].row # 0 => out[n][thread[m].row].sent
  BY DEF OwedInv, SentInv
<1>4. OutStep(out[n], out'[n])
  BY RowsPreserved
<1>5. \/ cursor'[m] = cursor[m] /\ seen'[m] = seen[m]
      \/ /\ out' = out
         /\ thread[m].row # 0
         /\ cursor'[m] = out[n][thread[m].row].seq
         /\ seen'[m] = seen[m] \cup {thread[m].row}
  BY <1>1, CursorStep
<1> HIDE DEF m
<1> SUFFICES ASSUME NEW o \in Owed(out'[n]), out'[n][o].kind # "skip"
             PROVE  o \in seen'[m] \/ out'[n][o].seq > cursor'[m]
  BY DEF Deliverable, m
<1>6. CASE o \in DOMAIN out[n]
  <2>1. /\ o \in Owed(out[n])
        /\ out[n][o].kind # "skip"
        /\ out'[n][o].seq = out[n][o].seq
    <3>1. Grown(out[n], out'[n])
      BY <1>4, OutStepGrows
    <3> QED
      BY <1>6, <3>1 DEF Grown, Owed
  <2>2. o \in seen[m] \/ out[n][o].seq > cursor[m]
    BY <1>3, <2>1 DEF Deliverable, m
  <2>3. CASE cursor'[m] = cursor[m] /\ seen'[m] = seen[m]
    BY <2>1, <2>2, <2>3
  <2>4. ASSUME thread[m].row # 0, thread[m].row # o
        PROVE  out[n][thread[m].row].seq < out[n][o].seq
    BY <1>1, <1>3, <2>1, <2>4 DEF Ordered
  <2> QED
    BY <1>1, <1>2, <1>5, <1>6, <2>1, <2>3, <2>4
<1>7. CASE o \notin DOMAIN out[n]
  <2>1. PICK e, k : /\ e \in Row
                    /\ Added(out[n], out'[n], k, e)
                    /\ Message(out[n], e) \/ Skip(out[n], e)
    BY <1>4, <1>7 DEF OutStep, Marked, Owed
  <2>2. o = k /\ out'[n][o] = e /\ out' # out
    BY <1>7, <2>1 DEF Added, Owed
  <2>3. \A r \in DOMAIN out[n] : out[n][r].seq < e.seq
    BY <2>1, <2>2 DEF Message, Skip
  <2>4. cursor'[m] = cursor[m]
    BY <1>5, <2>2
  <2>5. e.seq \in Nat \ {0}
    BY <2>1 DEF Row
  <2> QED
    BY <1>1, <1>2, <2>2, <2>3, <2>4, <2>5 DEF Sequences
<1> QED
  BY <1>6, <1>7

\* OwedInv is an invariant of PeerDelegation.
LEMMA OwedCorrect == Spec => []OwedInv
<1>1. Init => OwedInv
  <2> SUFFICES ASSUME Init PROVE OwedInv
    OBVIOUS
  <2>1. \A n \in Node : Owed(out[n]) = {} /\ \A r \in DOMAIN out[n] : r = 1
    <3> DEFINE first ==
          [Envelope("pair.confirm", NoTask, "none", FALSE, 1, {})
             EXCEPT !.state = "acked", !.tries = 1, !.sent = TRUE]
    <3>1. first.state = "acked"
      BY DEF Envelope
    <3> HIDE DEF first
    <3>4. out["peer"] = << >> /\ out["home"] = <<first>>
      BY DEF Init, Node, first
    <3>2. DOMAIN out["home"] = {1} /\ out["home"][1].state = "acked"
      BY <3>1, <3>4
    <3>3. DOMAIN out["peer"] = {}
      BY <3>4
    <3> QED
      BY <3>2, <3>3 DEF Node, Owed
  <2>2. \A n \in Node : Ordered(out[n]) /\ Deliverable(n)
    BY <2>1 DEF Ordered, Deliverable
  <2>3. SentInv
    BY DEF Init, SentInv, Node, Other, Idle, Stretch
  <2> QED
    BY <2>2, <2>3 DEF OwedInv
<1>2. LinkType /\ OwedInv /\ [Next]_vars => OwedInv'
  <2> SUFFICES ASSUME LinkType, OwedInv, [Next]_vars PROVE OwedInv'
    OBVIOUS
  <2>1. \A n \in Node : Ordered(out'[n])
    BY OrderedPreserved DEF OwedInv
  <2>2. SentInv'
    BY SentPreserved DEF OwedInv
  <2>3. \A n \in Node : Deliverable(n)'
    BY DeliverablePreserved
  <2> QED
    BY <2>1, <2>2, <2>3 DEF OwedInv
<1> QED
  BY <1>1, <1>2, LinkCorrect, PTL DEF Spec

\* OwedIsDeliverable: what a node still owes is after the cursor of the other
\* or in its inbox, and no skip has jumped over it.
THEOREM OwedIsDeliverableHolds == Spec => []OwedIsDeliverable
<1>1. OwedInv => OwedIsDeliverable
  BY DEF OwedInv, Deliverable, OwedIsDeliverable
<1> QED
  BY <1>1, OwedCorrect, PTL
=============================================================================
