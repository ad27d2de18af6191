--------------------------- MODULE RecordsProofs ---------------------------
(***************************************************************************)
(* The audit chain and imports, for any number of rows, writers, requests, *)
(* files and faults.                                                       *)
(***************************************************************************)
EXTENDS AuditChain, Imports, TLAPS

(***************************************************************************)
(* The audit chain.                                                        *)
(***************************************************************************)

RowType == [seq: Nat \ {0}, prev: Int]
WriterPlace == {"idle", "nextval", "lock", "insert"}
WriterType == [Writer -> [at: WriterPlace, prev: Int, seqs: Seq(Nat), count: Nat]]
VerifierType ==
    [at: {"idle", "fetch", "rows", "lastRows"}, todo: Seq(RowType), lastSeq: Nat, prevRowHash: Nat, prevSeq: Nat]

\* The table, its sequence, the writers and the verifier.
AuditTypeOK ==
    /\ rows \subseteq RowType /\ lastSeq \in Nat
    /\ writer \in WriterType
    /\ verifier \in VerifierType
    /\ verifier.at \in {"rows", "lastRows"} => verifier.todo # << >>
    /\ violations \in Seq([seq: Nat, type: {"deleted_row", "prev_hash_mismatch", "row_hash_mismatch"}])
    /\ \A w \in Writer : \A i \in DOMAIN writer[w].seqs : writer[w].seqs[i] > 0

\* The condition of SerialChainVerifies.
Serial == ~appendsOverlapped /\ ~purged /\ \A r \in rows : r.prev # Genesis

\* n is the last seq, or Null.
Tops(n) == (rows = {} /\ n = Null) \/ \E q \in rows : q.seq = n /\ \A r \in rows : r.seq <= n

\* The prev_hash of row r is the row_hash of the row before it.
Linked(r) ==
    \/ r.prev = Null /\ \A q \in rows : q.seq >= r.seq
    \/ \E q \in rows : q.seq = r.prev /\ q.seq < r.seq /\ \A p \in rows : p.seq < r.seq => p.seq <= q.seq

\* Every row has a seq of its own and links to the row before it.
Chain ==
    /\ \E n \in Nat : Tops(n)
    /\ \A r \in rows : r.seq <= lastSeq /\ Linked(r) /\ \A q \in rows : q.seq = r.seq => q = r

Ascending(s) == \A i, j \in DOMAIN s : i < j => s[i] < s[j]

\* What holds of the statement that is open: it is the only one, so that its
\* snapshot is the table, and it draws values behind all rows.
Statement(w) ==
    writer[w].at # "idle" =>
        /\ \A v \in Writer : writer[v].at # "idle" => v = w
        /\ Tops(writer[w].prev) \/ writer[w].prev = Genesis
        /\ Ascending(writer[w].seqs)
        /\ \A i \in DOMAIN writer[w].seqs :
              writer[w].seqs[i] <= lastSeq /\ \A r \in rows : r.seq < writer[w].seqs[i]

\* The verifier has walked to a row, or to none, and its batch leaves no row
\* out.
Walk(v) ==
    /\ v.prevRowHash = v.lastSeq
    /\ v.lastSeq = 0 \/ \E q \in rows : q.seq = v.lastSeq
    /\ \A i \in DOMAIN v.todo :
          /\ v.todo[i] \in rows /\ v.todo[i].seq > v.lastSeq
          /\ \A j \in DOMAIN v.todo : i < j => v.todo[i].seq < v.todo[j].seq
          /\ \A r \in rows : v.lastSeq < r.seq /\ r.seq < v.todo[i].seq => \E j \in DOMAIN v.todo : v.todo[j] = r

\* No broken link is reported.
Clean(s) == \A i \in DOMAIN s : s[i].type # "prev_hash_mismatch"

\* The inductive invariant, as long as the statements are serial.
AuditInv ==
    Serial => AuditTypeOK /\ Chain /\ (\A w \in Writer : Statement(w)) /\ Walk(verifier) /\ Clean(violations)

\* What append() reads is the last row.
LEMMA LatestTops == ASSUME AuditTypeOK, \E n \in Nat : Tops(n) PROVE Tops(latest) /\ latest \in Nat
<1>1. CASE rows = {}
    BY <1>1, Zenon DEF latest, Tops, Null
<1>2. CASE rows # {}
    <2>1. PICK q \in rows : \A r \in rows : r.seq <= q.seq
        BY <1>2, Zenon DEF Tops
    <2>2. q.seq \in {r.seq : r \in rows}
        BY Zenon
    <2>3. latest \in {r.seq : r \in rows} /\ \A r \in rows : r.seq <= latest
        BY <1>2, <2>1, <2>2, Zenon DEF latest
    <2>4. PICK p \in rows : p.seq = latest
        BY <2>3, Zenon
    <2>5. p.seq \in Nat
        BY <2>4, Zenon DEF AuditTypeOK, RowType
    <2> QED BY <2>3, <2>4, <2>5, Zenon DEF Tops
<1> QED BY <1>1, <1>2, Zenon

\* The order in which ChainLinked looks for the row before.
LEMMA LinkedIsBefore == ASSUME AuditTypeOK, NEW r \in rows, Linked(r) PROVE r.prev = before(r)
<1> DEFINE earlier == {q.seq : q \in {q \in rows : q.seq < r.seq}}
<1>0. before(r) = IF earlier = {} THEN Null ELSE CHOOSE n \in earlier : \A m \in earlier : m <= n
    BY Zenon DEF before
<1>1. CASE r.prev = Null /\ \A q \in rows : q.seq >= r.seq
    <2>1. \A q \in rows : ~(q.seq < r.seq)
        BY <1>1 DEF AuditTypeOK, RowType
    <2>2. earlier = {}
        BY <2>1, Zenon
    <2> QED BY <1>0, <1>1, <2>2, Zenon
<1>2. ASSUME NEW q \in rows, q.seq = r.prev, q.seq < r.seq, \A p \in rows : p.seq < r.seq => p.seq <= q.seq
      PROVE  r.prev = before(r)
    <2>1. q.seq \in earlier /\ \A m \in earlier : m <= q.seq
        BY <1>2, Zenon
    <2>2. \A m \in earlier : m \in Nat
        BY Zenon DEF AuditTypeOK, RowType
    <2> HIDE DEF earlier
    <2>3. before(r) \in earlier /\ \A m \in earlier : m <= before(r)
        BY <1>0, <2>1, Zenon
    <2>4. before(r) <= q.seq /\ q.seq <= before(r) /\ before(r) \in Nat /\ q.seq \in Nat
        BY <2>1, <2>2, <2>3, Zenon
    <2> QED BY <1>2, <2>4
<1> QED BY <1>1, <1>2, Zenon DEF Linked

\* What holds of a step that leaves the table alone.
LEMMA RowsStay ==
    ASSUME UNCHANGED <<rows, lastSeq>>
    PROVE  /\ Chain' <=> Chain
           /\ \A w \in Writer : writer' = writer => (Statement(w)' <=> Statement(w))
           /\ verifier' = verifier => (Walk(verifier)' <=> Walk(verifier))
<1>1. Chain' <=> Chain
    BY Zenon DEF Tops, Chain, Linked
<1>2. ASSUME NEW w \in Writer, writer' = writer PROVE Statement(w)' <=> Statement(w)
    BY <1>2, Zenon DEF Statement, Tops
<1>3. ASSUME verifier' = verifier PROVE Walk(verifier)' <=> Walk(verifier)
    BY <1>3 DEF Walk
<1> QED BY <1>1, <1>2, <1>3, Zenon

\* A statement that ends, or that begins alone, leaves no other one open.
LEMMA BeginInv == ASSUME AuditInv, NEW w \in Writer, NEW count \in 1..2, begin(w, count) PROVE AuditInv'
<1> SUFFICES ASSUME Serial' PROVE AuditInv'
    BY Zenon DEF AuditInv
<1>1. /\ UNCHANGED <<rows, lastSeq, verifier, violations, purged>>
      /\ writer' = [writer EXCEPT ![w] = [at |-> "nextval", prev |-> firstPrev(count), seqs |-> << >>, count |-> count]]
      /\ ~appendsOverlapped' => ~appendsOverlapped /\ \A v \in Writer : writer[v].at = "idle"
    BY Zenon DEF begin
<1>2. Serial /\ \A v \in Writer : writer[v].at = "idle"
    BY <1>1, Zenon DEF Serial
<1>3. AuditTypeOK /\ Chain /\ Walk(verifier) /\ Clean(violations)
    BY <1>2, Zenon DEF AuditInv
<1>4. firstPrev(count) \in Int /\ (Tops(firstPrev(count)) \/ firstPrev(count) = Genesis)
    BY <1>3, LatestTops DEF firstPrev, Genesis, Chain
<1>5. /\ writer' \in WriterType /\ writer'[w].prev = firstPrev(count) /\ writer'[w].seqs = << >>
      /\ \A v \in Writer \ {w} : writer'[v] = writer[v]
    BY <1>1, <1>3, <1>4 DEF AuditTypeOK, WriterType, WriterPlace
<1>6. AuditTypeOK'
    BY <1>1, <1>3, <1>5 DEF AuditTypeOK
<1>7. ASSUME NEW v \in Writer PROVE Statement(v)'
    <2>1. CASE v = w
        <3>1. Tops(writer[w].prev)' \/ writer'[w].prev = Genesis
            BY <1>1, <1>4, <1>5, Zenon DEF Tops
        <3>2. DOMAIN writer'[w].seqs = {}
            BY <1>5
        <3>3. \A u \in Writer : writer'[u].at # "idle" => u = w
            BY <1>2, <1>5, Zenon
        <3> QED BY <2>1, <3>1, <3>2, <3>3, Zenon DEF Statement, Ascending
    <2>2. CASE v # w
        BY <1>2, <1>5, <2>2, Zenon DEF Statement
    <2> QED BY <2>1, <2>2, Zenon
<1> QED BY <1>1, <1>3, <1>6, <1>7, RowsStay, Zenon DEF AuditInv, Clean

LEMMA SeqsUpdate ==
    ASSUME writer \in WriterType, NEW w \in Writer, NEW s \in Seq(Nat), NEW p \in WriterPlace,
           writer' = [writer EXCEPT ![w].seqs = s, ![w].at = p]
    PROVE  /\ writer' \in WriterType /\ writer'[w].seqs = s /\ writer'[w].at = p /\ writer'[w].prev = writer[w].prev
           /\ \A v \in Writer \ {w} : writer'[v] = writer[v]
BY Zenon DEF WriterType

\* A value is drawn behind those that were drawn.
LEMMA DrawnBehind ==
    ASSUME NEW s \in Seq(Nat), NEW m \in Nat, Ascending(s), \A i \in DOMAIN s : s[i] > 0 /\ s[i] <= m
    PROVE  /\ Append(s, m + 1) \in Seq(Nat) /\ Ascending(Append(s, m + 1))
           /\ \A i \in DOMAIN Append(s, m + 1) :
                 /\ Append(s, m + 1)[i] > 0 /\ Append(s, m + 1)[i] <= m + 1
                 /\ Append(s, m + 1)[i] = m + 1 \/ (i \in DOMAIN s /\ Append(s, m + 1)[i] = s[i])
<1> DEFINE t == Append(s, m + 1)
<1>1. /\ DOMAIN t = 1..(Len(s) + 1) /\ t[Len(s) + 1] = m + 1 /\ Len(s) \in Nat /\ DOMAIN s = 1..Len(s)
      /\ \A i \in DOMAIN s : t[i] = s[i] /\ s[i] \in Nat
      /\ t \in Seq(Nat)
    OBVIOUS
<1> HIDE DEF t
<1>2. ASSUME NEW i \in DOMAIN t PROVE (t[i] = m + 1 /\ i = Len(s) + 1) \/ (i \in DOMAIN s /\ t[i] = s[i])
    BY <1>1
<1>3. \A i \in DOMAIN t : t[i] > 0 /\ t[i] <= m + 1
    BY <1>1, <1>2
<1>4. ASSUME NEW i \in DOMAIN t, NEW j \in DOMAIN t, i < j PROVE t[i] < t[j]
    <2>1. i \in DOMAIN s /\ t[i] = s[i]
        BY <1>1, <1>4
    <2>2. CASE j \in DOMAIN s
        BY <1>1, <1>4, <2>1, <2>2, Zenon DEF Ascending
    <2>3. CASE j \notin DOMAIN s
        BY <1>1, <1>2, <2>1, <2>3
    <2> QED BY <2>2, <2>3, Zenon
<1>5. Ascending(t)
    BY <1>4, Zenon DEF Ascending
<1> QED BY <1>1, <1>2, <1>3, <1>5, Zenon DEF t

LEMMA NextvalInv == ASSUME AuditInv, NEW w \in Writer, nextval(w) PROVE AuditInv'
<1> SUFFICES ASSUME Serial' PROVE AuditInv'
    BY Zenon DEF AuditInv
<1> DEFINE s == writer[w].seqs
           t == Append(s, lastSeq + 1)
           next == IF Len(t) < writer[w].count THEN "nextval" ELSE IF writer[w].count = 1 THEN "lock" ELSE "insert"
<1>1. /\ UNCHANGED <<rows, verifier, violations, purged, appendsOverlapped>>
      /\ writer[w].at = "nextval" /\ lastSeq' = lastSeq + 1
      /\ writer' = [writer EXCEPT ![w].seqs = t, ![w].at = next]
    BY Zenon DEF nextval
<1>2. /\ Serial /\ AuditTypeOK /\ Chain /\ Walk(verifier) /\ Clean(violations)
      /\ \A v \in Writer : Statement(v)
    BY <1>1, Zenon DEF AuditInv, Serial
<1>3. s \in Seq(Nat) /\ lastSeq \in Nat /\ next \in WriterPlace
    BY <1>2, Zenon DEF AuditTypeOK, WriterType, WriterPlace
<1>3a. Ascending(s) /\ \A i \in DOMAIN s : s[i] > 0 /\ s[i] <= lastSeq
    BY <1>1, <1>2, Zenon DEF AuditTypeOK, Statement
<1>4. /\ t \in Seq(Nat) /\ Ascending(t)
      /\ \A i \in DOMAIN t :
            /\ t[i] > 0 /\ t[i] <= lastSeq + 1
            /\ t[i] = lastSeq + 1 \/ (i \in DOMAIN s /\ t[i] = s[i])
    BY <1>3, <1>3a, DrawnBehind, Zenon
<1> HIDE DEF t, next
<1>5. /\ writer' \in WriterType /\ writer'[w].seqs = t /\ writer'[w].at = next /\ writer'[w].prev = writer[w].prev
      /\ \A v \in Writer \ {w} : writer'[v] = writer[v]
    BY <1>1, <1>2, <1>3, <1>4, SeqsUpdate, Zenon DEF AuditTypeOK
<1>6. AuditTypeOK'
    <2>2. \A v \in Writer : \A i \in DOMAIN writer'[v].seqs : writer'[v].seqs[i] > 0
        BY <1>2, <1>4, <1>5, Zenon DEF AuditTypeOK
    <2>3. lastSeq' \in Nat
        BY <1>1, <1>3
    <2> QED BY <1>1, <1>2, <1>5, <2>2, <2>3, Zenon DEF AuditTypeOK
<1>7. Chain'
    <2>1. \A r \in rows : r.seq \in Nat /\ r.seq <= lastSeq + 1
        BY <1>2, <1>3 DEF Chain, AuditTypeOK, RowType
    <2> QED BY <1>1, <1>2, <2>1, Zenon DEF Chain, Tops, Linked
<1>8. ASSUME NEW v \in Writer PROVE Statement(v)'
    <2>1. \A u \in Writer : writer[u].at # "idle" => u = w
        BY <1>1, <1>2, Zenon DEF Statement
    <2>2. \A u \in Writer : writer'[u].at # "idle" => u = w
        BY <1>5, <2>1, Zenon
    <2>3. CASE v = w
        <3>1. Tops(writer[w].prev)' \/ writer'[w].prev = Genesis
            BY <1>1, <1>2, <1>5, ZenonT(40) DEF Statement, Tops
        <3>2. \A i \in DOMAIN t : \A r \in rows : r.seq < t[i]
            <4>1. \A r \in rows : r.seq \in Nat /\ r.seq < lastSeq + 1
                BY <1>2, <1>3 DEF Chain, AuditTypeOK, RowType
            <4>2. \A i \in DOMAIN s : \A r \in rows : r.seq < s[i]
                BY <1>1, <1>2, Zenon DEF Statement
            <4> QED BY <1>4, <4>1, <4>2, Zenon
        <3> QED BY <1>1, <1>4, <1>5, <2>2, <2>3, <3>1, <3>2, ZenonT(40) DEF Statement, Ascending
    <2>4. CASE v # w
        BY <2>2, <2>4, Zenon DEF Statement
    <2> QED BY <2>3, <2>4, Zenon
<1>9. Walk(verifier)'
    BY <1>1, <1>2, Zenon DEF Walk
<1> QED BY <1>1, <1>2, <1>6, <1>7, <1>8, <1>9, Zenon DEF AuditInv, Clean

LEMMA LockInv == ASSUME AuditInv, NEW w \in Writer, lock(w) PROVE AuditInv'
<1> SUFFICES ASSUME Serial' PROVE AuditInv'
    BY Zenon DEF AuditInv
<1>1. /\ UNCHANGED <<rows, lastSeq, verifier, violations, purged, appendsOverlapped>> /\ writer[w].at = "lock"
      /\ writer' = [writer EXCEPT ![w].at = "insert"]
    BY Zenon DEF lock
<1>2. /\ Serial /\ AuditTypeOK /\ Chain /\ Walk(verifier) /\ Clean(violations)
      /\ \A v \in Writer : Statement(v)
    BY <1>1, Zenon DEF AuditInv, Serial
<1>3. /\ writer' \in WriterType
      /\ \A v \in Writer :
            /\ writer'[v].seqs = writer[v].seqs /\ writer'[v].prev = writer[v].prev
            /\ writer'[v].at = "idle" <=> writer[v].at = "idle"
    BY <1>1, <1>2, Zenon DEF AuditTypeOK, WriterType, WriterPlace
<1>4. AuditTypeOK'
    BY <1>1, <1>2, <1>3, Zenon DEF AuditTypeOK
<1>5. ASSUME NEW v \in Writer PROVE Statement(v)'
    BY <1>1, <1>2, <1>3 DEF Statement, Tops
<1> QED BY <1>1, <1>2, <1>4, <1>5, RowsStay, Zenon DEF AuditInv, Clean

\* A statement that is over.
LEMMA EndUpdate ==
    ASSUME AuditTypeOK, NEW w \in Writer, writer' = [writer EXCEPT ![w] = IdleWriter]
    PROVE  /\ writer' \in WriterType /\ writer'[w].at = "idle" /\ \A v \in Writer \ {w} : writer'[v] = writer[v]
           /\ \A v \in Writer : \A i \in DOMAIN writer'[v].seqs : writer'[v].seqs[i] > 0
<1>1. /\ writer' \in WriterType /\ writer'[w].at = "idle" /\ writer'[w].seqs = << >>
      /\ \A v \in Writer \ {w} : writer'[v] = writer[v]
    BY DEF AuditTypeOK, WriterType, WriterPlace, IdleWriter, Null
<1>2. DOMAIN writer'[w].seqs = {}
    BY <1>1
<1> QED BY <1>1, <1>2, Zenon DEF AuditTypeOK

LEMMA StatementFailsInv == ASSUME AuditInv, NEW w \in Writer, statementFails(w) PROVE AuditInv'
<1> SUFFICES ASSUME Serial' PROVE AuditInv'
    BY Zenon DEF AuditInv
<1>1. /\ UNCHANGED <<rows, lastSeq, verifier, violations, purged, appendsOverlapped>> /\ writer[w].at # "idle"
      /\ writer' = [writer EXCEPT ![w] = IdleWriter]
    BY Zenon DEF statementFails, endStatement
<1>2. /\ Serial /\ AuditTypeOK /\ Chain /\ Walk(verifier) /\ Clean(violations)
      /\ \A v \in Writer : Statement(v)
    BY <1>1, Zenon DEF AuditInv, Serial
<1>3. /\ writer' \in WriterType /\ writer'[w].at = "idle" /\ \A v \in Writer \ {w} : writer'[v] = writer[v]
      /\ \A v \in Writer : \A i \in DOMAIN writer'[v].seqs : writer'[v].seqs[i] > 0
    BY <1>1, <1>2, EndUpdate, Zenon
<1>4. AuditTypeOK'
    BY <1>1, <1>2, <1>3, Zenon DEF AuditTypeOK
<1>5. \A v \in Writer : writer'[v].at = "idle"
    BY <1>1, <1>2, <1>3, Zenon DEF Statement
<1> QED BY <1>1, <1>2, <1>4, <1>5, RowsStay, Zenon DEF AuditInv, Clean, Statement

\* The rows of a statement that ends come behind all others, linked to them
\* and to each other.
LEMMA InsertInv == ASSUME AuditInv, NEW w \in Writer, insertRows(w) PROVE AuditInv'
<1> SUFFICES ASSUME Serial' PROVE AuditInv'
    BY Zenon DEF AuditInv
<1> DEFINE s == writer[w].seqs
           rowAt(i) == [seq |-> s[i], prev |-> IF i = 1 THEN writer[w].prev ELSE s[i - 1]]
<1>1. /\ UNCHANGED <<lastSeq, verifier, violations, purged, appendsOverlapped>> /\ writer[w].at = "insert"
      /\ writer' = [writer EXCEPT ![w] = IdleWriter]
      /\ rows' = rows \cup {rowAt(i) : i \in DOMAIN s}
    BY Zenon DEF insertRows, endStatement
<1>2. /\ Serial /\ AuditTypeOK /\ Chain /\ Walk(verifier) /\ Clean(violations)
      /\ \A v \in Writer : Statement(v)
    BY <1>1, Zenon DEF AuditInv, Serial
<1>3. s \in Seq(Nat) /\ DOMAIN s = 1..Len(s) /\ Len(s) \in Nat /\ writer[w].prev \in Int /\ \A i \in DOMAIN s : s[i] \in Nat
    BY <1>2 DEF AuditTypeOK, WriterType
<1>4. /\ Ascending(s) /\ (Tops(writer[w].prev) \/ writer[w].prev = Genesis)
      /\ \A i \in DOMAIN s : s[i] <= lastSeq /\ s[i] > 0 /\ \A r \in rows : r.seq < s[i]
      /\ \A v \in Writer : writer[v].at # "idle" => v = w
    BY <1>1, <1>2, Zenon DEF Statement, AuditTypeOK
<1>5. ASSUME NEW i \in DOMAIN s
      PROVE  /\ rowAt(i).seq = s[i] /\ rowAt(i) \in rows'
             /\ i = 1 => rowAt(i).prev = writer[w].prev
             /\ i # 1 => i - 1 \in DOMAIN s /\ rowAt(i).prev = s[i - 1]
    BY <1>1, <1>3, SMTT(30)
<1>6. \A r \in rows' : r \in rows \/ \E i \in DOMAIN s : r = rowAt(i)
    BY <1>1, Zenon
<1>7. \A r \in rows : r \in rows' /\ r.seq \in Nat
    BY <1>1, <1>2, Zenon DEF AuditTypeOK, RowType
<1>8. \A i \in DOMAIN s : rowAt(i) \in RowType
    BY <1>3, <1>4, SMTT(30) DEF RowType
<1> HIDE DEF s, rowAt
<1>9. DOMAIN s # {} => Tops(writer[w].prev)
    <2>1. DOMAIN s # {} => 1 \in DOMAIN s
        BY <1>3
    <2> QED BY <1>4, <1>5, <2>1 DEF Serial
<1>10. ASSUME NEW i \in DOMAIN s, NEW j \in DOMAIN s
       PROVE  (s[i] < s[j] <=> i < j) /\ (s[i] <= s[j] <=> i <= j) /\ (s[i] = s[j] => i = j)
    BY <1>3, <1>4, SMTT(30) DEF Ascending
<1>11. AuditTypeOK'
    <2>1. /\ writer' \in WriterType /\ writer'[w].at = "idle" /\ \A v \in Writer \ {w} : writer'[v] = writer[v]
          /\ \A v \in Writer : \A i \in DOMAIN writer'[v].seqs : writer'[v].seqs[i] > 0
        BY <1>1, <1>2, EndUpdate, Zenon
    <2>2. rows' \subseteq RowType
        BY <1>2, <1>6, <1>8, Zenon DEF AuditTypeOK
    <2> QED BY <1>1, <1>2, <2>1, <2>2, Zenon DEF AuditTypeOK
<1>12. \A v \in Writer : writer'[v].at = "idle"
    <2>1. writer'[w].at = "idle" /\ \A v \in Writer \ {w} : writer'[v] = writer[v]
        BY <1>1, <1>2, EndUpdate, Zenon
    <2> QED BY <1>4, <2>1, Zenon
<1>13. ASSUME NEW r \in rows', NEW q \in rows', q.seq < r.seq, r \in rows PROVE q \in rows
    <2>1. ASSUME NEW i \in DOMAIN s, q = rowAt(i) PROVE FALSE
        BY <1>3, <1>4, <1>5, <1>7, <1>13, <2>1
    <2> QED BY <1>6, <2>1, Zenon
<1>14. \E n \in Nat : Tops(n)'
    <2>1. CASE DOMAIN s = {}
        BY <1>2, <1>6, <1>7, <2>1, Zenon DEF Chain, Tops
    <2>2. CASE DOMAIN s # {}
        <3>1. Len(s) \in DOMAIN s
            BY <1>3, <2>2
        <3>2. ASSUME NEW r \in rows' PROVE r.seq <= s[Len(s)]
            <4>1. CASE r \in rows
                BY <1>3, <1>4, <1>7, <3>1, <4>1
            <4>2. ASSUME NEW i \in DOMAIN s, r = rowAt(i) PROVE r.seq <= s[Len(s)]
                BY <1>3, <1>5, <1>10, <3>1, <4>2
            <4> QED BY <1>6, <4>1, <4>2, Zenon
        <3>3. rowAt(Len(s)) \in rows' /\ rowAt(Len(s)).seq = s[Len(s)] /\ s[Len(s)] \in Nat
            BY <1>3, <1>5, <3>1, Zenon
        <3> QED BY <3>2, <3>3, Zenon DEF Tops
    <2> QED BY <2>1, <2>2, Zenon
<1>15. ASSUME NEW r \in rows, Linked(r) PROVE Linked(r)'
    <2>1. CASE r.prev = Null /\ \A q \in rows : q.seq >= r.seq
        <3>1. ASSUME NEW q \in rows' PROVE q.seq >= r.seq
            <4>1. ASSUME NEW i \in DOMAIN s, q = rowAt(i) PROVE q.seq >= r.seq
                BY <1>3, <1>4, <1>5, <1>7, <4>1
            <4> QED BY <1>6, <2>1, <4>1, Zenon
        <3> QED BY <2>1, <3>1, Zenon DEF Linked
    <2>2. ASSUME NEW q \in rows, q.seq = r.prev, q.seq < r.seq, \A p \in rows : p.seq < r.seq => p.seq <= q.seq
          PROVE  Linked(r)'
        <3>1. \A p \in rows' : p.seq < r.seq => p.seq <= q.seq
            BY <1>7, <1>13, <2>2, Zenon
        <3> QED BY <1>7, <2>2, <3>1, Zenon DEF Linked
    <2> QED BY <1>15, <2>1, <2>2, Zenon DEF Linked
<1>16. ASSUME NEW i \in DOMAIN s, NEW r, r = rowAt(i) PROVE Linked(r)'
    <2>1. CASE i # 1
        <3>1. i - 1 \in DOMAIN s /\ r.prev = s[i - 1] /\ rowAt(i - 1) \in rows' /\ rowAt(i - 1).seq = s[i - 1]
            BY <1>5, <1>16, <2>1, Zenon
        <3>2. s[i - 1] < s[i] /\ r.seq = s[i]
            BY <1>3, <1>5, <1>10, <1>16, <3>1
        <3>3. ASSUME NEW p \in rows', p.seq < s[i] PROVE p.seq <= s[i - 1]
            <4>1. CASE p \in rows
                BY <1>3, <1>4, <1>7, <3>1, <4>1
            <4>2. ASSUME NEW j \in DOMAIN s, p = rowAt(j) PROVE p.seq <= s[i - 1]
                <5>1. p.seq = s[j]
                    BY <1>5, <4>2, Zenon
                <5>2. j <= i - 1
                    BY <1>3, <1>10, <3>3, <5>1
                <5> QED BY <1>10, <3>1, <5>1, <5>2, Zenon
            <4> QED BY <1>6, <4>1, <4>2, Zenon
        <3> QED BY <3>1, <3>2, <3>3, Zenon DEF Linked
    <2>2. CASE i = 1
        <3>1. r.prev = writer[w].prev /\ r.seq = s[1] /\ Tops(writer[w].prev)
            BY <1>5, <1>9, <1>16, <2>2, Zenon
        <3>2. CASE rows = {} /\ writer[w].prev = Null
            <4>1. ASSUME NEW q \in rows' PROVE q.seq >= s[1]
                <5>1. PICK j \in DOMAIN s : q = rowAt(j)
                    BY <1>6, <3>2, Zenon
                <5>2. q.seq = s[j] /\ j >= 1
                    BY <1>3, <1>5, <5>1
                <5> QED BY <1>3, <1>10, <2>2, <5>2, Zenon
            <4> QED BY <2>2, <3>1, <3>2, <4>1, Zenon DEF Linked
        <3>3. ASSUME NEW q \in rows, q.seq = writer[w].prev, \A p \in rows : p.seq <= writer[w].prev
              PROVE  Linked(r)'
            <4>1. q.seq < s[1] /\ q \in rows'
                BY <1>4, <1>7, <2>2, Zenon
            <4>2. ASSUME NEW p \in rows', p.seq < s[1] PROVE p.seq <= q.seq
                <5>1. ASSUME NEW j \in DOMAIN s, p = rowAt(j) PROVE FALSE
                    <6>1. p.seq = s[j] /\ j >= 1
                        BY <1>3, <1>5, <5>1
                    <6> QED BY <1>3, <1>10, <2>2, <4>2, <6>1
                <5> QED BY <1>6, <3>3, <5>1, Zenon
            <4> QED BY <3>1, <3>3, <4>1, <4>2, Zenon DEF Linked
        <3> QED BY <2>2, <3>1, <3>2, <3>3, Zenon DEF Tops
    <2> QED BY <2>1, <2>2, Zenon
<1>17. Chain'
    <2>1. ASSUME NEW r \in rows' PROVE r.seq <= lastSeq /\ Linked(r)'
        BY <1>2, <1>4, <1>5, <1>6, <1>15, <1>16 DEF Chain
    <2>2. ASSUME NEW r \in rows', NEW q \in rows', q.seq = r.seq PROVE q = r
        <3>1. ASSUME NEW i \in DOMAIN s, NEW p \in rows PROVE rowAt(i).seq # p.seq
            BY <1>3, <1>4, <1>5, <1>7
        <3>2. ASSUME NEW i \in DOMAIN s, NEW j \in DOMAIN s, rowAt(i).seq = rowAt(j).seq PROVE i = j
            BY <1>5, <1>10, <3>2
        <3> QED BY <1>2, <1>6, <2>2, <3>1, <3>2, Zenon DEF Chain
    <2> QED BY <1>1, <1>14, <2>1, <2>2, Zenon DEF Chain
<1>18. Walk(verifier)'
    <2>1. ASSUME NEW i \in DOMAIN verifier.todo, NEW r \in rows', verifier.lastSeq < r.seq, r.seq < verifier.todo[i].seq
          PROVE  \E j \in DOMAIN verifier.todo : verifier.todo[j] = r
        <3>1. verifier.todo[i] \in rows
            BY <1>2, Zenon DEF Walk
        <3>2. r \in rows
            BY <1>7, <1>13, <2>1, <3>1, Zenon
        <3> QED BY <1>2, <2>1, <3>2, Zenon DEF Walk
    <2> QED BY <1>1, <1>2, <1>7, <2>1 DEF Walk
<1> QED BY <1>1, <1>2, <1>11, <1>12, <1>17, <1>18, Zenon DEF AuditInv, Clean, Statement

Finding == [seq: Nat, type: {"deleted_row", "prev_hash_mismatch", "row_hash_mismatch"}]

LEMMA CleanConcat ==
    ASSUME NEW s \in Seq(Finding), NEW t \in Seq(Finding), Clean(s), Clean(t)
    PROVE  s \o t \in Seq(Finding) /\ Clean(s \o t)
<1>1. /\ s \o t \in Seq(Finding) /\ Len(s) \in Nat /\ Len(t) \in Nat
      /\ DOMAIN (s \o t) = 1..(Len(s) + Len(t)) /\ DOMAIN s = 1..Len(s) /\ DOMAIN t = 1..Len(t)
      /\ \A i \in DOMAIN s : (s \o t)[i] = s[i]
    OBVIOUS
<1>2. ASSUME NEW i \in DOMAIN (s \o t), i \notin DOMAIN s
      PROVE  i - Len(s) \in DOMAIN t /\ (s \o t)[i] = t[i - Len(s)]
    BY <1>1, <1>2
<1>3. ASSUME NEW i \in DOMAIN (s \o t) PROVE (s \o t)[i].type # "prev_hash_mismatch"
    <2>1. CASE i \in DOMAIN s
        BY <1>1, <2>1, Zenon DEF Clean
    <2>2. CASE i \notin DOMAIN s
        BY <1>2, <2>2, Zenon DEF Clean
    <2> QED BY <2>1, <2>2, Zenon
<1> QED BY <1>1, <1>3, Zenon DEF Clean

\* A row whose prev_hash is right is not reported for it.
LEMMA CleanFindings ==
    ASSUME NEW row \in RowType, row.prev = verifier.prevRowHash
    PROVE  findings(row) \in Seq(Finding) /\ Clean(findings(row))
<1> DEFINE gap == IF verifier.prevSeq # Null /\ row.seq # textPlusOne(verifier.prevSeq)
                  THEN <<[seq |-> row.seq, type |-> "deleted_row"]>> ELSE << >>
           hash == <<[seq |-> row.seq, type |-> "row_hash_mismatch"]>>
<1>1. findings(row) = gap \o << >> \o hash
    BY Zenon DEF findings
<1>2. row.seq \in Nat
    BY Zenon DEF RowType
<1>3. << >> \in Seq(Finding) /\ Clean(<< >>)
    BY DEF Clean
<1>4. hash \in Seq(Finding) /\ Clean(hash)
    BY <1>2 DEF Finding, Clean
<1>5. gap \in Seq(Finding) /\ Clean(gap)
    <2>1. <<[seq |-> row.seq, type |-> "deleted_row"]>> \in Seq(Finding) /\ Clean(<<[seq |-> row.seq, type |-> "deleted_row"]>>)
        BY <1>2 DEF Finding, Clean
    <2> QED BY <1>3, <2>1, Zenon
<1> HIDE DEF gap, hash
<1>6. gap \o << >> \in Seq(Finding) /\ Clean(gap \o << >>)
    BY <1>3, <1>5, CleanConcat, Zenon
<1>7. (gap \o << >>) \o hash \in Seq(Finding) /\ Clean((gap \o << >>) \o hash)
    BY <1>4, <1>6, CleanConcat, Zenon
<1> QED BY <1>1, <1>7, Zenon

LEMMA VerifyInv == ASSUME AuditInv, verify \/ fetchFails PROVE AuditInv'
<1> SUFFICES ASSUME Serial' PROVE AuditInv'
    BY Zenon DEF AuditInv
<1>1. /\ UNCHANGED <<rows, lastSeq, writer, purged, appendsOverlapped>> /\ violations' = << >>
      /\ verifier' = [IdleVerifier EXCEPT !.at = "fetch"] \/ verifier' = IdleVerifier
    BY Zenon DEF verify, fetchFails
<1>2. Serial /\ AuditTypeOK /\ Chain /\ \A v \in Writer : Statement(v)
    BY <1>1, Zenon DEF AuditInv, Serial
<1>3. /\ verifier' \in VerifierType /\ verifier'.at \in {"idle", "fetch"} /\ verifier'.todo = << >>
      /\ verifier'.prevRowHash = 0 /\ verifier'.lastSeq = 0
    <2>1. PICK p \in {"idle", "fetch"} :
             verifier' = [at |-> p, todo |-> << >>, lastSeq |-> 0, prevRowHash |-> 0, prevSeq |-> 0]
        BY <1>1, Zenon DEF IdleVerifier, Null
    <2>2. << >> \in Seq(RowType)
        OBVIOUS
    <2> QED BY <2>1, <2>2, Zenon DEF VerifierType
<1>4. AuditTypeOK'
    <2>1. violations' \in Seq([seq: Nat, type: {"deleted_row", "prev_hash_mismatch", "row_hash_mismatch"}])
        BY <1>1
    <2>2. verifier'.at \notin {"rows", "lastRows"}
        BY <1>3, Zenon
    <2> QED BY <1>1, <1>2, <1>3, <2>1, <2>2, Zenon DEF AuditTypeOK
<1>5. Walk(verifier)' /\ Clean(violations)'
    <2>1. DOMAIN verifier'.todo = {} /\ DOMAIN violations' = {}
        BY <1>1, <1>3
    <2> QED BY <1>3, <2>1, Zenon DEF Walk, Clean
<1> QED BY <1>1, <1>2, <1>4, <1>5, RowsStay, Zenon DEF AuditInv

\* A batch is the rows that follow.
LEMMA FetchBatchInv == ASSUME AuditInv, fetchBatch PROVE AuditInv'
<1> SUFFICES ASSUME Serial' PROVE AuditInv'
    BY Zenon DEF AuditInv
<1>1. /\ UNCHANGED <<rows, lastSeq, writer, violations, purged, appendsOverlapped>> /\ verifier.at = "fetch"
    BY Zenon DEF fetchBatch
<1>2a. PICK size \in 0..VerifyBatchSize : \E batch \in [1..size -> rows] :
         /\ rowsAfter(verifier.lastSeq, batch)
         /\ verifier' = IF size = 0 THEN IdleVerifier
                        ELSE [verifier EXCEPT !.at = IF size < VerifyBatchSize THEN "lastRows" ELSE "rows", !.todo = batch]
    BY Zenon DEF fetchBatch
<1>2. PICK batch \in [1..size -> rows] :
         /\ rowsAfter(verifier.lastSeq, batch)
         /\ verifier' = IF size = 0 THEN IdleVerifier
                        ELSE [verifier EXCEPT !.at = IF size < VerifyBatchSize THEN "lastRows" ELSE "rows", !.todo = batch]
    BY <1>2a, Zenon
<1>3. /\ Serial /\ AuditTypeOK /\ Chain /\ Walk(verifier) /\ Clean(violations)
      /\ \A v \in Writer : Statement(v)
    BY <1>1, Zenon DEF AuditInv, Serial
<1>4. verifier' \in VerifierType /\ (verifier'.at \in {"rows", "lastRows"} => verifier'.todo # << >>) /\ Walk(verifier)'
    <2>1. CASE size = 0
        <3>1. verifier' = [at |-> "idle", todo |-> << >>, lastSeq |-> 0, prevRowHash |-> 0, prevSeq |-> 0]
            BY <1>2, <2>1, Zenon DEF IdleVerifier, Null
        <3>2. << >> \in Seq(RowType)
            OBVIOUS
        <3>3. verifier' \in VerifierType /\ verifier'.at = "idle" /\ verifier'.todo = << >>
              /\ verifier'.prevRowHash = 0 /\ verifier'.lastSeq = 0
            <4>1. PICK p \in {"idle"} : verifier' = [at |-> p, todo |-> << >>, lastSeq |-> 0, prevRowHash |-> 0, prevSeq |-> 0]
                BY <3>1, Zenon
            <4> QED BY <3>2, <4>1, Zenon DEF VerifierType
        <3>4. DOMAIN verifier'.todo = {}
            BY <3>3
        <3> QED BY <3>3, <3>4, Zenon DEF Walk
    <2>2. CASE size # 0
        <3> DEFINE p == IF size < VerifyBatchSize THEN "lastRows" ELSE "rows"
        <3>1. /\ size \in Nat /\ batch \in Seq(RowType) /\ DOMAIN batch = 1..size /\ batch # << >>
              /\ p \in {"rows", "lastRows"}
            <4>1. batch \in [1..size -> rows] /\ size \in Nat /\ 1 \in 1..size
                BY <2>2, AuditBounds
            <4>2. rows \subseteq RowType
                BY <1>3, Zenon DEF AuditTypeOK
            <4>3. batch \in [1..size -> RowType]
                BY <4>1, <4>2, Zenon
            <4>4. batch \in Seq(RowType) /\ DOMAIN batch = 1..size
                BY <4>1, <4>3
            <4>5. batch # << >>
                BY <4>1, <4>4
            <4> QED BY <4>1, <4>4, <4>5, Zenon
        <3>2. verifier' = [verifier EXCEPT !.at = p, !.todo = batch]
            BY <1>2, <2>2, Zenon
        <3> HIDE DEF p
        <3>3. /\ verifier' \in VerifierType /\ verifier'.todo = batch
              /\ verifier'.lastSeq = verifier.lastSeq /\ verifier'.prevRowHash = verifier.prevRowHash
            BY <1>3, <3>1, <3>2, Zenon DEF AuditTypeOK, VerifierType
        <3>4. \A i \in DOMAIN batch :
                 /\ batch[i] \in rows /\ batch[i].seq > verifier.lastSeq
                 /\ \A j \in DOMAIN batch : i < j => batch[i].seq < batch[j].seq
            BY <1>2, Zenon DEF rowsAfter
        <3>5. ASSUME NEW i \in DOMAIN batch, NEW r \in rows, verifier.lastSeq < r.seq, r.seq < batch[i].seq
              PROVE  \E j \in DOMAIN batch : batch[j] = r
            <4>1. verifier.lastSeq \in Nat /\ r.seq \in Nat /\ batch[i].seq \in Nat
                BY <1>3, <3>4, Zenon DEF AuditTypeOK, RowType, VerifierType
            <4>2. r.seq > verifier.lastSeq /\ ~(batch[i].seq <= r.seq)
                BY <3>5, <4>1
            <4> QED BY <1>2, <4>2, Zenon DEF rowsAfter
        <3>6. Walk(verifier)'
            <4>1. /\ verifier'.prevRowHash = verifier'.lastSeq
                  /\ verifier'.lastSeq = 0 \/ \E q \in rows' : q.seq = verifier'.lastSeq
                BY <1>1, <1>3, <3>3, Zenon DEF Walk
            <4> QED BY <1>1, <3>3, <3>4, <3>5, <4>1, ZenonT(40) DEF Walk
        <3> QED BY <3>1, <3>3, <3>6, Zenon
    <2> QED BY <2>1, <2>2, Zenon
<1>5. AuditTypeOK'
    BY <1>1, <1>3, <1>4, Zenon DEF AuditTypeOK
<1> QED BY <1>1, <1>3, <1>4, <1>5, RowsStay, Zenon DEF AuditInv, Clean

\* A row that links to the one before it adds no broken link to the report.
LEMMA CleanPrefix ==
    ASSUME NEW s \in Seq(Finding), Clean(s), NEW n \in Nat \ {0}, n <= Len(s)
    PROVE  SubSeq(s, 1, n) \in Seq(Finding) /\ Clean(SubSeq(s, 1, n))
<1>1. /\ SubSeq(s, 1, n) \in Seq(Finding) /\ DOMAIN SubSeq(s, 1, n) = 1..n
      /\ \A i \in 1..n : SubSeq(s, 1, n)[i] = s[i] /\ i \in DOMAIN s
    OBVIOUS
<1> QED BY <1>1, Zenon DEF Clean

\* The row that is checked is the one after the row the verifier has walked to.
LEMMA NextRowLinked ==
    ASSUME AuditTypeOK, Chain, Walk(verifier), \A r \in rows : r.prev # Genesis,
           NEW row \in rows, verifier.lastSeq < row.seq,
           \A r \in rows : verifier.lastSeq < r.seq => row.seq <= r.seq
    PROVE  row.prev = verifier.prevRowHash
<1>1. /\ verifier.lastSeq \in Nat /\ verifier.prevRowHash = verifier.lastSeq
      /\ verifier.lastSeq = 0 \/ \E q \in rows : q.seq = verifier.lastSeq
    BY Zenon DEF AuditTypeOK, VerifierType, Walk
<1>2. \A r \in rows : r.seq \in Nat \ {0}
    BY Zenon DEF AuditTypeOK, RowType
<1>3. Linked(row)
    BY Zenon DEF Chain
<1>4. CASE row.prev = Null /\ \A q \in rows : q.seq >= row.seq
    BY <1>1, <1>2, <1>4 DEF Null
<1>5. CASE \E q \in rows : q.seq = row.prev /\ q.seq < row.seq /\ \A p \in rows : p.seq < row.seq => p.seq <= q.seq
    <2>1. PICK q \in rows : q.seq = row.prev /\ q.seq < row.seq /\ \A p \in rows : p.seq < row.seq => p.seq <= q.seq
        BY <1>5, Zenon
    <2>2. q.seq <= verifier.lastSeq /\ verifier.lastSeq # 0
        BY <1>1, <1>2, <2>1
    <2>3. verifier.lastSeq <= q.seq
        BY <1>1, <1>2, <2>1, <2>2, Zenon
    <2> QED BY <1>1, <1>2, <2>1, <2>2, <2>3
<1> QED BY <1>3, <1>4, <1>5, Zenon DEF Linked

\* The verifier walks on to the row that it has checked.
LEMMA CheckRowInv == ASSUME AuditInv, checkRow PROVE AuditInv'
<1> SUFFICES ASSUME Serial' PROVE AuditInv'
    BY Zenon DEF AuditInv
<1> DEFINE row == Head(verifier.todo)
           rest == Tail(verifier.todo)
           all == violations \o findings(row)
<1>1. UNCHANGED <<rows, lastSeq, writer, purged, appendsOverlapped>> /\ verifier.at \in {"rows", "lastRows"}
    BY Zenon DEF checkRow
<1>2. /\ Serial /\ AuditTypeOK /\ Chain /\ Walk(verifier) /\ Clean(violations)
      /\ \A v \in Writer : Statement(v)
    BY <1>1, Zenon DEF AuditInv, Serial
<1>3. verifier.todo \in Seq(RowType) /\ verifier.todo # << >> /\ verifier.lastSeq \in Nat
    BY <1>1, <1>2, Zenon DEF AuditTypeOK, VerifierType
<1>4. 1 \in DOMAIN verifier.todo /\ row = verifier.todo[1] /\ row \in RowType /\ rest \in Seq(RowType)
    BY <1>3
<1>5. /\ DOMAIN rest \subseteq Nat
      /\ \A i \in DOMAIN rest : i + 1 \in DOMAIN verifier.todo /\ rest[i] = verifier.todo[i + 1] /\ 1 < i + 1
      /\ \A j \in DOMAIN verifier.todo : j \in Nat /\ (j = 1 \/ (1 < j /\ j - 1 \in DOMAIN rest /\ rest[j - 1] = verifier.todo[j]))
    BY <1>3
<1>6. /\ row \in rows /\ verifier.lastSeq < row.seq
      /\ \A j \in DOMAIN verifier.todo : 1 < j => row.seq < verifier.todo[j].seq
    BY <1>2, <1>3, <1>4, Zenon DEF Walk, RowType
<1>7. ASSUME NEW r \in rows, verifier.lastSeq < r.seq PROVE row.seq <= r.seq
    <2>1. r.seq \in Nat /\ row.seq \in Nat
        BY <1>2, <1>4, Zenon DEF AuditTypeOK, RowType
    <2>2. SUFFICES ASSUME r.seq < row.seq PROVE FALSE
        BY <2>1
    <2>3. PICK j \in DOMAIN verifier.todo : verifier.todo[j] = r
        BY <1>2, <1>4, <1>7, <2>2, Zenon DEF Walk
    <2> QED BY <1>4, <1>5, <1>6, <2>1, <2>2, <2>3
<1>8. row.prev = verifier.prevRowHash
    BY <1>2, <1>6, <1>7, NextRowLinked, Zenon DEF Serial
<1>9. all \in Seq(Finding) /\ Clean(all)
    <2>1. violations \in Seq(Finding)
        BY <1>2, Zenon DEF AuditTypeOK, Finding
    <2>2. findings(row) \in Seq(Finding) /\ Clean(findings(row))
        BY <1>4, <1>8, CleanFindings, Zenon
    <2> QED BY <1>2, <2>1, <2>2, CleanConcat, Zenon
<1>10. Clean(violations)' /\ violations' \in Seq(Finding)
    <2>1. CASE Len(all) >= MaxViolations
        <3>1. violations' = SubSeq(all, 1, MaxViolations)
            BY <2>1, Zenon DEF checkRow
        <3>2. MaxViolations <= Len(all)
            BY <1>9, <2>1, AuditBounds, Zenon
        <3> HIDE DEF all
        <3> QED BY <1>9, <3>1, <3>2, AuditBounds, CleanPrefix, Zenon DEF Clean
    <2>2. CASE ~(Len(all) >= MaxViolations)
        <3>1. violations' = all
            BY <2>2, Zenon DEF checkRow
        <3> QED BY <1>9, <3>1, Zenon DEF Clean
    <2> QED BY <2>1, <2>2, Zenon
<1>11. verifier' \in VerifierType /\ (verifier'.at \in {"rows", "lastRows"} => verifier'.todo # << >>) /\ Walk(verifier)'
    <2>1. CASE Len(all) >= MaxViolations
        <3>1. PICK p \in {"idle"} : verifier' = [at |-> p, todo |-> << >>, lastSeq |-> 0, prevRowHash |-> 0, prevSeq |-> 0]
            BY <2>1, Zenon DEF checkRow, IdleVerifier, Null
        <3>2. << >> \in Seq(RowType)
            OBVIOUS
        <3>3. /\ verifier' \in VerifierType /\ verifier'.at = "idle" /\ verifier'.todo = << >>
              /\ verifier'.prevRowHash = 0 /\ verifier'.lastSeq = 0
            BY <3>1, <3>2, Zenon DEF VerifierType
        <3>4. DOMAIN verifier'.todo = {}
            BY <3>3
        <3> QED BY <3>3, <3>4, Zenon DEF Walk
    <2>2. CASE ~(Len(all) >= MaxViolations)
        <3> DEFINE p == IF rest # << >> THEN verifier.at ELSE IF verifier.at = "rows" THEN "fetch" ELSE "idle"
        <3>1. verifier' = [at |-> p, todo |-> rest, lastSeq |-> row.seq, prevRowHash |-> row.seq, prevSeq |-> row.seq]
            BY <2>2, Zenon DEF checkRow
        <3>2. /\ p \in {"idle", "fetch", "rows", "lastRows"} /\ (p \in {"rows", "lastRows"} => rest # << >>)
            BY <1>1, Zenon
        <3>3. row.seq \in Nat
            BY <1>4, Zenon DEF RowType
        <3> HIDE DEF p, row, rest, all
        <3>4. /\ verifier' \in VerifierType /\ verifier'.at = p /\ verifier'.todo = rest
              /\ verifier'.prevRowHash = row.seq /\ verifier'.lastSeq = row.seq
            BY <1>4, <3>1, <3>2, <3>3, Zenon DEF VerifierType
        <3>5. \A i \in DOMAIN rest :
                 /\ rest[i] \in rows /\ rest[i].seq > row.seq
                 /\ \A j \in DOMAIN rest : i < j => rest[i].seq < rest[j].seq
            <4> SUFFICES ASSUME NEW i \in DOMAIN rest
                         PROVE  /\ rest[i] \in rows /\ rest[i].seq > row.seq
                                /\ \A j \in DOMAIN rest : i < j => rest[i].seq < rest[j].seq
                BY Zenon
            <4>1. i + 1 \in DOMAIN verifier.todo /\ rest[i] = verifier.todo[i + 1] /\ 1 < i + 1
                BY <1>5, Zenon
            <4>2. rest[i] \in rows /\ rest[i].seq \in Nat /\ row.seq < rest[i].seq
                BY <1>2, <1>6, <4>1, Zenon DEF Walk, AuditTypeOK, RowType
            <4>3. ASSUME NEW j \in DOMAIN rest, i < j PROVE rest[i].seq < rest[j].seq
                <5>1. j + 1 \in DOMAIN verifier.todo /\ rest[j] = verifier.todo[j + 1] /\ i + 1 < j + 1
                    BY <1>5, <4>3
                <5> QED BY <1>2, <4>1, <5>1, Zenon DEF Walk
            <4> QED BY <3>3, <4>2, <4>3, Zenon
        <3>6. ASSUME NEW i \in DOMAIN rest, NEW r \in rows, row.seq < r.seq, r.seq < rest[i].seq
              PROVE  \E j \in DOMAIN rest : rest[j] = r
            <4>1. i + 1 \in DOMAIN verifier.todo /\ rest[i] = verifier.todo[i + 1]
                BY <1>5, Zenon
            <4>2. verifier.lastSeq < r.seq
                BY <1>2, <1>3, <1>6, <3>3, <3>6 DEF AuditTypeOK, RowType
            <4>3. PICK j \in DOMAIN verifier.todo : verifier.todo[j] = r
                BY <1>2, <3>6, <4>1, <4>2, Zenon DEF Walk
            <4>4. j # 1
                BY <1>4, <3>3, <3>6, <4>3
            <4> QED BY <1>5, <4>3, <4>4, Zenon
        <3>7. Walk(verifier)'
            <4>1. \E q \in rows : q.seq = row.seq
                BY <1>6, Zenon
            <4> QED BY <1>1, <3>4, <3>5, <3>6, <4>1, ZenonT(40) DEF Walk
        <3> QED BY <3>2, <3>4, <3>7, Zenon
    <2> QED BY <2>1, <2>2, Zenon
<1>12. AuditTypeOK'
    BY <1>1, <1>2, <1>10, <1>11, Zenon DEF AuditTypeOK, Finding
<1> QED BY <1>1, <1>2, <1>10, <1>11, <1>12, RowsStay, Zenon DEF AuditInv

LEMMA AuditInitInv == ASSUME AuditInit PROVE AuditInv
<1>1. << >> \in Seq(RowType) /\ << >> \in Seq(Nat) /\ << >> \in Seq(Finding)
    OBVIOUS
<1>2. DOMAIN << >> = {}
    OBVIOUS
<1>3. IdleWriter \in [at: WriterPlace, prev: Int, seqs: Seq(Nat), count: Nat]
    BY <1>1 DEF IdleWriter, WriterPlace, Null
<1>4. \A w \in Writer : writer[w].at = "idle" /\ writer[w].seqs = << >>
    BY Zenon DEF AuditInit, IdleWriter
<1>5. /\ verifier \in VerifierType /\ verifier.at = "idle" /\ verifier.todo = << >>
      /\ verifier.prevRowHash = 0 /\ verifier.lastSeq = 0
    <2>1. PICK p \in {"idle"} : verifier = [at |-> p, todo |-> << >>, lastSeq |-> 0, prevRowHash |-> 0, prevSeq |-> 0]
        BY Zenon DEF AuditInit, IdleVerifier, Null
    <2> QED BY <1>1, <2>1, Zenon DEF VerifierType
<1>6. AuditTypeOK
    <2>1. rows \subseteq RowType /\ lastSeq \in Nat
        BY Zenon DEF AuditInit
    <2>2. writer \in WriterType
        BY <1>3, Zenon DEF AuditInit, WriterType
    <2>3. verifier.at \notin {"rows", "lastRows"}
        BY <1>5, Zenon
    <2> QED BY <1>1, <1>2, <1>4, <1>5, <2>1, <2>2, <2>3, Zenon DEF AuditTypeOK, AuditInit, Finding
<1>7. Chain
    BY Zenon DEF AuditInit, Chain, Tops, Null
<1>8. Walk(verifier) /\ Clean(violations)
    BY <1>2, <1>5, Zenon DEF AuditInit, Walk, Clean
<1> QED BY <1>4, <1>6, <1>7, <1>8, Zenon DEF AuditInv, Statement

LEMMA AuditStepInv == ASSUME AuditInv, [AuditNext]_auditVars PROVE AuditInv'
<1>1. ASSUME NEW w \in Writer, NEW count \in 1..2, begin(w, count) PROVE AuditInv'
    BY <1>1, BeginInv, Zenon
<1>2. ASSUME NEW w \in Writer, nextval(w) PROVE AuditInv'
    BY <1>2, NextvalInv, Zenon
<1>3. ASSUME NEW w \in Writer, lock(w) PROVE AuditInv'
    BY <1>3, LockInv, Zenon
<1>4. ASSUME NEW w \in Writer, insertRows(w) PROVE AuditInv'
    BY <1>4, InsertInv, Zenon
<1>5. ASSUME NEW w \in Writer, statementFails(w) PROVE AuditInv'
    BY <1>5, StatementFailsInv, Zenon
<1>6. CASE purgeExpired
    BY <1>6, Zenon DEF purgeExpired, AuditInv, Serial
<1>7. CASE UNCHANGED auditVars
    <2>1. UNCHANGED <<rows, lastSeq, writer, verifier, violations, purged, appendsOverlapped>>
        BY <1>7, Zenon DEF auditVars
    <2>2. Serial' => Serial
        BY <2>1, Zenon DEF Serial
    <2> QED BY <2>1, <2>2, RowsStay, Zenon DEF AuditInv, AuditTypeOK, Walk, Clean
<1> QED BY <1>1, <1>2, <1>3, <1>4, <1>5, <1>6, <1>7, VerifyInv, FetchBatchInv, CheckRowInv, Zenon DEF AuditNext

(***************************************************************************)
(* Rows that are written by one statement after another are a chain, and   *)
(* the verifier that walks it in batches has left no row out (append,      *)
(* appendBatch, verify), for any number of writers, rows, batches and      *)
(* failures.                                                               *)
(***************************************************************************)
THEOREM AuditInvariant == AuditSpec => []AuditInv
BY AuditInitInv, AuditStepInv, PTL DEF AuditSpec

(***************************************************************************)
(* The verifier never reports a broken link of a chain that serial         *)
(* statements wrote (verify and checkRow of the audit chain), wherever its *)
(* batches end and whatever gaps failed statements left.                   *)
(***************************************************************************)
THEOREM SerialAppendsVerify == AuditSpec => []SerialChainVerifies
<1>1. AuditInv => SerialChainVerifies
    <2> SUFFICES ASSUME AuditInv, Serial PROVE ChainLinked /\ Clean(violations)
        BY Zenon DEF SerialChainVerifies, Serial, Clean
    <2>1. AuditTypeOK /\ Chain /\ Clean(violations)
        BY Zenon DEF AuditInv
    <2>2. \A r \in rows : r.prev = before(r)
        BY <2>1, LinkedIsBefore, Zenon DEF Chain
    <2> QED BY <2>1, <2>2, Zenon DEF ChainLinked
<1> QED BY <1>1, AuditInvariant, PTL

(***************************************************************************)
(* Imports.  The lock makes the requests take turns, and the checkpoint    *)
(* says which rows are applied.                                            *)
(***************************************************************************)

\* Adding one to an entry of a table of counters.
LEMMA TableUpdate ==
    ASSUME NEW F, NEW S, NEW t \in [F -> [S -> Nat]], NEW f \in F, NEW n \in S
    PROVE  LET u == [t EXCEPT ![f][n] = @ + 1]
           IN  /\ u \in [F -> [S -> Nat]]
               /\ u[f][n] = t[f][n] + 1
               /\ \A g \in F, m \in S : g # f \/ m # n => u[g][m] = t[g][m]
<1> DEFINE row == [t[f] EXCEPT ![n] = t[f][n] + 1]
           u == [t EXCEPT ![f] = row]
<1>1. t[f] \in [S -> Nat]
    BY Zenon
<1>2. row \in [S -> Nat] /\ row[n] = t[f][n] + 1 /\ \A m \in S \ {n} : row[m] = t[f][m]
    BY <1>1
<1> HIDE DEF row
<1>3. u \in [F -> [S -> Nat]] /\ u[f] = row /\ \A g \in F \ {f} : u[g] = t[g]
    BY <1>2, Zenon
<1>4. u = [t EXCEPT ![f][n] = @ + 1]
    BY Zenon DEF row
<1> HIDE DEF u
<1>5. u[f][n] = t[f][n] + 1
    BY <1>2, <1>3, Zenon
<1>6. \A g \in F, m \in S : g # f \/ m # n => u[g][m] = t[g][m]
    BY <1>2, <1>3, Zenon
<1> QED BY <1>3, <1>4, <1>5, <1>6, Zenon

\* The request that holds the lock and applies rows.
AtWork(q) == request[q].at \in {"rows", "upsert"}

Checkpoint == [file: File \cup {NoFile}, acceptedRows: SUBSET Row, completed: BOOLEAN]
RequestState == [at: {"idle", "queued", "rows", "upsert"}, file: File \cup {NoFile},
                 row: 0..(RowCount + 1), retryable: SUBSET Row]

\* Checkpoint, queue, requests and the rows applied so far.
ImportTypeOK ==
    /\ saved \in Checkpoint
    /\ lockQueue \in Seq(Request)
    /\ request \in [Request -> RequestState]
    /\ upserts \in [File -> [Row -> Nat]]
    /\ importRestarts \in Nat /\ importFaults \in Nat

\* The lock: a request that is not idle is in the queue, the one at work first.
Queued ==
    \A q \in Request :
        /\ request[q].at # "idle" => \E i \in 1..Len(lockQueue) : lockQueue[i] = q
        /\ AtWork(q) => Head(lockQueue) = q

\* The request at work and the checkpoint: they are about the same file, a row
\* is sent only if it is not accepted, and the rows it has passed are accepted
\* or retryable.
InStep ==
    \A q \in Request :
        /\ request[q].at # "idle" => request[q].file \in File
        /\ AtWork(q) =>
              /\ request[q].file = saved.file /\ request[q].row > 0
              /\ \A n \in Row : n < request[q].row => n \in saved.acceptedRows \cup request[q].retryable
        /\ request[q].at = "upsert" => request[q].row \in Row \ saved.acceptedRows

\* How often a row can have been applied, given whether it is accepted now.
CountOK(u, f, n) ==
    /\ u <= 1 + importFaults
    /\ ~(f = saved.file /\ n \in saved.acceptedRows) => u <= importFaults
    /\ f = saved.file /\ n \in saved.acceptedRows => u > 0
    /\ importRestarts = 0 /\ f # saved.file => u = 0

\* The rows applied, the accepted ones and the answer completed agree.
RowsApplied ==
    /\ \A f \in File, n \in Row : CountOK(upserts[f][n], f, n)
    /\ saved.file = NoFile => saved.acceptedRows = {}
    /\ saved.completed => saved.file \in File /\ saved.acceptedRows = Row

\* The inductive invariant of the importer.
ImportInv == ImportTypeOK /\ Queued /\ InStep /\ RowsApplied

\* At most one request is at work.
LEMMA OneAtWork ==
    ASSUME ImportInv, NEW q \in Request, AtWork(q), NEW p \in Request, p # q
    PROVE  ~AtWork(p)
BY Zenon DEF ImportInv, Queued

\* A request whose turn it is, or that is at work, is the head of the queue.
LEMMA HeadOfQueue ==
    ASSUME ImportInv, NEW q \in Request, request[q].at # "idle"
    PROVE  lockQueue # <<>>
BY DEF ImportInv, ImportTypeOK, Queued

LEMMA CommitInv == ASSUME ImportInv, NEW q \in Request, commitImportFile(q) PROVE ImportInv'
<1> USE ImportAssumption
<1>1. PICK f \in File : request' = [request EXCEPT ![q] = [at |-> "queued", file |-> f, row |-> 0, retryable |-> {}]]
    BY Zenon DEF commitImportFile
<1>2. /\ request[q].at = "idle" /\ lockQueue' = Append(lockQueue, q)
      /\ UNCHANGED <<saved, upserts, importRestarts, importFaults>>
    BY Zenon DEF commitImportFile
<1>3. /\ request' \in [Request -> RequestState]
      /\ request'[q].at = "queued" /\ request'[q].file = f
      /\ \A p \in Request \ {q} : request'[p] = request[p]
    BY <1>1 DEF ImportInv, ImportTypeOK, RequestState
<1>4. ImportTypeOK'
    BY <1>2, <1>3 DEF ImportInv, ImportTypeOK
<1>5. Queued'
    <2>1. /\ Len(lockQueue') = Len(lockQueue) + 1 /\ lockQueue'[Len(lockQueue) + 1] = q
          /\ Len(lockQueue) \in Nat
          /\ \A i \in 1..Len(lockQueue) : lockQueue'[i] = lockQueue[i]
          /\ lockQueue # <<>> => Head(lockQueue') = Head(lockQueue)
        BY <1>2 DEF ImportInv, ImportTypeOK
    <2>2. \A p \in Request \ {q} : request[p].at # "idle" => lockQueue # <<>>
        BY HeadOfQueue, Zenon
    <2> QED BY <1>3, <2>1, <2>2 DEF ImportInv, Queued, AtWork
<1>6. InStep'
    BY <1>2, <1>3, SMTT(30) DEF ImportInv, InStep, AtWork
<1>7. RowsApplied'
    BY <1>2 DEF ImportInv, RowsApplied, CountOK
<1> QED BY <1>4, <1>5, <1>6, <1>7, Zenon DEF ImportInv

\* The head of the queue leaves it, and its request ends.
LEMMA LeaveInv ==
    ASSUME ImportInv, NEW q \in Request, lockQueue # <<>>, Head(lockQueue) = q, lockQueue' = Tail(lockQueue),
           request' = [request EXCEPT ![q] = IdleRequest]
    PROVE  /\ Queued' /\ lockQueue' \in Seq(Request)
           /\ request' \in [Request -> RequestState]
           /\ request'[q].at = "idle" /\ \A p \in Request \ {q} : request'[p] = request[p] /\ ~AtWork(p)
<1> USE ImportAssumption
<1>1. request' = [request EXCEPT ![q] = [at |-> "idle", file |-> NoFile, row |-> 0, retryable |-> {}]]
    BY Zenon DEF IdleRequest
<1>2. request'[q].at = "idle" /\ \A p \in Request \ {q} : request'[p] = request[p]
    BY <1>1 DEF ImportInv, ImportTypeOK
<1>3. \A p \in Request \ {q} : ~AtWork(p)
    BY Zenon DEF ImportInv, Queued
<1>4. lockQueue' \in Seq(Request)
    BY DEF ImportInv, ImportTypeOK
<1>5. request' \in [Request -> RequestState]
    BY <1>1 DEF ImportInv, ImportTypeOK, RequestState
<1>6. ASSUME NEW p \in Request, request'[p].at # "idle"
      PROVE  (\E i \in 1..Len(lockQueue') : lockQueue'[i] = p) /\ ~AtWork(p)'
    <2>1. p # q /\ request'[p] = request[p] /\ ~AtWork(p)
        BY <1>2, <1>3, <1>6, Zenon
    <2>2. PICK i \in 1..Len(lockQueue) : lockQueue[i] = p
        BY <1>6, <2>1, Zenon DEF ImportInv, Queued
    <2>3. i # 1 /\ i - 1 \in 1..Len(Tail(lockQueue)) /\ Tail(lockQueue)[i - 1] = lockQueue[i]
        BY <2>1, <2>2 DEF ImportInv, ImportTypeOK
    <2> QED BY <2>1, <2>2, <2>3, Zenon DEF AtWork
<1> QED BY <1>2, <1>3, <1>4, <1>5, <1>6, Zenon DEF Queued, AtWork

LEMMA ExecuteInv == ASSUME ImportInv, NEW q \in Request, executeCommit(q) PROVE ImportInv'
<1> USE ImportAssumption
<1>1. /\ request[q].at = "queued" /\ Head(lockQueue) = q /\ lockQueue # <<>>
      /\ UNCHANGED <<upserts, importRestarts, importFaults>> /\ request[q].file \in File
      /\ request[q] \in RequestState
    BY HeadOfQueue, Zenon DEF executeCommit, hasTurn, ImportInv, ImportTypeOK, InStep
<1>2. CASE saved.file \in File \ {request[q].file}
    <2>1. request' = [request EXCEPT ![q] = IdleRequest] /\ lockQueue' = Tail(lockQueue) /\ saved' = saved
        BY <1>2, Zenon DEF executeCommit, passedOn
    <2>2. /\ Queued' /\ lockQueue' \in Seq(Request)
          /\ request' \in [Request -> RequestState]
          /\ request'[q].at = "idle" /\ \A p \in Request \ {q} : request'[p] = request[p] /\ ~AtWork(p)
        BY <1>1, <2>1, LeaveInv, Zenon
    <2>3. ImportTypeOK' /\ RowsApplied'
        BY <1>1, <2>1, <2>2, SMTT(30) DEF ImportInv, ImportTypeOK, RowsApplied, CountOK
    <2>4. InStep'
        BY <2>1, <2>2, Zenon DEF ImportInv, InStep, AtWork
    <2> QED BY <2>2, <2>3, <2>4, Zenon DEF ImportInv
<1>3. CASE saved.file \notin File \ {request[q].file}
    <2>1. /\ request' = [request EXCEPT ![q].at = "rows", ![q].row = 1] /\ lockQueue' = lockQueue
          /\ saved' = IF saved.file = NoFile THEN [NoCheckpoint EXCEPT !.file = request[q].file] ELSE saved
        BY <1>3, Zenon DEF executeCommit
    <2>2. /\ request'[q].at = "rows" /\ request'[q].row = 1 /\ request'[q].file = request[q].file
          /\ \A p \in Request \ {q} : request'[p] = request[p] /\ ~AtWork(p)
        BY <1>1, <2>1 DEF ImportInv, ImportTypeOK, RequestState, Queued
    <2>3. /\ saved'.file = request[q].file
          /\ saved' = saved \/ (saved.file = NoFile /\ saved' = [file |-> request[q].file, acceptedRows |-> {}, completed |-> FALSE])
        <3>1. saved.file = NoFile => saved' = [file |-> request[q].file, acceptedRows |-> {}, completed |-> FALSE]
            BY <2>1, Zenon DEF NoCheckpoint
        <3>2. saved.file # NoFile => saved' = saved /\ saved.file = request[q].file
            BY <1>3, <2>1, Zenon DEF ImportInv, ImportTypeOK, Checkpoint
        <3>3. [file |-> request[q].file, acceptedRows |-> {}, completed |-> FALSE].file = request[q].file
            BY Zenon
        <3> QED BY <3>1, <3>2, <3>3, Zenon
    <2>4. ImportTypeOK'
        <3>1. saved' \in Checkpoint
            <4>1. request[q].file \in File \cup {NoFile} /\ {} \in SUBSET Row /\ FALSE \in BOOLEAN
                BY <1>1, Zenon
            <4>2. [file |-> request[q].file, acceptedRows |-> {}, completed |-> FALSE] \in Checkpoint
                BY <4>1, Zenon DEF Checkpoint
            <4> QED BY <2>3, <4>2, Zenon DEF ImportInv, ImportTypeOK
        <3>2. request' \in [Request -> RequestState]
            <4>1. 1 \in 0..(RowCount + 1)
                OBVIOUS
            <4> QED BY <1>1, <2>1, <4>1, Zenon DEF ImportInv, ImportTypeOK, RequestState
        <3> QED BY <1>1, <2>1, <3>1, <3>2, Zenon DEF ImportInv, ImportTypeOK
    <2>5. Queued'
        BY <1>1, <2>1, <2>2, ZenonT(40) DEF ImportInv, Queued, AtWork
    <2>6. InStep'
        BY <1>1, <2>2, <2>3, <2>4 DEF ImportInv, InStep, AtWork, Row
    <2>7. RowsApplied'
        <3>1. CASE saved' = saved
            BY <1>1, <3>1, SMTT(30) DEF ImportInv, RowsApplied, CountOK
        <3>2. CASE saved.file = NoFile /\ saved' = [file |-> request[q].file, acceptedRows |-> {}, completed |-> FALSE]
            <4>1. saved'.acceptedRows = {} /\ saved'.completed = FALSE /\ saved.acceptedRows = {}
                BY <3>2, Zenon DEF ImportInv, RowsApplied, CountOK
            <4> QED BY <1>1, <2>3, <3>2, <4>1 DEF ImportInv, RowsApplied, CountOK, ImportTypeOK
        <3> QED BY <2>3, <3>1, <3>2, Zenon
    <2> QED BY <2>4, <2>5, <2>6, <2>7, Zenon DEF ImportInv
<1> QED BY <1>2, <1>3, Zenon

(***************************************************************************)
(* A step of the request at work: its row advances by one or it sends that *)
(* row, and the queue stays.                                               *)
(***************************************************************************)
LEMMA WorkerStep ==
    ASSUME ImportInv, NEW q \in Request, AtWork(q), lockQueue' = lockQueue,
           request' \in [Request -> RequestState], request'[q].at \in {"rows", "upsert"},
           \A p \in Request \ {q} : request'[p] = request[p]
    PROVE  Queued' /\ \A p \in Request \ {q} : request'[p] = request[p] /\ ~AtWork(p) /\ ~AtWork(p)'
BY DEF ImportInv, Queued, AtWork

\* What such a step has to establish for InStep.
LEMMA WorkerInStep ==
    ASSUME ImportInv, NEW q \in Request, AtWork(q), request'[q].at \in {"rows", "upsert"},
           \A p \in Request \ {q} : request'[p] = request[p] /\ ~AtWork(p) /\ ~AtWork(p)',
           request'[q].file = request[q].file, saved'.file = saved.file, request'[q].row > 0,
           \A n \in Row : n < request'[q].row => n \in saved'.acceptedRows \cup request'[q].retryable,
           request'[q].at = "upsert" => request'[q].row \in Row \ saved'.acceptedRows
    PROVE  InStep'
<1>1. ASSUME NEW p \in Request, p # q
      PROVE  /\ request'[p].at # "idle" => request'[p].file \in File
             /\ ~AtWork(p)' /\ request'[p].at # "upsert"
    BY <1>1, Zenon DEF ImportInv, InStep, AtWork
<1>2. request'[q].file \in File /\ request'[q].file = saved'.file
    BY Zenon DEF ImportInv, InStep, AtWork
<1> QED BY <1>1, <1>2, Zenon DEF InStep

\* The row after a row of the file is a row, or the end.
LEMMA RowFollows == \A n \in Row : n + 1 \in 0..(RowCount + 1)
BY ImportAssumption DEF Row

LEMMA SkipInv == ASSUME ImportInv, NEW q \in Request, skipAccepted(q) PROVE ImportInv'
<1> USE ImportAssumption
<1>1. /\ request[q].at = "rows" /\ request[q].row \in saved.acceptedRows
      /\ request' = [request EXCEPT ![q].row = @ + 1]
      /\ UNCHANGED <<saved, lockQueue, upserts, importRestarts, importFaults>>
    BY Zenon DEF skipAccepted
<1>2. request[q].row \in Row
    BY <1>1, Zenon DEF ImportInv, ImportTypeOK, Checkpoint
<1>3. /\ request' \in [Request -> RequestState]
      /\ \A p \in Request \ {q} : request'[p] = request[p]
      /\ request'[q].at = "rows" /\ request'[q].row = request[q].row + 1
      /\ request'[q].file = request[q].file /\ request'[q].retryable = request[q].retryable
    <2> DEFINE next == [request[q] EXCEPT !.row = request[q].row + 1]
    <2>1. request \in [Request -> RequestState] /\ request[q] \in RequestState
        BY Zenon DEF ImportInv, ImportTypeOK
    <2>2. request[q].row + 1 \in 0..(RowCount + 1)
        BY <1>2, RowFollows, Zenon
    <2>3. request' = [request EXCEPT ![q] = next]
        BY <1>1, Zenon
    <2>4. /\ next \in RequestState /\ next.at = request[q].at /\ next.row = request[q].row + 1
          /\ next.file = request[q].file /\ next.retryable = request[q].retryable
        BY <2>1, <2>2, Zenon DEF RequestState
    <2> HIDE DEF next
    <2> QED BY <1>1, <2>1, <2>3, <2>4, Zenon
<1>4. Queued' /\ \A p \in Request \ {q} : request'[p] = request[p] /\ ~AtWork(p) /\ ~AtWork(p)'
    BY <1>1, <1>3, WorkerStep, Zenon DEF AtWork
<1>5. ImportTypeOK' /\ RowsApplied'
    BY <1>1, <1>3 DEF ImportInv, ImportTypeOK, RowsApplied, CountOK
<1>6. \A n \in Row : n < request'[q].row => n \in saved'.acceptedRows \cup request'[q].retryable
    <2>1. \A n \in Row : n < request[q].row => n \in saved.acceptedRows \cup request[q].retryable
        BY <1>1, Zenon DEF ImportInv, InStep, AtWork
    <2> QED BY <1>1, <1>2, <1>3, <2>1 DEF Row
<1>7. InStep'
    BY <1>1, <1>2, <1>3, <1>4, <1>6, WorkerInStep DEF AtWork, Row
<1> QED BY <1>4, <1>5, <1>7, Zenon DEF ImportInv

LEMMA SendInv == ASSUME ImportInv, NEW q \in Request, sendUpsert(q) PROVE ImportInv'
<1> USE ImportAssumption
<1>1. /\ request[q].at = "rows" /\ request[q].row \in Row \ saved.acceptedRows
      /\ request' = [request EXCEPT ![q].at = "upsert"]
      /\ UNCHANGED <<saved, lockQueue, upserts, importRestarts, importFaults>>
    BY Zenon DEF sendUpsert
<1>2. /\ request' \in [Request -> RequestState]
      /\ \A p \in Request \ {q} : request'[p] = request[p]
      /\ request'[q].at = "upsert" /\ request'[q].row = request[q].row
      /\ request'[q].file = request[q].file /\ request'[q].retryable = request[q].retryable
    BY <1>1, Zenon DEF ImportInv, ImportTypeOK, RequestState
<1>3. Queued' /\ \A p \in Request \ {q} : request'[p] = request[p] /\ ~AtWork(p) /\ ~AtWork(p)'
    BY <1>1, <1>2, WorkerStep, Zenon DEF AtWork
<1>4. ImportTypeOK' /\ RowsApplied'
    BY <1>1, <1>2 DEF ImportInv, ImportTypeOK, RowsApplied, CountOK
<1>5. InStep'
    BY <1>1, <1>2, <1>3 DEF ImportInv, InStep, AtWork
<1> QED BY <1>3, <1>4, <1>5, Zenon DEF ImportInv

\* applied(q) adds one to the row that q has sent, and to no other.
LEMMA AppliedCounts ==
    ASSUME ImportInv, NEW q \in Request, request[q].at = "upsert"
    PROVE  /\ request[q].file \in File /\ request[q].file = saved.file
           /\ request[q].row \in Row \ saved.acceptedRows
           /\ applied(q) \in [File -> [Row -> Nat]]
           /\ applied(q)[request[q].file][request[q].row] = upserts[request[q].file][request[q].row] + 1
           /\ \A f \in File, n \in Row :
                 f # request[q].file \/ n # request[q].row => applied(q)[f][n] = upserts[f][n]
<1>1. /\ request[q].file \in File /\ request[q].file = saved.file
      /\ request[q].row \in Row \ saved.acceptedRows
    BY Zenon DEF ImportInv, InStep, AtWork
<1>2. upserts \in [File -> [Row -> Nat]]
    BY Zenon DEF ImportInv, ImportTypeOK
<1> QED BY <1>1, <1>2, TableUpdate, SMTT(30) DEF applied

LEMMA UpsertInv == ASSUME ImportInv, NEW q \in Request, upsertRow(q) PROVE ImportInv'
<1> USE ImportAssumption
<1>1. /\ request[q].at = "upsert" /\ upserts' = applied(q)
      /\ saved' = [saved EXCEPT !.acceptedRows = @ \cup {request[q].row}]
      /\ request' = [request EXCEPT ![q].at = "rows", ![q].row = @ + 1]
      /\ UNCHANGED <<lockQueue, importRestarts, importFaults>>
    BY Zenon DEF upsertRow
<1>2. /\ request[q].file \in File /\ request[q].file = saved.file
      /\ request[q].row \in Row \ saved.acceptedRows
      /\ upserts' \in [File -> [Row -> Nat]]
      /\ upserts'[request[q].file][request[q].row] = upserts[request[q].file][request[q].row] + 1
      /\ \A f \in File, n \in Row :
            f # request[q].file \/ n # request[q].row => upserts'[f][n] = upserts[f][n]
    BY <1>1, AppliedCounts
<1>3. /\ request' \in [Request -> RequestState]
      /\ \A p \in Request \ {q} : request'[p] = request[p]
      /\ request'[q].at = "rows" /\ request'[q].row = request[q].row + 1
      /\ request'[q].file = request[q].file /\ request'[q].retryable = request[q].retryable
    <2> DEFINE next == [request[q] EXCEPT !.at = "rows", !.row = request[q].row + 1]
    <2>1. request \in [Request -> RequestState] /\ request[q] \in RequestState
        BY Zenon DEF ImportInv, ImportTypeOK
    <2>2. request[q].row + 1 \in 0..(RowCount + 1)
        BY <1>2, RowFollows, Zenon
    <2>3. request' = [request EXCEPT ![q] = next]
        BY <1>1, Zenon
    <2>4. /\ next \in RequestState /\ next.at = "rows" /\ next.row = request[q].row + 1
          /\ next.file = request[q].file /\ next.retryable = request[q].retryable
        BY <2>1, <2>2, Zenon DEF RequestState
    <2> HIDE DEF next
    <2> QED BY <2>1, <2>3, <2>4, Zenon
<1>4. /\ saved' \in Checkpoint /\ saved'.file = saved.file
      /\ saved'.acceptedRows = saved.acceptedRows \cup {request[q].row}
      /\ saved'.completed = saved.completed
    <2>1. saved.acceptedRows \cup {request[q].row} \in SUBSET Row
        BY <1>2, Zenon DEF ImportInv, ImportTypeOK, Checkpoint
    <2> QED BY <1>1, <2>1, Zenon DEF ImportInv, ImportTypeOK, Checkpoint
<1>5. Queued' /\ \A p \in Request \ {q} : request'[p] = request[p] /\ ~AtWork(p) /\ ~AtWork(p)'
    BY <1>1, <1>3, WorkerStep, Zenon DEF AtWork
<1>6. ImportTypeOK'
    BY <1>1, <1>2, <1>3, <1>4, Zenon DEF ImportInv, ImportTypeOK
<1>7. InStep'
    <2>1. \A n \in Row : n < request[q].row => n \in saved.acceptedRows \cup request[q].retryable
        BY <1>1, Zenon DEF ImportInv, InStep, AtWork
    <2>2. \A n \in Row : n < request'[q].row => n \in saved'.acceptedRows \cup request'[q].retryable
        BY <1>2, <1>3, <1>4, <2>1 DEF Row
    <2>3. request'[q].row > 0
        BY <1>2, <1>3 DEF Row
    <2>4. AtWork(q) /\ request'[q].at \in {"rows", "upsert"} /\ request'[q].at # "upsert"
        BY <1>1, <1>3, Zenon DEF AtWork
    <2> QED BY <1>3, <1>4, <1>5, <2>2, <2>3, <2>4, WorkerInStep, Zenon
<1>8. RowsApplied'
    <2>1. ASSUME NEW f \in File, NEW n \in Row
          PROVE  CountOK(upserts[f][n], f, n)'
        <3>1. upserts[f][n] \in Nat /\ importFaults \in Nat /\ CountOK(upserts[f][n], f, n)
            BY DEF ImportInv, ImportTypeOK, RowsApplied, CountOK
        <3>2. CASE f = request[q].file /\ n = request[q].row
            <4>1. upserts'[f][n] = upserts[f][n] + 1
                BY <1>2, <3>2, Zenon
            <4> QED BY <1>1, <1>2, <1>4, <3>1, <3>2, <4>1 DEF CountOK
        <3>3. CASE f # request[q].file \/ n # request[q].row
            <4>1. upserts'[f][n] = upserts[f][n]
                BY <1>2, <3>3, SMTT(30)
            <4> QED BY <1>1, <1>2, <1>4, <3>1, <3>3, <4>1 DEF CountOK
        <3> QED BY <3>2, <3>3, Zenon
    <2>2. saved'.completed => saved'.file \in File /\ saved'.acceptedRows = Row
        BY <1>2, <1>4, Zenon DEF ImportInv, RowsApplied, CountOK
    <2>3. saved'.file # NoFile
        BY <1>2, <1>4
    <2> QED BY <2>1, <2>2, <2>3, Zenon DEF RowsApplied, CountOK
<1> QED BY <1>5, <1>6, <1>7, <1>8, Zenon DEF ImportInv

LEMMA UpsertFailsInv == ASSUME ImportInv, NEW q \in Request, upsertFails(q) PROVE ImportInv'
<1> USE ImportAssumption
<1> DEFINE failedRow == request[q].row
<1>1. /\ request[q].at = "upsert" /\ upserts' \in {upserts, applied(q)}
      /\ saved' = [saved EXCEPT !.acceptedRows = @ \ {failedRow}]
      /\ request' = [request EXCEPT ![q].at = "rows", ![q].row = @ + 1, ![q].retryable = @ \cup {request[q].row}]
      /\ importFaults' = importFaults + 1 /\ UNCHANGED <<lockQueue, importRestarts>>
    BY Zenon DEF upsertFails
<1>2. /\ request[q].file \in File /\ request[q].file = saved.file
      /\ failedRow \in Row \ saved.acceptedRows
      /\ upserts' \in [File -> [Row -> Nat]]
      /\ \A f \in File, n \in Row :
            /\ f # request[q].file \/ n # failedRow => upserts'[f][n] = upserts[f][n]
            /\ upserts'[f][n] \in {upserts[f][n], upserts[f][n] + 1}
    <2>1. /\ request[q].file \in File /\ request[q].file = saved.file
          /\ failedRow \in Row \ saved.acceptedRows
          /\ applied(q) \in [File -> [Row -> Nat]]
          /\ applied(q)[request[q].file][failedRow] = upserts[request[q].file][failedRow] + 1
          /\ \A f \in File, n \in Row :
                f # request[q].file \/ n # failedRow => applied(q)[f][n] = upserts[f][n]
        BY <1>1, AppliedCounts, Zenon
    <2>2. upserts \in [File -> [Row -> Nat]]
        BY Zenon DEF ImportInv, ImportTypeOK
    <2> HIDE DEF failedRow
    <2>3. CASE upserts' = upserts
        BY <2>1, <2>2, <2>3, Zenon
    <2>4. CASE upserts' = applied(q)
        BY <2>1, <2>2, <2>4
    <2> QED BY <1>1, <2>3, <2>4
<1>3. /\ request' \in [Request -> RequestState]
      /\ \A p \in Request \ {q} : request'[p] = request[p]
      /\ request'[q].at = "rows" /\ request'[q].row = failedRow + 1
      /\ request'[q].file = request[q].file /\ request'[q].retryable = request[q].retryable \cup {failedRow}
    <2> DEFINE next == [request[q] EXCEPT !.at = "rows", !.row = failedRow + 1,
                                          !.retryable = request[q].retryable \cup {failedRow}]
    <2>1. request \in [Request -> RequestState] /\ request[q] \in RequestState
        BY Zenon DEF ImportInv, ImportTypeOK
    <2>2. failedRow + 1 \in 0..(RowCount + 1)
        BY <1>2, RowFollows, Zenon
    <2>3. request' = [request EXCEPT ![q] = next]
        BY <1>1, Zenon
    <2>4. request[q].retryable \cup {failedRow} \in SUBSET Row
        BY <1>2, <2>1, Zenon DEF RequestState
    <2>5. /\ next \in RequestState /\ next.at = "rows" /\ next.row = failedRow + 1
          /\ next.file = request[q].file /\ next.retryable = request[q].retryable \cup {failedRow}
        BY <2>1, <2>2, <2>4, Zenon DEF RequestState
    <2> HIDE DEF next, failedRow
    <2> QED BY <2>1, <2>3, <2>5, Zenon
<1>4. saved' = saved
    <2>1. saved.acceptedRows \ {failedRow} = saved.acceptedRows
        BY <1>2, Zenon
    <2> QED BY <1>1, <2>1, Zenon DEF ImportInv, ImportTypeOK, Checkpoint
<1> HIDE DEF failedRow
<1>5. Queued' /\ \A p \in Request \ {q} : request'[p] = request[p] /\ ~AtWork(p) /\ ~AtWork(p)'
    BY <1>1, <1>3, WorkerStep DEF AtWork
<1>6. ImportTypeOK'
    <2>1. importFaults' = importFaults + 1 /\ UNCHANGED <<lockQueue, importRestarts>>
        BY <1>1, Zenon
    <2>2. importFaults' \in Nat /\ importRestarts' \in Nat /\ lockQueue' \in Seq(Request) /\ saved' \in Checkpoint
        BY <1>4, <2>1, SMTT(30) DEF ImportInv, ImportTypeOK
    <2> QED BY <1>2, <1>3, <2>2 DEF ImportTypeOK
<1>7. InStep'
    <2>1. \A n \in Row : n < failedRow => n \in saved.acceptedRows \cup request[q].retryable
        BY <1>1, Zenon DEF ImportInv, InStep, AtWork, failedRow
    <2>2. \A n \in Row : n < request'[q].row => n \in saved'.acceptedRows \cup request'[q].retryable
        BY <1>2, <1>3, <1>4, <2>1 DEF Row
    <2> QED BY <1>1, <1>2, <1>3, <1>4, <1>5, <2>2, WorkerInStep, SMTT(30) DEF AtWork, Row
<1>8. RowsApplied'
    <2>1. ASSUME NEW f \in File, NEW n \in Row
          PROVE  CountOK(upserts[f][n], f, n)'
        <3>1. /\ upserts[f][n] \in Nat /\ importFaults \in Nat /\ upserts'[f][n] \in Nat
              /\ CountOK(upserts[f][n], f, n)
            BY <1>2 DEF ImportInv, ImportTypeOK, RowsApplied, CountOK
        <3>2. CASE f = request[q].file /\ n = failedRow
            <4>1. upserts'[f][n] \in {upserts[f][n], upserts[f][n] + 1}
                BY <1>2
            <4> QED BY <1>1, <1>2, <1>4, <3>1, <3>2, <4>1, SMTT(30) DEF CountOK
        <3>3. CASE f # request[q].file \/ n # failedRow
            <4>1. upserts'[f][n] = upserts[f][n]
                BY <1>2, <3>3, Zenon
            <4> QED BY <1>1, <1>2, <1>4, <3>1, <3>3, <4>1 DEF CountOK
        <3> QED BY <3>2, <3>3, SMTT(30)
    <2> QED BY <1>2, <1>4, <2>1, Zenon DEF ImportInv, RowsApplied, CountOK
<1> QED BY <1>5, <1>6, <1>7, <1>8, Zenon DEF ImportInv

LEMMA AnswerInv == ASSUME ImportInv, NEW q \in Request, answer(q) PROVE ImportInv'
<1> USE ImportAssumption
<1>1. /\ request[q].at = "rows" /\ request[q].row > RowCount
      /\ saved' = [saved EXCEPT !.completed = (request[q].retryable = {})]
      /\ request' = [request EXCEPT ![q] = IdleRequest] /\ lockQueue' = Tail(lockQueue)
      /\ UNCHANGED <<upserts, importRestarts, importFaults>>
    BY Zenon DEF answer, passedOn
<1>2. lockQueue # <<>> /\ Head(lockQueue) = q
    BY <1>1, HeadOfQueue, Zenon DEF ImportInv, Queued, AtWork
<1>3. /\ Queued' /\ lockQueue' \in Seq(Request)
      /\ request' \in [Request -> RequestState]
      /\ request'[q].at = "idle" /\ \A p \in Request \ {q} : request'[p] = request[p] /\ ~AtWork(p)
    BY <1>1, <1>2, LeaveInv, Zenon
<1>4. /\ saved' \in Checkpoint /\ saved'.file = saved.file /\ saved'.acceptedRows = saved.acceptedRows
      /\ saved'.completed <=> request[q].retryable = {}
    BY <1>1, Zenon DEF ImportInv, ImportTypeOK, Checkpoint
<1>5. ImportTypeOK'
    BY <1>1, <1>3, <1>4, SMTT(30) DEF ImportInv, ImportTypeOK
<1>6. InStep'
    BY <1>3 DEF ImportInv, InStep, AtWork
<1>7. request[q].retryable = {} => saved.acceptedRows = Row
    <2>1. \A n \in Row : n < request[q].row => n \in saved.acceptedRows \cup request[q].retryable
        BY <1>1, Zenon DEF ImportInv, InStep, AtWork
    <2>2. saved.acceptedRows \subseteq Row /\ request[q].row \in 0..(RowCount + 1)
        BY Zenon DEF ImportInv, ImportTypeOK, Checkpoint, RequestState
    <2>3. \A n \in Row : n < request[q].row
        BY <1>1, <2>2 DEF Row
    <2> QED BY <2>1, <2>2, <2>3, Zenon
<1>8. saved.file \in File
    BY <1>1, Zenon DEF ImportInv, InStep, AtWork
<1>9. RowsApplied'
    BY <1>1, <1>4, <1>7, <1>8 DEF ImportInv, RowsApplied, CountOK
<1> QED BY <1>3, <1>5, <1>6, <1>9, Zenon DEF ImportInv

LEMMA RestartInv == ASSUME ImportInv, processRestarts PROVE ImportInv'
<1> USE ImportAssumption
<1>1. /\ upserts' \in {upserts} \cup {applied(q) : q \in {p \in Request : request[p].at = "upsert"}}
      /\ saved' = NoCheckpoint /\ lockQueue' = <<>> /\ request' = [q \in Request |-> IdleRequest]
      /\ importRestarts' = importRestarts + 1 /\ importFaults' = importFaults + 1
    BY Zenon DEF processRestarts
<1>2. /\ saved'.file = NoFile /\ saved'.acceptedRows = {} /\ saved'.completed = FALSE /\ saved' \in Checkpoint
    BY <1>1, Zenon DEF NoCheckpoint, Checkpoint
<1>3. /\ request' \in [Request -> RequestState] /\ \A q \in Request : request'[q].at = "idle"
    BY <1>1 DEF IdleRequest, RequestState
<1>4. upserts \in [File -> [Row -> Nat]] /\ importRestarts \in Nat /\ importFaults \in Nat
    BY Zenon DEF ImportInv, ImportTypeOK
<1>5. /\ upserts' \in [File -> [Row -> Nat]]
      /\ \A f \in File, n \in Row : upserts'[f][n] <= importFaults + 1
    <2>1. CASE upserts' = upserts
        BY <1>4, <2>1 DEF ImportInv, RowsApplied, CountOK
    <2>2. ASSUME NEW q \in Request, request[q].at = "upsert", upserts' = applied(q)
          PROVE  /\ upserts' \in [File -> [Row -> Nat]]
                 /\ \A f \in File, n \in Row : upserts'[f][n] <= importFaults + 1
        <3>1. /\ request[q].file \in File /\ request[q].file = saved.file
              /\ request[q].row \in Row \ saved.acceptedRows
              /\ applied(q) \in [File -> [Row -> Nat]]
              /\ applied(q)[request[q].file][request[q].row] = upserts[request[q].file][request[q].row] + 1
              /\ \A f \in File, n \in Row :
                    f # request[q].file \/ n # request[q].row => applied(q)[f][n] = upserts[f][n]
            BY <2>2, AppliedCounts, Zenon
        <3>2. ASSUME NEW f \in File, NEW n \in Row PROVE upserts'[f][n] <= importFaults + 1
            <4>1. upserts[f][n] \in Nat /\ CountOK(upserts[f][n], f, n)
                BY <1>4, SMTT(30) DEF ImportInv, RowsApplied, CountOK
            <4>2. CASE f = request[q].file /\ n = request[q].row
                <5>1. upserts'[f][n] = upserts[f][n] + 1
                    BY <2>2, <3>1, <4>2
                <5> QED BY <1>4, <3>1, <4>1, <4>2, <5>1, SMTT(30) DEF CountOK
            <4>3. CASE f # request[q].file \/ n # request[q].row
                <5>1. upserts'[f][n] = upserts[f][n]
                    BY <2>2, <3>1, <4>3, Zenon
                <5> QED BY <1>4, <4>1, <5>1, SMTT(30) DEF CountOK
            <4> QED BY <4>2, <4>3, Zenon
        <3> QED BY <2>2, <3>1, <3>2, Zenon
    <2> QED BY <1>1, <2>1, <2>2, Zenon
<1>6. ImportTypeOK'
    BY <1>1, <1>2, <1>3, <1>4, <1>5 DEF ImportTypeOK
<1>7. Queued' /\ InStep'
    BY <1>3, Zenon DEF Queued, InStep, AtWork
<1>8. RowsApplied'
    BY <1>1, <1>2, <1>4, <1>5 DEF RowsApplied, CountOK
<1> QED BY <1>6, <1>7, <1>8, Zenon DEF ImportInv

LEMMA ImportInitInv == ImportInit => ImportInv
<1> SUFFICES ASSUME ImportInit PROVE ImportInv
    BY Zenon
<1> USE ImportAssumption
<1>1. saved.file = NoFile /\ saved.acceptedRows = {} /\ saved.completed = FALSE /\ saved \in Checkpoint
    BY Zenon DEF ImportInit, NoCheckpoint, Checkpoint
<1>2. request \in [Request -> RequestState] /\ \A q \in Request : request[q].at = "idle"
    BY DEF ImportInit, IdleRequest, RequestState
<1>3. /\ upserts \in [File -> [Row -> Nat]]
      /\ \A f \in File, n \in Row : upserts[f][n] = 0
    BY Zenon DEF ImportInit
<1>4. ImportTypeOK
    BY <1>1, <1>2, <1>3 DEF ImportInit, ImportTypeOK
<1>5. Queued /\ InStep
    BY <1>2, Zenon DEF Queued, InStep, AtWork
<1>6. RowsApplied
    BY <1>1, <1>3 DEF ImportInit, RowsApplied, CountOK
<1> QED BY <1>4, <1>5, <1>6, Zenon DEF ImportInv

LEMMA ImportStepInv == ImportInv /\ [ImportNext]_importVars => ImportInv'
<1> SUFFICES ASSUME ImportInv, [ImportNext]_importVars PROVE ImportInv'
    OBVIOUS
<1>1. CASE ImportNext
    BY <1>1, CommitInv, ExecuteInv, SkipInv, SendInv, UpsertInv, UpsertFailsInv, AnswerInv, RestartInv, ZenonT(40)
       DEF ImportNext
<1>2. CASE UNCHANGED importVars
    BY <1>2 DEF importVars, ImportInv, ImportTypeOK, Queued, InStep, RowsApplied, CountOK, AtWork
<1> QED BY <1>1, <1>2, Zenon

(***************************************************************************)
(* However often, and however concurrently, an import is asked for under   *)
(* its key, its rows are applied once, and once more at most for each      *)
(* fault; an import that reads completed has applied all of them           *)
(* (commitImportFile, execute() under withLock()).                         *)
(***************************************************************************)
THEOREM ImportsApplyRowsOnce == ImportSpec => []RowsImportedOnce
<1>1. ImportInv => RowsImportedOnce
    <2> SUFFICES ASSUME ImportInv PROVE RowsImportedOnce
        BY Zenon
    <2>1. \A f \in File, n \in Row : upserts[f][n] <= 1 + importFaults
        BY Zenon DEF ImportInv, RowsApplied, CountOK
    <2>2. importRestarts = 0 =>
             \A f, g \in File : f # g => \A m, n \in Row : upserts[f][m] = 0 \/ upserts[g][n] = 0
        BY Zenon DEF ImportInv, RowsApplied, CountOK
    <2>3. saved.completed => \A n \in Row : upserts[saved.file][n] > 0
        BY DEF ImportInv, RowsApplied, CountOK
    <2> QED BY <2>1, <2>2, <2>3 DEF RowsImportedOnce
<1> QED BY <1>1, ImportInitInv, ImportStepInv, PTL DEF ImportSpec
=============================================================================
