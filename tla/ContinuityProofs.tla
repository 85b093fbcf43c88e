--------------------------- MODULE ContinuityProofs ---------------------------
(***************************************************************************)
(* Where the notes of a session are, for any sessions, caps and numbers of  *)
(* notes.  The inductive invariant is a ledger kept for each session: its   *)
(* rows, what is queued, what is pending, how many notes there were and     *)
(* which are lost.  A lemma says of each thing that happens to a ledger     *)
(* that it keeps it, and every action is one or two of them for each        *)
(* session.                                                                 *)
(***************************************************************************)
EXTENDS Continuity, SequenceTheorems, TLAPS

(***************************************************************************)
(* Sequences                                                                *)
(***************************************************************************)

\* A sequence cut in two.
LEMMA Cut ==
  ASSUME NEW S, NEW s \in Seq(S), NEW m \in 0 .. Len(s)
  PROVE  LET a == SubSeq(s, 1, m)
             b == SubSeq(s, m + 1, Len(s))
         IN  /\ a \in Seq(S) /\ Len(a) = m
             /\ \A i \in 1 .. m : a[i] = s[i]
             /\ b \in Seq(S) /\ Len(b) = Len(s) - m
             /\ \A i \in 1 .. Len(s) - m : b[i] = s[m + i]
<1>1. Len(s) \in Nat /\ \A i \in 1 .. Len(s) : s[i] \in S
  BY LenProperties
<1>2. \A i \in 1 .. m : s[i] \in S
  BY <1>1
<1>3. \A i \in m + 1 .. Len(s) : s[i] \in S
  BY <1>1
<1>4. /\ SubSeq(s, 1, m) \in Seq(S) /\ Len(SubSeq(s, 1, m)) = m
      /\ \A i \in 1 .. m : SubSeq(s, 1, m)[i] = s[i]
  BY <1>1, <1>2
<1>5. /\ SubSeq(s, m + 1, Len(s)) \in Seq(S)
      /\ Len(SubSeq(s, m + 1, Len(s))) = Len(s) - m
      /\ \A i \in 1 .. Len(s) - m : SubSeq(s, m + 1, Len(s))[i] = s[m + i]
  BY <1>1, <1>3
<1>. QED BY <1>4, <1>5

LEMMA OverIsIn ==
  ASSUME NEW S, NEW s \in Seq(S), NEW n \in Nat
  PROVE  Over(s, n) \in 0 .. Len(s) /\ Len(s) - Over(s, n) <= n
  BY LenProperties DEF Over

\* The elements of a sequence without repetitions, once it is cut.
LEMMA CutInjective ==
  ASSUME NEW S, NEW s \in Seq(S), NEW m \in 0 .. Len(s), IsInjective(s)
  PROVE  LET a == SubSeq(s, 1, m)
             b == SubSeq(s, m + 1, Len(s))
         IN  /\ IsInjective(b)
             /\ Range(a) \cap Range(b) = {}
             /\ Range(a) \cup Range(b) = Range(s)
<1> DEFINE a == SubSeq(s, 1, m)
           b == SubSeq(s, m + 1, Len(s))
<1>1. Len(s) \in Nat /\ DOMAIN s = 1 .. Len(s)
  BY LenProperties
<1>2. /\ DOMAIN a = 1 .. m /\ DOMAIN b = 1 .. Len(s) - m
      /\ \A i \in 1 .. m : a[i] = s[i]
      /\ \A i \in 1 .. Len(s) - m : b[i] = s[m + i]
  BY Cut, LenProperties
<1> HIDE DEF a, b
<1>3. ASSUME NEW i \in DOMAIN b, NEW j \in DOMAIN b, b[i] = b[j] PROVE i = j
  <2>1. s[m + i] = s[m + j] /\ m + i \in DOMAIN s /\ m + j \in DOMAIN s
    BY <1>1, <1>2, <1>3
  <2>2. m + i = m + j
    BY <2>1 DEF IsInjective
  <2>. QED BY <1>1, <1>2, <2>2
<1>4. Range(a) \cap Range(b) = {}
  BY <1>1, <1>2 DEF IsInjective, Range
<1>5. Range(s) \subseteq Range(a) \cup Range(b)
  <2>1. SUFFICES ASSUME NEW i \in 1 .. Len(s)
                 PROVE  s[i] \in Range(a) \cup Range(b)
    BY <1>1 DEF Range
  <2>2. CASE i <= m
    BY <1>2, <2>2 DEF Range
  <2>3. CASE i > m
    <3>1. i - m \in 1 .. Len(s) - m /\ s[i] = b[i - m]
      BY <1>1, <1>2, <2>3
    <3>. QED BY <1>2, <3>1 DEF Range
  <2>. QED BY <2>2, <2>3
<1>6. Range(a) \cup Range(b) \subseteq Range(s)
  BY <1>1, <1>2 DEF Range
<1>. QED BY <1>3, <1>4, <1>5, <1>6 DEF a, b, IsInjective

LEMMA LatestKeeps ==
  ASSUME NEW s \in Seq(Nat), NEW n \in Nat, IsInjective(s)
  PROVE  /\ Latest(s, n) \in Seq(Nat) /\ Len(Latest(s, n)) <= n
         /\ IsInjective(Latest(s, n))
         /\ Range(Earlier(s, n)) \cap Range(Latest(s, n)) = {}
         /\ Range(Earlier(s, n)) \cup Range(Latest(s, n)) = Range(s)
<1> DEFINE m == Over(s, n)
<1>1. m \in 0 .. Len(s) /\ Len(s) - m <= n
  BY OverIsIn
<1> HIDE DEF m
<1>2. /\ SubSeq(s, m + 1, Len(s)) \in Seq(Nat)
      /\ Len(SubSeq(s, m + 1, Len(s))) = Len(s) - m
  BY <1>1, Cut
<1>3. /\ IsInjective(SubSeq(s, m + 1, Len(s)))
      /\ Range(SubSeq(s, 1, m)) \cap Range(SubSeq(s, m + 1, Len(s))) = {}
      /\ Range(SubSeq(s, 1, m)) \cup Range(SubSeq(s, m + 1, Len(s))) = Range(s)
  BY <1>1, CutInjective
<1>. QED BY <1>1, <1>2, <1>3 DEF m, Latest, Earlier

LEMMA EmptyKeeps ==
  /\ <<>> \in Seq(Nat) /\ IsInjective(<<>>) /\ Range(<<>>) = {}
  /\ Len(<<>>) = 0
  BY DEF IsInjective, Range

LEMMA AppendKeeps ==
  ASSUME NEW s \in Seq(Nat), NEW e \in Nat, IsInjective(s), e \notin Range(s)
  PROVE  /\ Append(s, e) \in Seq(Nat) /\ IsInjective(Append(s, e))
         /\ Range(Append(s, e)) = Range(s) \cup {e}
<1> DEFINE t == Append(s, e)
<1>1. Len(s) \in Nat /\ DOMAIN s = 1 .. Len(s)
  BY LenProperties
<1>2. /\ t \in Seq(Nat) /\ DOMAIN t = 1 .. Len(s) + 1
      /\ \A i \in 1 .. Len(s) : t[i] = s[i]
      /\ t[Len(s) + 1] = e
  BY <1>1
<1> HIDE DEF t
<1>3. ASSUME NEW i \in DOMAIN t, NEW j \in DOMAIN t, t[i] = t[j] PROVE i = j
  <2>1. \A l \in 1 .. Len(s) : t[l] \in Range(s)
    BY <1>1, <1>2 DEF Range
  <2>2. CASE i \in 1 .. Len(s) /\ j \in 1 .. Len(s)
    BY <1>1, <1>2, <1>3, <2>2 DEF IsInjective
  <2>3. CASE i = Len(s) + 1 \/ j = Len(s) + 1
    BY <1>1, <1>2, <1>3, <2>1, <2>3
  <2>. QED BY <1>1, <1>2, <2>2, <2>3
<1>4. Range(t) = Range(s) \cup {e}
  <2>1. \A i \in DOMAIN t : t[i] \in Range(s) \cup {e}
    <3>1. \A i \in 1 .. Len(s) : t[i] \in Range(s)
      BY <1>1, <1>2 DEF Range
    <3>. QED BY <1>1, <1>2, <3>1
  <2>2. \A i \in DOMAIN s : i \in DOMAIN t /\ t[i] = s[i]
    BY <1>1, <1>2
  <2>3. Len(s) + 1 \in DOMAIN t /\ t[Len(s) + 1] = e
    BY <1>1, <1>2
  <2>4. Range(t) \subseteq Range(s) \cup {e}
    BY <2>1 DEF Range
  <2>5. Range(s) \cup {e} \subseteq Range(t)
    BY <2>2, <2>3 DEF Range
  <2>. QED BY <2>4, <2>5
<1>. QED BY <1>2, <1>3, <1>4 DEF t, IsInjective

LEMMA ConcatKeeps ==
  ASSUME NEW s \in Seq(Nat), NEW t \in Seq(Nat), IsInjective(s),
         IsInjective(t), Range(s) \cap Range(t) = {}
  PROVE  /\ s \o t \in Seq(Nat) /\ IsInjective(s \o t)
         /\ Range(s \o t) = Range(s) \cup Range(t)
<1> DEFINE u == s \o t
<1>1. /\ Len(s) \in Nat /\ DOMAIN s = 1 .. Len(s)
      /\ Len(t) \in Nat /\ DOMAIN t = 1 .. Len(t)
  BY LenProperties
<1>2. /\ u \in Seq(Nat) /\ DOMAIN u = 1 .. Len(s) + Len(t)
      /\ \A i \in 1 .. Len(s) + Len(t) :
           u[i] = IF i <= Len(s) THEN s[i] ELSE t[i - Len(s)]
  BY <1>1
<1> HIDE DEF u
<1>3. ASSUME NEW i \in DOMAIN u
      PROVE  /\ i <= Len(s) => i \in DOMAIN s /\ u[i] = s[i]
             /\ i > Len(s) => i - Len(s) \in DOMAIN t /\ u[i] = t[i - Len(s)]
  <2>1. i \in 1 .. Len(s) + Len(t)
    BY <1>2
  <2>2. u[i] = IF i <= Len(s) THEN s[i] ELSE t[i - Len(s)]
    BY <1>2, <2>1
  <2>3. i > Len(s) => i - Len(s) \in 1 .. Len(t)
    BY <1>1, <2>1
  <2>. QED BY <1>1, <2>1, <2>2, <2>3
<1>4. ASSUME NEW i \in DOMAIN u, NEW j \in DOMAIN u, u[i] = u[j] PROVE i = j
  <2>1. i \in Nat /\ j \in Nat
    BY <1>1, <1>2
  <2>2. CASE i <= Len(s) /\ j <= Len(s)
    BY <1>3, <1>4, <2>2 DEF IsInjective
  <2>3. CASE i > Len(s) /\ j > Len(s)
    <3>1. i - Len(s) = j - Len(s)
      BY <1>3, <1>4, <2>3 DEF IsInjective
    <3>. QED BY <1>1, <2>1, <3>1
  <2>4. CASE i <= Len(s) /\ j > Len(s)
    <3>1. u[i] \in Range(s) /\ u[j] \in Range(t)
      BY <1>3, <2>4 DEF Range
    <3>. QED BY <1>4, <3>1
  <2>5. CASE i > Len(s) /\ j <= Len(s)
    <3>1. u[j] \in Range(s) /\ u[i] \in Range(t)
      BY <1>3, <2>5 DEF Range
    <3>. QED BY <1>4, <3>1
  <2>. QED BY <1>1, <2>1, <2>2, <2>3, <2>4, <2>5
<1>. QED BY <1>2, <1>4, RangeConcatenation DEF u, IsInjective

(***************************************************************************)
(* Rows                                                                     *)
(***************************************************************************)

RowNotes(rs) == UNION {Range(rs[i].notes) : i \in DOMAIN rs}

\* No note is in two rows, or twice in one.
Distinct(rs) ==
  /\ \A i \in DOMAIN rs : IsInjective(rs[i].notes)
  /\ \A i, j \in DOMAIN rs :
       i # j => Range(rs[i].notes) \cap Range(rs[j].notes) = {}

\* No row is about a later note than the n-th.
Dated(rs, n) == \A i \in DOMAIN rs : rs[i].upto <= n

EndsAreLatest(rs) ==
  \A i, j \in DOMAIN rs :
    i < j /\ "session_end" \in {rs[i].kind, rs[j].kind}
      => rs[i].upto <= rs[j].upto

\* A checkpoint about the notes up to this one may follow any session's end.
MayFollowEnds(rs, upto) ==
  \A i \in DOMAIN rs : rs[i].kind = "session_end" => rs[i].upto <= upto

LEMMA RowTyped ==
  ASSUME NEW rs \in Seq(Checkpoints), NEW i \in DOMAIN rs
  PROVE  /\ rs[i] \in Checkpoints /\ rs[i].notes \in Seq(Nat)
         /\ rs[i].upto \in Nat
<1>1. rs[i] \in Checkpoints
  BY LenProperties
<1>. QED BY <1>1 DEF Checkpoints

\* The older rows of a session go.
LEMMA RowsCut ==
  ASSUME NEW rs \in Seq(Checkpoints), NEW m \in 0 .. Len(rs), Distinct(rs)
  PROVE  LET a == SubSeq(rs, 1, m)
             b == SubSeq(rs, m + 1, Len(rs))
         IN  /\ b \in Seq(Checkpoints) /\ Len(b) = Len(rs) - m /\ Distinct(b)
             /\ RowNotes(a) \cap RowNotes(b) = {}
             /\ RowNotes(a) \cup RowNotes(b) = RowNotes(rs)
             /\ \A n : Dated(rs, n) => Dated(b, n)
             /\ EndsAreLatest(rs) => EndsAreLatest(b)
             /\ \A n : MayFollowEnds(rs, n) => MayFollowEnds(b, n)
<1> DEFINE a == SubSeq(rs, 1, m)
           b == SubSeq(rs, m + 1, Len(rs))
<1>1. Len(rs) \in Nat /\ DOMAIN rs = 1 .. Len(rs)
  BY LenProperties
<1>2. /\ b \in Seq(Checkpoints) /\ Len(b) = Len(rs) - m
      /\ DOMAIN a = 1 .. m /\ DOMAIN b = 1 .. Len(rs) - m
      /\ \A i \in 1 .. m : a[i] = rs[i]
      /\ \A i \in 1 .. Len(rs) - m : b[i] = rs[m + i]
  BY Cut, LenProperties
<1> HIDE DEF a, b
<1>3. ASSUME NEW i \in DOMAIN b
      PROVE  /\ i \in Nat /\ m + i \in DOMAIN rs /\ m + i > m
             /\ b[i] = rs[m + i]
  BY <1>1, <1>2
<1>4. ASSUME NEW i \in DOMAIN a
      PROVE  i \in Nat /\ i \in DOMAIN rs /\ i <= m /\ a[i] = rs[i]
  BY <1>1, <1>2
<1>5. ASSUME NEW i \in DOMAIN rs
      PROVE  rs[i] \in {a[j] : j \in DOMAIN a} \cup {b[j] : j \in DOMAIN b}
  <2>1. CASE i <= m
    BY <1>1, <1>2, <2>1
  <2>2. CASE i > m
    <3>1. i - m \in 1 .. Len(rs) - m /\ m + (i - m) = i
      BY <1>1, <2>2
    <3>2. i - m \in DOMAIN b /\ b[i - m] = rs[i]
      BY <1>2, <3>1
    <3>. QED BY <3>2
  <2>. QED BY <1>1, <2>1, <2>2
<1>6. Distinct(b)
  <2>1. \A i \in DOMAIN b : IsInjective(b[i].notes)
    BY <1>3 DEF Distinct
  <2>2. ASSUME NEW i \in DOMAIN b, NEW j \in DOMAIN b, i # j
        PROVE  Range(b[i].notes) \cap Range(b[j].notes) = {}
    <3>1. m + i # m + j
      BY <1>3, <2>2
    <3>. QED BY <1>3, <3>1 DEF Distinct
  <2>. QED BY <2>1, <2>2 DEF Distinct
<1>7. RowNotes(a) \cap RowNotes(b) = {}
  <2>1. ASSUME NEW i \in DOMAIN a, NEW j \in DOMAIN b
        PROVE  Range(a[i].notes) \cap Range(b[j].notes) = {}
    <3>1. i # m + j
      BY <1>3, <1>4
    <3>. QED BY <1>3, <1>4, <3>1 DEF Distinct
  <2>2. SUFFICES ASSUME NEW p, p \in RowNotes(a), p \in RowNotes(b) PROVE FALSE
    OBVIOUS
  <2>3. PICK i \in DOMAIN a, j \in DOMAIN b :
          p \in Range(a[i].notes) /\ p \in Range(b[j].notes)
    BY <2>2 DEF RowNotes
  <2>. QED BY <2>1, <2>3
<1>8. RowNotes(a) \cup RowNotes(b) = RowNotes(rs)
  <2>1. RowNotes(rs) \subseteq RowNotes(a) \cup RowNotes(b)
    BY <1>5 DEF RowNotes
  <2>2. RowNotes(a) \cup RowNotes(b) \subseteq RowNotes(rs)
    BY <1>3, <1>4 DEF RowNotes
  <2>. QED BY <2>1, <2>2
<1>9. \A n : /\ Dated(rs, n) => Dated(b, n)
             /\ MayFollowEnds(rs, n) => MayFollowEnds(b, n)
  BY <1>3 DEF Dated, MayFollowEnds
<1>10. EndsAreLatest(rs) => EndsAreLatest(b)
  <2>1. ASSUME NEW i \in DOMAIN b, NEW j \in DOMAIN b, i < j
        PROVE  m + i < m + j
    BY <1>3, <2>1
  <2>. QED BY <1>3, <2>1 DEF EndsAreLatest
<1>. QED BY <1>2, <1>6, <1>7, <1>8, <1>9, <1>10 DEF a, b

\* A checkpoint becomes the last row.
LEMMA RowsAppended ==
  ASSUME NEW rs \in Seq(Checkpoints), NEW c \in Checkpoints, NEW n \in Nat,
         Distinct(rs), IsInjective(c.notes),
         Range(c.notes) \cap RowNotes(rs) = {},
         Dated(rs, n), c.upto <= n, EndsAreLatest(rs), MayFollowEnds(rs, c.upto),
         c.kind = "session_end" => Dated(rs, c.upto)
  PROVE  LET t == Append(rs, c)
         IN  /\ t \in Seq(Checkpoints) /\ Len(t) = Len(rs) + 1 /\ Distinct(t)
             /\ RowNotes(t) = RowNotes(rs) \cup Range(c.notes)
             /\ Dated(t, n) /\ EndsAreLatest(t)
             /\ \A m : MayFollowEnds(rs, m) /\ c.kind # "session_end"
                         => MayFollowEnds(t, m)
<1> DEFINE t == Append(rs, c)
<1>1. Len(rs) \in Nat /\ DOMAIN rs = 1 .. Len(rs)
  BY LenProperties
<1>2. /\ t \in Seq(Checkpoints) /\ Len(t) = Len(rs) + 1
      /\ DOMAIN t = 1 .. Len(rs) + 1
      /\ \A i \in 1 .. Len(rs) : t[i] = rs[i]
      /\ t[Len(rs) + 1] = c
  BY <1>1
<1> DEFINE last == Len(rs) + 1
<1> HIDE DEF t
<1>3. /\ DOMAIN t = DOMAIN rs \cup {last} /\ last \notin DOMAIN rs
      /\ t[last] = c /\ \A i \in DOMAIN rs : t[i] = rs[i] /\ i < last
      /\ \A i \in DOMAIN rs : i \in Nat
  BY <1>1, <1>2
<1>4. last \in Nat
  BY <1>1
<1> HIDE DEF last
<1>5. \A i \in DOMAIN rs : Range(rs[i].notes) \cap Range(c.notes) = {}
  BY DEF RowNotes
<1>6. Distinct(t)
  BY <1>3, <1>5 DEF Distinct
<1>7. RowNotes(t) = RowNotes(rs) \cup Range(c.notes)
  <2>1. RowNotes(t) \subseteq RowNotes(rs) \cup Range(c.notes)
    BY <1>3 DEF RowNotes
  <2>2. RowNotes(rs) \cup Range(c.notes) \subseteq RowNotes(t)
    BY <1>3 DEF RowNotes
  <2>. QED BY <2>1, <2>2
<1>8. Dated(t, n)
  BY <1>3 DEF Dated
<1>9. ASSUME NEW i \in DOMAIN t, NEW j \in DOMAIN t, i < j,
             t[i].kind = "session_end" \/ t[j].kind = "session_end"
      PROVE  t[i].upto <= t[j].upto
  <2>1. i \in DOMAIN rs
    BY <1>3, <1>4, <1>9
  <2>2. CASE j \in DOMAIN rs
    BY <1>3, <1>9, <2>1, <2>2 DEF EndsAreLatest
  <2>3. CASE j = last
    BY <1>3, <1>9, <2>1, <2>3 DEF MayFollowEnds, Dated
  <2>. QED BY <1>3, <2>2, <2>3
<1>10. \A m : MayFollowEnds(rs, m) /\ c.kind # "session_end"
                => MayFollowEnds(t, m)
  BY <1>3 DEF MayFollowEnds
<1>. QED BY <1>2, <1>6, <1>7, <1>8, <1>9, <1>10 DEF t, EndsAreLatest

\* writeCheckpoint: of the rows and the new one, those within the cap stay.
LEMMA RowsWritten ==
  ASSUME NEW rs \in Seq(Checkpoints), NEW c \in Checkpoints, NEW n \in Nat,
         Distinct(rs), IsInjective(c.notes),
         Range(c.notes) \cap RowNotes(rs) = {},
         Dated(rs, n), c.upto <= n, EndsAreLatest(rs), MayFollowEnds(rs, c.upto),
         c.kind = "session_end" => Dated(rs, c.upto)
  PROVE  LET w == Written(rs, c)
         IN  /\ w \in Seq(Checkpoints) /\ Len(w) <= MaxRows /\ Distinct(w)
             /\ Evicted(rs, c) \cap RowNotes(w) = {}
             /\ Evicted(rs, c) \cup RowNotes(w) = RowNotes(rs) \cup Range(c.notes)
             /\ Dated(w, n) /\ EndsAreLatest(w)
             /\ \A m : MayFollowEnds(rs, m) /\ c.kind # "session_end"
                         => MayFollowEnds(w, m)
<1> DEFINE t == Append(rs, c)
           m == Over(t, MaxRows)
           a == SubSeq(t, 1, m)
           b == SubSeq(t, m + 1, Len(t))
<1>1. /\ t \in Seq(Checkpoints) /\ Distinct(t)
      /\ RowNotes(t) = RowNotes(rs) \cup Range(c.notes)
      /\ Dated(t, n) /\ EndsAreLatest(t)
      /\ \A u : MayFollowEnds(rs, u) /\ c.kind # "session_end"
                  => MayFollowEnds(t, u)
  BY RowsAppended
<1> HIDE DEF t
<1>2. m \in 0 .. Len(t) /\ Len(t) - m <= MaxRows
  BY <1>1, OverIsIn, ContinuityAssumption
<1> HIDE DEF m
<1>3. /\ b \in Seq(Checkpoints) /\ Len(b) = Len(t) - m /\ Distinct(b)
      /\ RowNotes(a) \cap RowNotes(b) = {}
      /\ RowNotes(a) \cup RowNotes(b) = RowNotes(t)
      /\ \A u : Dated(t, u) => Dated(b, u)
      /\ EndsAreLatest(t) => EndsAreLatest(b)
      /\ \A u : MayFollowEnds(t, u) => MayFollowEnds(b, u)
  BY <1>1, <1>2, RowsCut
<1>4. Written(rs, c) = b
  BY DEF Written, Latest, t, m
<1>5. Evicted(rs, c) = RowNotes(a)
  <2>1. Evicted(rs, c) = UNION {Range(r.notes) : r \in Range(a)}
    BY DEF Evicted, Earlier, t, m
  <2> HIDE DEF a
  <2>2. Range(a) = {a[i] : i \in DOMAIN a}
    BY DEF Range
  <2>3. UNION {Range(r.notes) : r \in Range(a)}
          = UNION {Range(a[i].notes) : i \in DOMAIN a}
    BY <2>2
  <2>. QED BY <2>1, <2>3 DEF RowNotes
<1> HIDE DEF a, b
<1>. QED BY <1>1, <1>2, <1>3, <1>4, <1>5

(***************************************************************************)
(* The ledger of a session                                                  *)
(***************************************************************************)

LedgerTyped(rs, q, p, n) ==
  /\ rs \in Seq(Checkpoints) /\ Len(rs) <= MaxRows
  /\ q \in Checkpoints \cup {None} /\ Len(Carried(q)) <= Keep
  /\ p \in Seq(Nat) /\ Len(p) <= Keep
  /\ n \in Nat
  /\ Distinct(rs) /\ IsInjective(Carried(q)) /\ IsInjective(p)

\* Of the notes 1 .. n those of l are lost, and each other one is in one of the
\* three places.
Shared(R, Q, P, n, l) ==
  /\ R \cap Q = {} /\ R \cap P = {} /\ Q \cap P = {}
  /\ R \cup Q \cup P = (1 .. n) \ l
  /\ l \subseteq 1 .. n

\* Only what may follow a session's end is queued.
InOrder(rs, q, n) ==
  /\ Dated(rs, n) /\ EndsAreLatest(rs)
  /\ q # None => /\ q.upto <= n /\ q.kind # "session_end"
                 /\ MayFollowEnds(rs, q.upto)

\* The rows rs of a session, what is queued, what is pending, the number of its
\* notes and those that are lost.
Ledger(rs, q, p, n, l) ==
  /\ LedgerTyped(rs, q, p, n)
  /\ Shared(RowNotes(rs), Range(Carried(q)), Range(p), n, l)
  /\ InOrder(rs, q, n)

\* Notes move from place to place, and those of X get lost.
LEMMA SharedMoves ==
  ASSUME NEW R, NEW Q, NEW P, NEW n, NEW l, Shared(R, Q, P, n, l),
         NEW R2, NEW Q2, NEW P2, NEW X,
         R2 \cup Q2 \cup P2 \cup X = R \cup Q \cup P,
         R2 \cap Q2 = {}, R2 \cap P2 = {}, Q2 \cap P2 = {},
         X \cap R2 = {}, X \cap Q2 = {}, X \cap P2 = {}
  PROVE  Shared(R2, Q2, P2, n, l \cup X)
<1> DEFINE all == 1 .. n
<1>1. /\ R \cup Q \cup P = all \ l /\ l \subseteq all
  BY DEF Shared
<1> HIDE DEF all
<1>2. R2 \cup Q2 \cup P2 = all \ (l \cup X)
  BY <1>1
<1>3. l \cup X \subseteq all
  BY <1>1
<1>. QED BY <1>2, <1>3 DEF Shared, all

LEMMA NothingShared == \A S : S \cap {} = {} /\ {} \cap S = {}
  OBVIOUS

LEMMA CarriedNone == Carried(None) = <<>> /\ Range(Carried(None)) = {}
  BY EmptyKeeps DEF Carried

LEMMA CarriedNotes ==
  ASSUME NEW q \in Checkpoints
  PROVE  /\ q # None /\ Carried(q) = q.notes
         /\ q.notes \in Seq(Nat) /\ q.upto \in Nat
  BY ContinuityAssumption DEF Carried, Checkpoints

LEMMA CarriedTyped ==
  ASSUME NEW q \in Checkpoints \cup {None}
  PROVE  Carried(q) \in Seq(Nat)
  BY CarriedNone, CarriedNotes, EmptyKeeps

\* What is pending is dropped.
LEMMA LedgerDrop ==
  ASSUME NEW rs, NEW q, NEW p, NEW n, NEW l, Ledger(rs, q, p, n, l)
  PROVE  Ledger(rs, q, <<>>, n, l \cup Range(p))
<1>1. LedgerTyped(rs, q, <<>>, n)
  BY EmptyKeeps, ContinuityAssumption DEF Ledger, LedgerTyped
<1>2. Shared(RowNotes(rs), Range(Carried(q)), {}, n, l \cup Range(p))
  <2> DEFINE R == RowNotes(rs)
             Q == Range(Carried(q))
             P == Range(p)
  <2>1. Shared(R, Q, P, n, l)
    BY DEF Ledger
  <2> HIDE DEF R, Q, P
  <2>2. R \cap Q = {} /\ P \cap R = {} /\ P \cap Q = {}
    BY <2>1 DEF Shared
  <2>3. R \cup Q \cup {} \cup P = R \cup Q \cup P
    OBVIOUS
  <2>4. Shared(R, Q, {}, n, l \cup P)
    BY <2>1, <2>2, <2>3, NothingShared, SharedMoves, Zenon
  <2>. QED BY <2>4 DEF R, Q, P
<1>. QED BY <1>1, <1>2, EmptyKeeps DEF Ledger

\* What is queued is dropped.
LEMMA LedgerUnqueue ==
  ASSUME NEW rs, NEW q, NEW p, NEW n, NEW l, Ledger(rs, q, p, n, l)
  PROVE  Ledger(rs, None, p, n, l \cup Range(Carried(q)))
<1>1. LedgerTyped(rs, None, p, n)
  BY EmptyKeeps, CarriedNone, ContinuityAssumption DEF Ledger, LedgerTyped
<1>2. Shared(RowNotes(rs), {}, Range(p), n, l \cup Range(Carried(q)))
  <2> DEFINE R == RowNotes(rs)
             Q == Range(Carried(q))
             P == Range(p)
  <2>1. Shared(R, Q, P, n, l)
    BY DEF Ledger
  <2> HIDE DEF R, Q, P
  <2>2. /\ R \cap P = {} /\ Q \cap R = {} /\ Q \cap P = {}
        /\ R \cup {} \cup P \cup Q = R \cup Q \cup P
    BY <2>1 DEF Shared
  <2>3. Shared(R, {}, P, n, l \cup Q)
    BY <2>1, <2>2, NothingShared, SharedMoves, Zenon
  <2>. QED BY <2>3 DEF R, Q, P
<1>3. InOrder(rs, None, n)
  BY DEF Ledger, InOrder
<1>. QED BY <1>1, <1>2, <1>3, CarriedNone DEF Ledger

\* What is queued is written.
LEMMA LedgerFlush ==
  ASSUME NEW rs, NEW q \in Checkpoints, NEW p, NEW n, NEW l,
         Ledger(rs, q, p, n, l)
  PROVE  Ledger(Written(rs, q), None, p, n, l \cup Evicted(rs, q))
<1> DEFINE w == Written(rs, q)
<1>1. Carried(q) = q.notes /\ q # None /\ q.kind # "session_end"
  BY CarriedNotes DEF Ledger, InOrder
<1>2. RowNotes(rs) \cap Range(q.notes) = {}
  BY <1>1 DEF Ledger, Shared
<1>3. /\ w \in Seq(Checkpoints) /\ Len(w) <= MaxRows /\ Distinct(w)
      /\ Evicted(rs, q) \cap RowNotes(w) = {}
      /\ Evicted(rs, q) \cup RowNotes(w) = RowNotes(rs) \cup Range(q.notes)
      /\ Dated(w, n) /\ EndsAreLatest(w)
  BY <1>1, <1>2, RowsWritten DEF Ledger, LedgerTyped, InOrder
<1> HIDE DEF w
<1>4. LedgerTyped(w, None, p, n)
  BY <1>3, EmptyKeeps, CarriedNone, ContinuityAssumption DEF Ledger, LedgerTyped
<1>5. Shared(RowNotes(w), {}, Range(p), n, l \cup Evicted(rs, q))
  <2> DEFINE R == RowNotes(rs)
             Q == Range(q.notes)
             P == Range(p)
             R2 == RowNotes(w)
             X == Evicted(rs, q)
  <2>1. Shared(R, Q, P, n, l)
    BY <1>1 DEF Ledger
  <2>2. X \cap R2 = {} /\ X \cup R2 = R \cup Q
    BY <1>3
  <2> HIDE DEF R, Q, P, R2, X
  <2>3. R \cap Q = {} /\ R \cap P = {} /\ Q \cap P = {}
    BY <2>1 DEF Shared
  <2>4. R2 \cap P = {} /\ X \cap P = {} /\ R2 \cup {} \cup P \cup X = R \cup Q \cup P
    BY <2>2, <2>3
  <2>5. Shared(R2, {}, P, n, l \cup X)
    BY <2>1, <2>2, <2>4, NothingShared, SharedMoves, Zenon
  <2>. QED BY <2>5 DEF R2, P, X
<1>6. InOrder(w, None, n)
  BY <1>3 DEF InOrder
<1>. QED BY <1>4, <1>5, <1>6, CarriedNone DEF Ledger, w

\* What is pending is written, ahead of what is queued.
LEMMA LedgerWrite ==
  ASSUME NEW rs, NEW q, NEW p, NEW n, NEW l, NEW c \in Checkpoints,
         Ledger(rs, q, p, n, l), c.notes = p, c.upto = n,
         c.kind = "session_end" => q = None
  PROVE  Ledger(Written(rs, c), q, <<>>, n, l \cup Evicted(rs, c))
<1> DEFINE w == Written(rs, c)
<1>1. MayFollowEnds(rs, c.upto)
  BY DEF Ledger, InOrder, Dated, MayFollowEnds
<1>2. RowNotes(rs) \cap Range(c.notes) = {}
  BY DEF Ledger, Shared
<1>3. /\ w \in Seq(Checkpoints) /\ Len(w) <= MaxRows /\ Distinct(w)
      /\ Evicted(rs, c) \cap RowNotes(w) = {}
      /\ Evicted(rs, c) \cup RowNotes(w) = RowNotes(rs) \cup Range(p)
      /\ Dated(w, n) /\ EndsAreLatest(w)
      /\ \A m : MayFollowEnds(rs, m) /\ c.kind # "session_end"
                  => MayFollowEnds(w, m)
  BY <1>1, <1>2, RowsWritten DEF Ledger, LedgerTyped, InOrder
<1> HIDE DEF w
<1>4. LedgerTyped(w, q, <<>>, n)
  BY <1>3, EmptyKeeps, ContinuityAssumption DEF Ledger, LedgerTyped
<1>5. Shared(RowNotes(w), Range(Carried(q)), {}, n, l \cup Evicted(rs, c))
  <2> DEFINE R == RowNotes(rs)
             Q == Range(Carried(q))
             P == Range(p)
             R2 == RowNotes(w)
             X == Evicted(rs, c)
  <2>1. Shared(R, Q, P, n, l)
    BY DEF Ledger
  <2>2. X \cap R2 = {} /\ X \cup R2 = R \cup P
    BY <1>3
  <2> HIDE DEF R, Q, P, R2, X
  <2>3. R \cap Q = {} /\ R \cap P = {} /\ Q \cap P = {}
    BY <2>1 DEF Shared
  <2>4. R2 \cap Q = {} /\ X \cap Q = {} /\ R2 \cup Q \cup {} \cup X = R \cup Q \cup P
    BY <2>2, <2>3
  <2>5. Shared(R2, Q, {}, n, l \cup X)
    BY <2>1, <2>2, <2>4, NothingShared, SharedMoves, Zenon
  <2>. QED BY <2>5 DEF R2, Q, X
<1>6. InOrder(w, q, n)
  BY <1>3 DEF Ledger, InOrder
<1>. QED BY <1>4, <1>5, <1>6, EmptyKeeps DEF Ledger, w

\* A note of a session that is not tracked: the next number, lost.
LEMMA LedgerNoteLost ==
  ASSUME NEW rs, NEW q, NEW p, NEW n, NEW l, Ledger(rs, q, p, n, l)
  PROVE  Ledger(rs, q, p, n + 1, l \cup {n + 1})
<1>1. n \in Nat
  BY DEF Ledger, LedgerTyped
<1>2. LedgerTyped(rs, q, p, n + 1)
  BY <1>1 DEF Ledger, LedgerTyped
<1>3. Shared(RowNotes(rs), Range(Carried(q)), Range(p), n + 1, l \cup {n + 1})
  <2>1. 1 .. n + 1 = (1 .. n) \cup {n + 1} /\ n + 1 \notin 1 .. n
    BY <1>1
  <2>2. (1 .. n + 1) \ (l \cup {n + 1}) = (1 .. n) \ l
    BY <2>1
  <2>. QED BY <2>1, <2>2 DEF Ledger, Shared
<1>4. InOrder(rs, q, n + 1)
  <2>1. Dated(rs, n + 1)
    BY <1>1, RowTyped DEF Ledger, LedgerTyped, InOrder, Dated
  <2>2. q # None => q.upto <= n + 1
    <3>1. q # None => q.upto \in Nat
      BY CarriedNotes DEF Ledger, LedgerTyped
    <3>. QED BY <1>1, <3>1 DEF Ledger, InOrder
  <2>. QED BY <2>1, <2>2 DEF Ledger, InOrder
<1>. QED BY <1>2, <1>3, <1>4 DEF Ledger

\* A note of a tracked session: the next number, pending, up to the cap.
LEMMA LedgerNote ==
  ASSUME NEW rs, NEW q, NEW p, NEW n, NEW l, Ledger(rs, q, p, n, l)
  PROVE  LET all == Append(p, n + 1)
         IN  Ledger(rs, q, Latest(all, Keep), n + 1,
                    l \cup Range(Earlier(all, Keep)))
<1> DEFINE all == Append(p, n + 1)
           p2 == Latest(all, Keep)
           X == Range(Earlier(all, Keep))
           R == RowNotes(rs)
           Q == Range(Carried(q))
           P == Range(p)
<1>1. n \in Nat /\ p \in Seq(Nat) /\ IsInjective(p) /\ Keep \in Nat
  BY ContinuityAssumption DEF Ledger, LedgerTyped
<1>2. 1 .. n + 1 = (1 .. n) \cup {n + 1} /\ n + 1 \notin 1 .. n
  BY <1>1
<1>3. Shared(R, Q, P, n, l)
  BY DEF Ledger
<1>4. n + 1 \notin R /\ n + 1 \notin Q /\ n + 1 \notin P /\ n + 1 \notin l
  BY <1>2, <1>3 DEF Shared
<1>5. /\ all \in Seq(Nat) /\ IsInjective(all) /\ Range(all) = P \cup {n + 1}
  BY <1>1, <1>4, AppendKeeps
<1> HIDE DEF all
<1>6. /\ p2 \in Seq(Nat) /\ Len(p2) <= Keep /\ IsInjective(p2)
      /\ X \cap Range(p2) = {} /\ X \cup Range(p2) = P \cup {n + 1}
  BY <1>1, <1>5, LatestKeeps
<1> HIDE DEF p2, X, R, Q, P
<1>7. Shared(R, Q, P \cup {n + 1}, n + 1, l)
  <2>1. R \cup Q \cup (P \cup {n + 1}) = (1 .. n + 1) \ l
    BY <1>2, <1>3, <1>4 DEF Shared
  <2>. QED BY <1>2, <1>3, <1>4, <2>1 DEF Shared
<1>8. Shared(R, Q, Range(p2), n + 1, l \cup X)
  <2> DEFINE P1 == P \cup {n + 1}
             P2 == Range(p2)
  <2>1. X \cap P2 = {} /\ X \cup P2 = P1 /\ Shared(R, Q, P1, n + 1, l)
    BY <1>6, <1>7
  <2> HIDE DEF P1, P2
  <2>2. R \cap Q = {} /\ R \cap P1 = {} /\ Q \cap P1 = {}
    BY <2>1 DEF Shared
  <2>3. /\ R \cap P2 = {} /\ Q \cap P2 = {} /\ X \cap R = {} /\ X \cap Q = {}
        /\ R \cup Q \cup P2 \cup X = R \cup Q \cup P1
    BY <2>1, <2>2
  <2>4. Shared(R, Q, P2, n + 1, l \cup X)
    BY <2>1, <2>2, <2>3, SharedMoves
  <2>. QED BY <2>4 DEF P2
<1>9. LedgerTyped(rs, q, p2, n + 1) /\ InOrder(rs, q, n + 1)
  BY <1>1, <1>6, LedgerNoteLost DEF Ledger, LedgerTyped
<1>. QED BY <1>8, <1>9 DEF Ledger, all, p2, X, R, Q, P

\* What is pending is queued, merged into what is there, up to the cap.
LEMMA LedgerQueue ==
  ASSUME NEW rs, NEW q, NEW p, NEW n, NEW l, NEW c \in Checkpoints,
         Ledger(rs, q, p, n, l),
         c.notes = p, c.upto = n, c.kind # "session_end"
  PROVE  LET all == Carried(q) \o p
         IN  Ledger(rs, [c EXCEPT !.notes = Latest(all, Keep)], <<>>, n,
                    l \cup Range(Earlier(all, Keep)))
<1> DEFINE all == Carried(q) \o p
           q2 == [c EXCEPT !.notes = Latest(all, Keep)]
           X == Range(Earlier(all, Keep))
           R == RowNotes(rs)
           Q == Range(Carried(q))
           P == Range(p)
<1>1. /\ Carried(q) \in Seq(Nat) /\ IsInjective(Carried(q))
      /\ p \in Seq(Nat) /\ IsInjective(p) /\ Keep \in Nat
  BY CarriedTyped, ContinuityAssumption DEF Ledger, LedgerTyped
<1>2. Shared(R, Q, P, n, l)
  BY DEF Ledger
<1>3. R \cap Q = {} /\ R \cap P = {} /\ Q \cap P = {}
  BY <1>2 DEF Shared
<1>4. all \in Seq(Nat) /\ IsInjective(all) /\ Range(all) = Q \cup P
  BY <1>1, <1>3, ConcatKeeps
<1> HIDE DEF all
<1>5. /\ Latest(all, Keep) \in Seq(Nat) /\ Len(Latest(all, Keep)) <= Keep
      /\ IsInjective(Latest(all, Keep))
      /\ X \cap Range(Latest(all, Keep)) = {}
      /\ X \cup Range(Latest(all, Keep)) = Q \cup P
  BY <1>1, <1>4, LatestKeeps
<1>6. /\ q2 \in Checkpoints /\ q2.notes = Latest(all, Keep)
      /\ q2.upto = n /\ q2.kind # "session_end"
  BY <1>5 DEF Checkpoints
<1> HIDE DEF q2, X, R, Q, P
<1>7. Carried(q2) = Latest(all, Keep) /\ q2 # None
  BY <1>6, CarriedNotes
<1>8. LedgerTyped(rs, q2, <<>>, n)
  BY <1>5, <1>6, <1>7, EmptyKeeps, ContinuityAssumption DEF Ledger, LedgerTyped
<1>9. Shared(R, Range(Carried(q2)), {}, n, l \cup X)
  <2> DEFINE Q2 == Range(Carried(q2))
  <2>1. X \cap Q2 = {} /\ X \cup Q2 = Q \cup P
    BY <1>5, <1>7
  <2> HIDE DEF Q2
  <2>2. /\ R \cap Q2 = {} /\ X \cap R = {}
        /\ R \cup Q2 \cup {} \cup X = R \cup Q \cup P
    BY <1>3, <2>1
  <2>3. Shared(R, Q2, {}, n, l \cup X)
    BY <1>2, <2>1, <2>2, NothingShared, SharedMoves, Zenon
  <2>. QED BY <2>3 DEF Q2
<1>10. InOrder(rs, q2, n)
  <2>1. n \in Nat
    BY DEF Ledger, LedgerTyped
  <2>2. MayFollowEnds(rs, n)
    BY DEF Ledger, InOrder, Dated, MayFollowEnds
  <2>. QED BY <1>6, <2>1, <2>2 DEF Ledger, InOrder
<1>. QED BY <1>8, <1>9, <1>10, EmptyKeeps DEF Ledger, all, q2, X, R

\* The oldest rows are past their retention.
LEMMA LedgerPrune ==
  ASSUME NEW rs, NEW q, NEW p, NEW n, NEW l, Ledger(rs, q, p, n, l),
         NEW m \in 1 .. Len(rs)
  PROVE  Ledger(SubSeq(rs, m + 1, Len(rs)), q, p, n,
                l \cup UNION {Range(rs[i].notes) : i \in 1 .. m})
<1> DEFINE a == SubSeq(rs, 1, m)
           b == SubSeq(rs, m + 1, Len(rs))
           X == UNION {Range(rs[i].notes) : i \in 1 .. m}
<1>1. /\ rs \in Seq(Checkpoints) /\ Len(rs) \in Nat /\ Len(rs) <= MaxRows
      /\ Distinct(rs) /\ m \in 0 .. Len(rs)
  BY LenProperties DEF Ledger, LedgerTyped
<1>2. /\ b \in Seq(Checkpoints) /\ Len(b) = Len(rs) - m /\ Distinct(b)
      /\ RowNotes(a) \cap RowNotes(b) = {}
      /\ RowNotes(a) \cup RowNotes(b) = RowNotes(rs)
      /\ \A u : Dated(rs, u) => Dated(b, u)
      /\ EndsAreLatest(rs) => EndsAreLatest(b)
      /\ \A u : MayFollowEnds(rs, u) => MayFollowEnds(b, u)
  BY <1>1, RowsCut
<1>3. RowNotes(a) = X
  <2>1. DOMAIN a = 1 .. m /\ \A i \in 1 .. m : a[i] = rs[i]
    BY <1>1, Cut, LenProperties
  <2> HIDE DEF a
  <2>2. {Range(a[i].notes) : i \in DOMAIN a} = {Range(rs[i].notes) : i \in 1 .. m}
    BY <2>1, Zenon
  <2>. QED BY <2>2 DEF RowNotes
<1> HIDE DEF a, b, X
<1>4. LedgerTyped(b, q, p, n)
  <2>1. Len(b) <= MaxRows
    BY <1>1, <1>2, ContinuityAssumption
  <2>. QED BY <1>2, <2>1 DEF Ledger, LedgerTyped
<1>5. Shared(RowNotes(b), Range(Carried(q)), Range(p), n, l \cup X)
  <2> DEFINE R == RowNotes(rs)
             Q == Range(Carried(q))
             P == Range(p)
             R2 == RowNotes(b)
  <2>1. Shared(R, Q, P, n, l)
    BY DEF Ledger
  <2>2. X \cap R2 = {} /\ X \cup R2 = R
    BY <1>2, <1>3
  <2> HIDE DEF R, Q, P, R2
  <2>3. R \cap Q = {} /\ R \cap P = {} /\ Q \cap P = {}
    BY <2>1 DEF Shared
  <2>4. /\ R2 \cap Q = {} /\ R2 \cap P = {} /\ X \cap Q = {} /\ X \cap P = {}
        /\ R2 \cup Q \cup P \cup X = R \cup Q \cup P
    BY <2>2, <2>3
  <2>5. Shared(R2, Q, P, n, l \cup X)
    BY <2>1, <2>2, <2>3, <2>4, SharedMoves
  <2>. QED BY <2>5 DEF R2, Q, P
<1>6. InOrder(b, q, n)
  BY <1>2 DEF Ledger, InOrder
<1>. QED BY <1>4, <1>5, <1>6 DEF Ledger, b, X

(***************************************************************************)
(* The invariant                                                            *)
(***************************************************************************)

StateOK ==
  /\ state \in [Sessions -> States \cup {None}]
  /\ starting \subseteq Sessions /\ seen \subseteq Sessions
  /\ queued \in [Sessions -> Checkpoints \cup {None}]
  /\ timer \in BOOLEAN
  /\ rows \in [Sessions -> Seq(Checkpoints)]
  /\ noted \in [Sessions -> 0 .. MaxNoted]
  /\ lost \in [Sessions -> SUBSET Nat]

LedgerOf(k) == Ledger(rows[k], queued[k], Pending(k), noted[k], lost[k])

LedgerInv == StateOK /\ \A k \in Sessions : LedgerOf(k)

LEMMA FreshState == Fresh \in States /\ Fresh # None /\ Fresh.pending = <<>>
<1>1. Fresh \in States
  BY EmptyKeeps DEF Fresh, States
<1>. QED BY <1>1, ContinuityAssumption DEF Fresh

LEMMA PendingTyped ==
  ASSUME StateOK, NEW k \in Sessions
  PROVE  /\ Pending(k) \in Seq(Nat)
         /\ Tracked(k) => /\ state[k] \in States /\ Pending(k) = state[k].pending
                          /\ state[k].spoke \in BOOLEAN
  BY EmptyKeeps DEF StateOK, Pending, Tracked, States

\* What the ledger of a session keeps to is typed.
LEMMA LedgerIsTyped ==
  ASSUME NEW rs, NEW q, NEW p, NEW n, NEW l, Ledger(rs, q, p, n, l)
  PROVE  rs \in Seq(Checkpoints) /\ q \in Checkpoints \cup {None} /\ l \subseteq Nat
<1>1. n \in Nat /\ l \subseteq 1 .. n
  BY DEF Ledger, LedgerTyped, Shared
<1>. QED BY <1>1 DEF Ledger, LedgerTyped

\* The queue is flushed; what is pending stays, and is dropped or written next.
LEMMA FlushKeeps ==
  ASSUME StateOK, NEW k \in Sessions, LedgerOf(k), NEW ok \in BOOLEAN
  PROVE  Ledger(Flushed(k, ok), None, Pending(k), noted[k],
                lost[k] \cup FlushLoses(k, ok))
<1>1. CASE queued[k] = None
  BY <1>1 DEF LedgerOf, Flushed, FlushLoses
<1>2. CASE queued[k] # None /\ ok
  <2>1. queued[k] \in Checkpoints
    BY <1>2 DEF StateOK
  <2>2. Flushed(k, ok) = Written(rows[k], queued[k])
    BY <1>2 DEF Flushed
  <2>3. FlushLoses(k, ok) = Evicted(rows[k], queued[k])
    BY <1>2 DEF FlushLoses
  <2>. QED BY <2>1, <2>2, <2>3, LedgerFlush DEF LedgerOf
<1>3. CASE queued[k] # None /\ ~ok
  <2>1. Carried(queued[k]) = queued[k].notes
    BY <1>3 DEF Carried
  <2>2. Flushed(k, ok) = rows[k]
    BY <1>3 DEF Flushed
  <2>3. FlushLoses(k, ok) = Range(Carried(queued[k]))
    BY <1>3, <2>1 DEF FlushLoses
  <2>. QED BY <2>2, <2>3, LedgerUnqueue DEF LedgerOf
<1>. QED BY <1>1, <1>2, <1>3

\* A checkpoint of what is pending.
LEMMA CheckpointTyped ==
  ASSUME StateOK, NEW k \in Sessions, NEW kind \in Kinds
  PROVE  /\ Checkpoint(k, kind) \in Checkpoints
         /\ Checkpoint(k, kind).notes = Pending(k)
         /\ Checkpoint(k, kind).upto = noted[k]
         /\ Checkpoint(k, kind).kind = kind
<1>1. Pending(k) \in Seq(Nat) /\ noted[k] \in Nat
  BY PendingTyped, ContinuityAssumption DEF StateOK
<1>. QED BY <1>1 DEF Checkpoint, Checkpoints

\* Nothing that counts changes for a session.
LEMMA SameLedger ==
  ASSUME NEW k \in Sessions, LedgerOf(k), rows'[k] = rows[k],
         queued'[k] = queued[k], state'[k] = state[k], noted'[k] = noted[k],
         lost'[k] = lost[k]
  PROVE  LedgerOf(k)'
  BY DEF LedgerOf, Pending, Tracked

\* The books after a step are in order when each one is, and the types of what
\* a book holds with them.
LEMMA InvNext ==
  ASSUME LedgerInv,
         state' \in [Sessions -> States \cup {None}],
         starting' \subseteq Sessions, seen' \subseteq Sessions,
         timer' \in BOOLEAN, noted' \in [Sessions -> 0 .. MaxNoted],
         queued' = [k \in Sessions |-> queued'[k]],
         rows' = [k \in Sessions |-> rows'[k]],
         lost' = [k \in Sessions |-> lost'[k]],
         \A k \in Sessions : LedgerOf(k)'
  PROVE  LedgerInv'
<1>1. ASSUME NEW k \in Sessions
      PROVE  /\ rows'[k] \in Seq(Checkpoints)
             /\ queued'[k] \in Checkpoints \cup {None}
             /\ lost'[k] \in SUBSET Nat
  <2>1. Ledger(rows'[k], queued'[k], Pending(k)', noted'[k], lost'[k])
    BY DEF LedgerOf
  <2>. QED BY <2>1, LedgerIsTyped
<1>2. rows' \in [Sessions -> Seq(Checkpoints)]
  BY <1>1
<1>3. queued' \in [Sessions -> Checkpoints \cup {None}]
  BY <1>1
<1>4. lost' \in [Sessions -> SUBSET Nat]
  BY <1>1
<1>. QED BY <1>2, <1>3, <1>4 DEF LedgerInv, StateOK

LEMMA InitInv == Init => LedgerInv
<1> SUFFICES ASSUME Init PROVE LedgerInv
  OBVIOUS
<1>1. StateOK
  <2>1. <<>> \in Seq(Checkpoints) /\ 0 \in 0 .. MaxNoted
    BY ContinuityAssumption
  <2>. QED BY <2>1 DEF Init, StateOK
<1>2. ASSUME NEW k \in Sessions PROVE LedgerOf(k)
  <2>1. /\ rows[k] = <<>> /\ queued[k] = None /\ Pending(k) = <<>>
        /\ noted[k] = 0 /\ lost[k] = {}
    BY <1>2 DEF Init, Pending, Tracked
  <2>2. <<>> \in Seq(Checkpoints) /\ DOMAIN <<>> = {} /\ Len(<<>>) = 0
    OBVIOUS
  <2>3. RowNotes(<<>>) = {}
    BY <2>2 DEF RowNotes
  <2>4. LedgerTyped(<<>>, None, <<>>, 0)
    BY <2>2, EmptyKeeps, CarriedNone, ContinuityAssumption
       DEF LedgerTyped, Distinct
  <2>5. Shared({}, {}, {}, 0, {})
    BY DEF Shared
  <2>6. InOrder(<<>>, None, 0)
    BY <2>2 DEF InOrder, Dated, EndsAreLatest
  <2>. QED BY <2>1, <2>3, <2>4, <2>5, <2>6, EmptyKeeps, CarriedNone
           DEF LedgerOf, Ledger
<1>. QED BY <1>1, <1>2 DEF LedgerInv

(***************************************************************************)
(* Steps                                                                    *)
(***************************************************************************)

LEMMA StepStartSession ==
  ASSUME LedgerInv, NEW k \in Sessions, StartSession(k) PROVE LedgerInv'
<1> USE DEF LedgerInv
<1>1. state' \in [Sessions -> States \cup {None}] /\ starting' \subseteq Sessions
  BY FreshState DEF StartSession, StateOK
<1>2. ASSUME NEW j \in Sessions PROVE LedgerOf(j)'
  <2>1. CASE j # k
    BY <2>1, SameLedger DEF StartSession, StateOK, Lose
  <2>2. CASE j = k
    <3>1. Pending(j)' = <<>>
      BY <2>2, FreshState DEF StartSession, StateOK, Pending, Tracked
    <3>2. lost'[j] = lost[j] \cup Range(Pending(j))
      BY <2>2 DEF StartSession, StateOK, Lose
    <3>3. Ledger(rows[j], queued[j], <<>>, noted[j], lost'[j])
      BY <3>2, LedgerDrop DEF LedgerOf
    <3>. QED BY <3>1, <3>3 DEF LedgerOf, StartSession
  <2>. QED BY <2>1, <2>2
<1>. QED BY <1>1, <1>2, InvNext DEF StartSession, StateOK, Lose

LEMMA StepFinishStart ==
  ASSUME LedgerInv, NEW k \in Sessions, FinishStart(k) PROVE LedgerInv'
<1> USE DEF LedgerInv
<1>1. ASSUME NEW j \in Sessions PROVE LedgerOf(j)'
  BY SameLedger DEF FinishStart
<1>. QED BY <1>1, InvNext DEF FinishStart, StateOK

LEMMA StepNoteUntracked ==
  ASSUME LedgerInv, NEW k \in Sessions, NoteUntracked(k) PROVE LedgerInv'
<1> USE DEF LedgerInv
<1>1. noted' \in [Sessions -> 0 .. MaxNoted]
  BY ContinuityAssumption DEF NoteUntracked, StateOK
<1>2. ASSUME NEW j \in Sessions PROVE LedgerOf(j)'
  <2>1. CASE j # k
    BY <2>1, SameLedger DEF NoteUntracked, StateOK, Lose
  <2>2. CASE j = k
    <3>1. noted'[j] = noted[j] + 1
      BY <2>2 DEF NoteUntracked, StateOK
    <3>2. lost'[j] = lost[j] \cup {noted[j] + 1}
      BY <2>2, <3>1 DEF NoteUntracked, StateOK, Lose
    <3>3. Ledger(rows[j], queued[j], Pending(j), noted'[j], lost'[j])
      BY <3>1, <3>2, LedgerNoteLost DEF LedgerOf
    <3>. QED BY <3>3 DEF LedgerOf, NoteUntracked, Pending, Tracked
  <2>. QED BY <2>1, <2>2
<1>. QED BY <1>1, <1>2, InvNext DEF NoteUntracked, StateOK, Lose

\* A note of a tracked session, and its ledger before anything is queued.
LEMMA NoteKeeps ==
  ASSUME LedgerInv, NEW k \in Sessions, Tracked(k),
         NEW spoke \in BOOLEAN, NEW pending \in Seq(Nat), Note(k, spoke, pending)
  PROVE  /\ state' \in [Sessions -> States \cup {None}]
         /\ noted' \in [Sessions -> 0 .. MaxNoted]
         /\ noted'[k] = noted[k] + 1 /\ Pending(k)' = pending
         /\ \A j \in Sessions \ {k} :
              state'[j] = state[j] /\ noted'[j] = noted[j]
         /\ All(k) = Append(Pending(k), noted[k] + 1)
         /\ Latest(All(k), Keep) \in Seq(Nat)
         /\ Ledger(rows[k], queued[k], Latest(All(k), Keep), noted[k] + 1,
                   lost[k] \cup Overflow(k))
<1> USE DEF LedgerInv
<1>1. noted' \in [Sessions -> 0 .. MaxNoted] /\ noted'[k] = noted[k] + 1
  BY ContinuityAssumption DEF Note, StateOK
<1> DEFINE st == [pending |-> pending, spoke |-> spoke]
<1>2. st \in States /\ st # None
  BY ContinuityAssumption DEF States
<1>3. /\ state' \in [Sessions -> States \cup {None}]
      /\ state'[k] = st
  BY <1>2 DEF Note, StateOK
<1>4. Pending(k)' = pending
  BY <1>2, <1>3 DEF Pending, Tracked
<1>5. All(k) = Append(Pending(k), noted[k] + 1)
  BY PendingTyped DEF All
<1>6. Ledger(rows[k], queued[k], Latest(All(k), Keep), noted[k] + 1,
             lost[k] \cup Overflow(k))
  BY <1>5, LedgerNote DEF LedgerOf, Overflow
<1>7. \A j \in Sessions \ {k} : state'[j] = state[j] /\ noted'[j] = noted[j]
  BY DEF Note, StateOK
<1>8. Latest(All(k), Keep) \in Seq(Nat)
  BY <1>6 DEF Ledger, LedgerTyped
<1>. QED BY <1>1, <1>3, <1>4, <1>5, <1>6, <1>7, <1>8

LEMMA StepRecord ==
  ASSUME LedgerInv, NEW k \in Sessions, RecordRemember(k) \/ RecordPrompt(k)
  PROVE  LedgerInv'
<1> USE DEF LedgerInv
<1>1. PICK spoke \in BOOLEAN :
        /\ Tracked(k) /\ Note(k, spoke, Latest(All(k), Keep))
        /\ Lose(k, Overflow(k)) /\ UNCHANGED <<queued, timer>>
  BY PendingTyped DEF RecordRemember, RecordPrompt
<1>2. Latest(All(k), Keep) \in Seq(Nat)
  <2>1. All(k) = Append(Pending(k), noted[k] + 1)
    BY <1>1, PendingTyped DEF All
  <2>2. Ledger(rows[k], queued[k], Latest(All(k), Keep), noted[k] + 1,
               lost[k] \cup Overflow(k))
    BY <2>1, LedgerNote DEF LedgerOf, Overflow
  <2>. QED BY <2>2 DEF Ledger, LedgerTyped
<1>3. ASSUME NEW j \in Sessions PROVE LedgerOf(j)'
  <2>1. CASE j # k
    <3>1. state'[j] = state[j] /\ noted'[j] = noted[j]
      BY <1>1, <1>2, <2>1, NoteKeeps
    <3>. QED BY <1>1, <2>1, <3>1, SameLedger DEF Note, StateOK, Lose
  <2>2. CASE j = k
    <3>1. lost'[k] = lost[k] \cup Overflow(k) /\ rows' = rows
      BY <1>1 DEF StateOK, Lose, Note
    <3>2. /\ noted'[k] = noted[k] + 1 /\ Pending(k)' = Latest(All(k), Keep)
          /\ Ledger(rows[k], queued[k], Latest(All(k), Keep), noted[k] + 1,
                    lost[k] \cup Overflow(k))
      BY <1>1, <1>2, NoteKeeps
    <3>. QED BY <1>1, <2>2, <3>1, <3>2 DEF LedgerOf
  <2>. QED BY <2>1, <2>2
<1>4. /\ state' \in [Sessions -> States \cup {None}]
      /\ noted' \in [Sessions -> 0 .. MaxNoted]
  BY <1>1, <1>2, NoteKeeps
<1>. QED BY <1>1, <1>3, <1>4, InvNext DEF Note, StateOK, Lose

LEMMA StepPromptDue ==
  ASSUME LedgerInv, NEW k \in Sessions, PromptDue(k) PROVE LedgerInv'
<1> USE DEF LedgerInv
<1> DEFINE p == Latest(All(k), Keep)
           all == Carried(queued[k]) \o Due(k).notes
<1>1. /\ Tracked(k) /\ Note(k, TRUE, <<>>)
      /\ queued' = [queued EXCEPT ![k] = [Due(k) EXCEPT !.notes = Latest(all, Keep)]]
      /\ lost' = [lost EXCEPT ![k] =
                    @ \cup (Overflow(k) \cup Range(Earlier(all, Keep)))]
      /\ timer' = TRUE
  BY DEF PromptDue, QueueWrite, Lose
<1>2. /\ state' \in [Sessions -> States \cup {None}]
      /\ noted' \in [Sessions -> 0 .. MaxNoted]
      /\ noted'[k] = noted[k] + 1 /\ Pending(k)' = <<>>
      /\ \A j \in Sessions \ {k} :
           state'[j] = state[j] /\ noted'[j] = noted[j]
      /\ p \in Seq(Nat)
      /\ Ledger(rows[k], queued[k], p, noted[k] + 1, lost[k] \cup Overflow(k))
  BY <1>1, NoteKeeps, EmptyKeeps
<1>3. /\ Due(k) \in Checkpoints /\ Due(k).notes = p
      /\ Due(k).upto = noted[k] + 1 /\ Due(k).kind # "session_end"
  <2>1. noted[k] + 1 \in Nat
    BY <1>2 DEF Ledger, LedgerTyped
  <2>. QED BY <1>2, <2>1 DEF Due, Checkpoints, Kinds
<1>4. ASSUME NEW j \in Sessions PROVE LedgerOf(j)'
  <2>1. CASE j # k
    <3>1. /\ queued'[j] = queued[j] /\ lost'[j] = lost[j] /\ rows' = rows
          /\ state'[j] = state[j] /\ noted'[j] = noted[j]
      BY <1>1, <1>2, <2>1 DEF StateOK, Note
    <3>. QED BY <3>1, SameLedger
  <2>2. CASE j = k
    <3>1. Ledger(rows[k], [Due(k) EXCEPT !.notes = Latest(all, Keep)], <<>>,
                 noted[k] + 1,
                 (lost[k] \cup Overflow(k)) \cup Range(Earlier(all, Keep)))
      BY <1>2, <1>3, LedgerQueue
    <3>2. /\ queued'[k] = [Due(k) EXCEPT !.notes = Latest(all, Keep)]
          /\ lost'[k] = (lost[k] \cup Overflow(k)) \cup Range(Earlier(all, Keep))
          /\ rows' = rows
      BY <1>1 DEF StateOK, Note
    <3>. QED BY <1>2, <2>2, <3>1, <3>2 DEF LedgerOf
  <2>. QED BY <2>1, <2>2
<1>5. /\ starting' \subseteq Sessions /\ seen' \subseteq Sessions
      /\ timer' \in BOOLEAN
      /\ queued' = [j \in Sessions |-> queued'[j]]
      /\ rows' = [j \in Sessions |-> rows'[j]]
      /\ lost' = [j \in Sessions |-> lost'[j]]
  BY <1>1 DEF StateOK, Note
<1>. QED BY <1>2, <1>4, <1>5, InvNext

\* A checkpoint of what is pending is written at once, or fails.
LEMMA WriteNowKeeps ==
  ASSUME LedgerInv, NEW k \in Sessions, NEW kind \in Kinds,
         kind # "session_end", NEW ok \in BOOLEAN,
         WriteNow(k, Checkpoint(k, kind), ok)
  PROVE  /\ Ledger(rows'[k], queued[k], <<>>, noted[k], lost'[k])
         /\ \A j \in Sessions \ {k} : rows'[j] = rows[j] /\ lost'[j] = lost[j]
         /\ rows' = [j \in Sessions |-> rows'[j]]
         /\ lost' = [j \in Sessions |-> lost'[j]]
<1> USE DEF LedgerInv
<1> DEFINE c == Checkpoint(k, kind)
<1>1. /\ c \in Checkpoints /\ c.notes = Pending(k) /\ c.upto = noted[k]
      /\ c.kind # "session_end"
  BY CheckpointTyped
<1> HIDE DEF c
<1>2. CASE ok
  <2>1. /\ rows' = [rows EXCEPT ![k] = Written(rows[k], c)]
        /\ lost' = [lost EXCEPT ![k] = lost[k] \cup Evicted(rows[k], c)]
    BY <1>2 DEF WriteNow, Lose, c
  <2>2. Ledger(Written(rows[k], c), queued[k], <<>>, noted[k],
               lost[k] \cup Evicted(rows[k], c))
    BY <1>1, LedgerWrite DEF LedgerOf
  <2>. QED BY <2>1, <2>2 DEF StateOK
<1>3. CASE ~ok
  <2>1. rows' = rows /\ lost' = [lost EXCEPT ![k] = lost[k] \cup Range(Pending(k))]
    BY <1>1, <1>3 DEF WriteNow, Lose, c
  <2>2. Ledger(rows[k], queued[k], <<>>, noted[k], lost[k] \cup Range(Pending(k)))
    BY LedgerDrop DEF LedgerOf
  <2>. QED BY <2>1, <2>2 DEF StateOK
<1>. QED BY <1>2, <1>3

LEMMA StepPreCompaction ==
  ASSUME LedgerInv, NEW k \in Sessions, NEW ok \in BOOLEAN, PreCompaction(k, ok)
  PROVE  LedgerInv'
<1> USE DEF LedgerInv
<1>1. /\ Ledger(rows'[k], queued[k], <<>>, noted[k], lost'[k])
      /\ \A j \in Sessions \ {k} : rows'[j] = rows[j] /\ lost'[j] = lost[j]
      /\ rows' = [j \in Sessions |-> rows'[j]]
      /\ lost' = [j \in Sessions |-> lost'[j]]
  BY WriteNowKeeps DEF PreCompaction, Kinds
<1>2. /\ state' = [state EXCEPT ![k] = [state[k] EXCEPT !.pending = <<>>]]
      /\ state[k] \in States
  BY PendingTyped DEF PreCompaction
<1>3. /\ [state[k] EXCEPT !.pending = <<>>] \in States
      /\ [state[k] EXCEPT !.pending = <<>>].pending = <<>>
  BY <1>2, EmptyKeeps DEF States
<1>4. state' \in [Sessions -> States \cup {None}] /\ Pending(k)' = <<>>
  BY <1>2, <1>3, ContinuityAssumption DEF StateOK, Pending, Tracked
<1>5. ASSUME NEW j \in Sessions PROVE LedgerOf(j)'
  <2>1. CASE j # k
    BY <1>1, <1>2, <2>1, SameLedger DEF PreCompaction, StateOK
  <2>2. CASE j = k
    BY <1>1, <1>4, <2>2 DEF PreCompaction, LedgerOf
  <2>. QED BY <2>1, <2>2
<1>. QED BY <1>1, <1>4, <1>5, InvNext DEF PreCompaction, StateOK

LEMMA StepCheckpointExtract ==
  ASSUME LedgerInv, NEW k \in Sessions, NEW ok \in BOOLEAN,
         CheckpointExtract(k, ok)
  PROVE  LedgerInv'
<1> USE DEF LedgerInv
<1>1. /\ Ledger(rows'[k], queued[k], <<>>, noted[k], lost'[k])
      /\ \A j \in Sessions \ {k} : rows'[j] = rows[j] /\ lost'[j] = lost[j]
      /\ rows' = [j \in Sessions |-> rows'[j]]
      /\ lost' = [j \in Sessions |-> lost'[j]]
  <2>1. CASE Tracked(k) /\ state[k].spoke
    BY <2>1, WriteNowKeeps DEF CheckpointExtract, Kinds
  <2>2. CASE ~(Tracked(k) /\ state[k].spoke)
    <3>1. rows' = rows /\ lost' = [lost EXCEPT ![k] = lost[k] \cup Range(Pending(k))]
      BY <2>2 DEF CheckpointExtract, Lose
    <3>2. Ledger(rows[k], queued[k], <<>>, noted[k], lost[k] \cup Range(Pending(k)))
      BY LedgerDrop DEF LedgerOf
    <3>. QED BY <3>1, <3>2 DEF StateOK
  <2>. QED BY <2>1, <2>2
<1>2. state' \in [Sessions -> States \cup {None}] /\ Pending(k)' = <<>>
  BY FreshState DEF CheckpointExtract, StateOK, Pending, Tracked
<1>3. ASSUME NEW j \in Sessions PROVE LedgerOf(j)'
  <2>1. CASE j # k
    BY <1>1, <2>1, SameLedger DEF CheckpointExtract, StateOK
  <2>2. CASE j = k
    BY <1>1, <1>2, <2>2 DEF CheckpointExtract, LedgerOf
  <2>. QED BY <2>1, <2>2
<1>. QED BY <1>1, <1>2, <1>3, InvNext DEF CheckpointExtract, StateOK

LEMMA StepFlushTimer ==
  ASSUME LedgerInv, NEW failed, FlushTimer(failed) PROVE LedgerInv'
<1> USE DEF LedgerInv
<1>1. ASSUME NEW j \in Sessions PROVE LedgerOf(j)'
  <2>1. Ledger(Flushed(j, j \notin failed), None, Pending(j), noted[j],
               lost[j] \cup FlushLoses(j, j \notin failed))
    BY FlushKeeps
  <2>2. /\ rows'[j] = Flushed(j, j \notin failed) /\ queued'[j] = None
        /\ lost'[j] = lost[j] \cup FlushLoses(j, j \notin failed)
        /\ Pending(j)' = Pending(j) /\ noted' = noted
    BY DEF FlushTimer, EmptyQueue, Pending, Tracked
  <2>. QED BY <2>1, <2>2 DEF LedgerOf
<1>2. /\ queued' = [j \in Sessions |-> queued'[j]]
      /\ rows' = [j \in Sessions |-> rows'[j]]
      /\ lost' = [j \in Sessions |-> lost'[j]]
      /\ timer' \in BOOLEAN
  BY DEF FlushTimer, EmptyQueue
<1>. QED BY <1>1, <1>2, InvNext DEF FlushTimer, StateOK

LEMMA StepEndSession ==
  ASSUME LedgerInv, NEW k \in Sessions, NEW clear \in BOOLEAN,
         NEW ok \in BOOLEAN, NEW failed, EndSession(k, clear, ok, failed)
  PROVE  LedgerInv'
<1> USE DEF LedgerInv
<1> DEFINE last == Checkpoint(k, "session_end")
           flushed(j) == Flushed(j, j \notin failed)
           loses(j) == lost[j] \cup FlushLoses(j, j \notin failed)
           ends == ~clear /\ Tracked(k) /\ state[k].spoke /\ ok
<1>1. /\ queued' = [j \in Sessions |-> None] /\ timer' = FALSE
      /\ state' = [state EXCEPT ![k] = None]
      /\ seen' = seen \ {k} /\ starting' = starting /\ noted' = noted
  BY DEF EndSession, EmptyQueue
<1>2. /\ rows' = [j \in Sessions |->
                    IF j = k /\ ends THEN Written(flushed(k), last) ELSE flushed(j)]
      /\ \A j \in Sessions \ {k} : lost'[j] = loses(j)
      /\ lost'[k] = loses(k) \cup (IF ends THEN Evicted(flushed(k), last)
                                   ELSE Range(Pending(k)))
      /\ lost' = [j \in Sessions |-> lost'[j]]
  BY DEF EndSession
<1>3. \A j \in Sessions :
        Ledger(flushed(j), None, Pending(j), noted[j], loses(j))
  BY FlushKeeps
<1>4. /\ last \in Checkpoints /\ last.notes = Pending(k) /\ last.upto = noted[k]
  BY CheckpointTyped DEF Kinds
<1> HIDE DEF last, flushed, loses, ends
<1>5. ASSUME NEW j \in Sessions PROVE LedgerOf(j)'
  <2>1. CASE j # k
    <3>1. /\ rows'[j] = flushed(j) /\ queued'[j] = None /\ lost'[j] = loses(j)
          /\ Pending(j)' = Pending(j) /\ noted' = noted
      BY <1>1, <1>2, <2>1 DEF StateOK, Pending, Tracked
    <3>. QED BY <1>3, <3>1 DEF LedgerOf
  <2>2. CASE j = k
    <3>1. queued'[k] = None /\ Pending(k)' = <<>> /\ noted' = noted
      BY <1>1 DEF StateOK, Pending, Tracked
    <3>2. CASE ends
      <4>1. /\ rows'[k] = Written(flushed(k), last)
            /\ lost'[k] = loses(k) \cup Evicted(flushed(k), last)
        BY <1>2, <3>2
      <4>2. Ledger(Written(flushed(k), last), None, <<>>, noted[k],
                   loses(k) \cup Evicted(flushed(k), last))
        BY <1>3, <1>4, LedgerWrite
      <4>. QED BY <2>2, <3>1, <4>1, <4>2 DEF LedgerOf
    <3>3. CASE ~ends
      <4>1. rows'[k] = flushed(k) /\ lost'[k] = loses(k) \cup Range(Pending(k))
        BY <1>2, <3>3
      <4>2. Ledger(flushed(k), None, <<>>, noted[k],
                   loses(k) \cup Range(Pending(k)))
        BY <1>3, LedgerDrop
      <4>. QED BY <2>2, <3>1, <4>1, <4>2 DEF LedgerOf
    <3>. QED BY <3>2, <3>3
  <2>. QED BY <2>1, <2>2
<1>6. /\ state' \in [Sessions -> States \cup {None}] /\ timer' \in BOOLEAN
      /\ starting' \subseteq Sessions /\ seen' \subseteq Sessions
      /\ noted' \in [Sessions -> 0 .. MaxNoted]
      /\ queued' = [j \in Sessions |-> queued'[j]]
      /\ rows' = [j \in Sessions |-> rows'[j]]
      /\ lost' = [j \in Sessions |-> lost'[j]]
  BY <1>1, <1>2 DEF StateOK
<1>. QED BY <1>5, <1>6, InvNext

LEMMA StepPrune ==
  ASSUME LedgerInv, NEW k \in Sessions, NEW n \in 1 .. MaxRows, Prune(k, n)
  PROVE  LedgerInv'
<1> USE DEF LedgerInv
<1>1. ASSUME NEW j \in Sessions PROVE LedgerOf(j)'
  <2>1. CASE j # k
    BY <2>1, SameLedger DEF Prune, StateOK, Lose
  <2>2. CASE j = k
    <3>1. /\ rows'[k] = SubSeq(rows[k], n + 1, Len(rows[k]))
          /\ lost'[k] = lost[k]
                 \cup UNION {Range(rows[k][i].notes) : i \in 1 .. n}
          /\ n \in 1 .. Len(rows[k])
      BY DEF Prune, StateOK, Lose
    <3>2. Ledger(rows'[k], queued[k], Pending(k), noted[k], lost'[k])
      BY <3>1, LedgerPrune DEF LedgerOf
    <3>. QED BY <2>2, <3>2 DEF LedgerOf, Prune, Pending, Tracked
  <2>. QED BY <2>1, <2>2
<1>. QED BY <1>1, InvNext DEF Prune, StateOK, Lose

LEMMA StepShutdown ==
  ASSUME LedgerInv, NEW failed, Shutdown(failed) PROVE LedgerInv'
<1> USE DEF LedgerInv
<1>1. ASSUME NEW j \in Sessions PROVE LedgerOf(j)'
  <2> DEFINE loses == lost[j] \cup FlushLoses(j, j \notin failed)
  <2>1. Ledger(Flushed(j, j \notin failed), None, Pending(j), noted[j], loses)
    BY FlushKeeps
  <2>2. /\ rows'[j] = Flushed(j, j \notin failed) /\ queued'[j] = None
        /\ lost'[j] = loses \cup Range(Pending(j))
        /\ Pending(j)' = <<>> /\ noted' = noted
    BY DEF Shutdown, ForgetSessions, EmptyQueue, Pending, Tracked
  <2> HIDE DEF loses
  <2>3. Ledger(Flushed(j, j \notin failed), None, <<>>, noted[j],
               loses \cup Range(Pending(j)))
    BY <2>1, LedgerDrop
  <2>. QED BY <2>2, <2>3 DEF LedgerOf
<1>2. /\ state' \in [Sessions -> States \cup {None}] /\ timer' \in BOOLEAN
      /\ starting' \subseteq Sessions /\ seen' \subseteq Sessions
      /\ noted' \in [Sessions -> 0 .. MaxNoted]
      /\ queued' = [j \in Sessions |-> queued'[j]]
      /\ rows' = [j \in Sessions |-> rows'[j]]
      /\ lost' = [j \in Sessions |-> lost'[j]]
  BY DEF Shutdown, ForgetSessions, EmptyQueue, StateOK
<1>. QED BY <1>1, <1>2, InvNext

LEMMA StepCrash ==
  ASSUME LedgerInv, Crash PROVE LedgerInv'
<1> USE DEF LedgerInv
<1>1. ASSUME NEW j \in Sessions PROVE LedgerOf(j)'
  <2> DEFINE loses == lost[j] \cup Range(Carried(queued[j]))
  <2>1. Ledger(rows[j], None, Pending(j), noted[j], loses)
    BY LedgerUnqueue DEF LedgerOf
  <2>2. /\ rows' = rows /\ queued'[j] = None
        /\ lost'[j] = loses \cup Range(Pending(j))
        /\ Pending(j)' = <<>> /\ noted' = noted
    BY DEF Crash, ForgetSessions, EmptyQueue, Pending, Tracked
  <2> HIDE DEF loses
  <2>3. Ledger(rows[j], None, <<>>, noted[j], loses \cup Range(Pending(j)))
    BY <2>1, LedgerDrop
  <2>. QED BY <2>2, <2>3 DEF LedgerOf
<1>2. /\ state' \in [Sessions -> States \cup {None}] /\ timer' \in BOOLEAN
      /\ starting' \subseteq Sessions /\ seen' \subseteq Sessions
      /\ noted' \in [Sessions -> 0 .. MaxNoted]
      /\ queued' = [j \in Sessions |-> queued'[j]]
      /\ rows' = [j \in Sessions |-> rows'[j]]
      /\ lost' = [j \in Sessions |-> lost'[j]]
  BY DEF Crash, ForgetSessions, EmptyQueue, StateOK
<1>. QED BY <1>1, <1>2, InvNext

LEMMA NextInv == LedgerInv /\ [Next]_vars => LedgerInv'
<1> SUFFICES ASSUME LedgerInv, [Next]_vars PROVE LedgerInv'
  OBVIOUS
<1>1. CASE UNCHANGED vars
  <2>1. \A k \in Sessions : LedgerOf(k)'
    BY <1>1, SameLedger DEF vars, LedgerInv
  <2>. QED BY <1>1, <2>1 DEF vars, LedgerInv, StateOK
<1>2. ASSUME NEW k \in Sessions,
             \/ StartSession(k) \/ FinishStart(k)
             \/ NoteUntracked(k) \/ RecordRemember(k)
             \/ RecordPrompt(k) \/ PromptDue(k)
             \/ \E ok \in BOOLEAN :
                  \/ PreCompaction(k, ok) \/ CheckpointExtract(k, ok)
                  \/ \E clear \in BOOLEAN, failed \in SUBSET Waiting :
                       EndSession(k, clear, ok, failed)
             \/ \E n \in 1 .. MaxRows : Prune(k, n)
      PROVE  LedgerInv'
  <2>1. CASE StartSession(k)
    BY <2>1, StepStartSession
  <2>2. CASE FinishStart(k)
    BY <2>2, StepFinishStart
  <2>3. CASE NoteUntracked(k)
    BY <2>3, StepNoteUntracked
  <2>4. CASE RecordRemember(k) \/ RecordPrompt(k)
    BY <2>4, StepRecord
  <2>5. CASE PromptDue(k)
    BY <2>5, StepPromptDue
  <2>6. CASE \E ok \in BOOLEAN : PreCompaction(k, ok)
    BY <2>6, StepPreCompaction
  <2>7. CASE \E ok \in BOOLEAN : CheckpointExtract(k, ok)
    BY <2>7, StepCheckpointExtract
  <2>8. CASE \E ok, clear \in BOOLEAN, failed \in SUBSET Waiting :
               EndSession(k, clear, ok, failed)
    BY <2>8, StepEndSession
  <2>9. CASE \E n \in 1 .. MaxRows : Prune(k, n)
    BY <2>9, StepPrune
  <2>. QED BY <1>2, <2>1, <2>2, <2>3, <2>4, <2>5, <2>6, <2>7, <2>8, <2>9
<1>3. ASSUME NEW failed \in SUBSET Waiting, FlushTimer(failed) \/ Shutdown(failed)
      PROVE  LedgerInv'
  BY <1>3, StepFlushTimer, StepShutdown
<1>4. CASE Crash
  BY <1>4, StepCrash
<1>. QED BY <1>1, <1>2, <1>3, <1>4 DEF Next

LEMMA LedgersKept == Spec => []LedgerInv
<1>. QED BY InitInv, NextInv, PTL DEF Spec

(***************************************************************************)
(* What the ledgers show                                                    *)
(***************************************************************************)

\* A sequence of some of the numbers.
LEMMA NotesIn ==
  ASSUME NEW S, NEW p \in Seq(Nat), Range(p) \subseteq S
  PROVE  p \in Seq(S)
<1>1. Len(p) \in Nat /\ DOMAIN p = 1 .. Len(p) /\ p = [i \in 1 .. Len(p) |-> p[i]]
  BY LenProperties
<1>2. \A i \in 1 .. Len(p) : p[i] \in S
  BY <1>1 DEF Range
<1>. QED BY <1>1, <1>2

\* Rows, queue and pending notes stay within their caps, and what a checkpoint
\* is about is a note there has been: for any caps.
THEOREM TypeCorrect == Spec => []TypeOK
<1>1. LedgerInv => TypeOK
  <2> SUFFICES ASSUME LedgerInv PROVE TypeOK
    OBVIOUS
  <2>1. ASSUME NEW k \in Sessions
        PROVE  /\ noted[k] \in 0 .. MaxNoted /\ lost[k] \subseteq 1 .. MaxNoted
               /\ Range(Pending(k)) \subseteq 1 .. MaxNoted
    <3>1. noted[k] \in 0 .. MaxNoted
      BY DEF LedgerInv, StateOK
    <3>2. 1 .. noted[k] \subseteq 1 .. MaxNoted
      BY <3>1, ContinuityAssumption
    <3>3. lost[k] \subseteq 1 .. noted[k] /\ Range(Pending(k)) \subseteq 1 .. noted[k]
      BY DEF LedgerInv, LedgerOf, Ledger, Shared
    <3>. QED BY <3>1, <3>2, <3>3
  <2>2. ASSUME NEW k \in Sessions
        PROVE  state[k] \in [pending : Seq(1 .. MaxNoted), spoke : BOOLEAN] \cup {None}
    <3>1. CASE state[k] = None
      BY <3>1
    <3>2. CASE state[k] # None
      <4>1. /\ state[k] \in States /\ Pending(k) = state[k].pending
            /\ Pending(k) \in Seq(Nat)
        BY <3>2, PendingTyped DEF LedgerInv, Tracked
      <4>2. state[k].pending \in Seq(1 .. MaxNoted)
        BY <2>1, <4>1, NotesIn
      <4>. QED BY <4>1, <4>2 DEF States
    <3>. QED BY <3>1, <3>2
  <2>3. ASSUME NEW k \in Sessions
        PROVE  /\ Len(rows[k]) <= MaxRows
               /\ \A r \in Range(rows[k]) \cup ({queued[k]} \ {None}) :
                    r.kind \in Kinds /\ r.upto \in 0 .. noted[k]
               /\ Len(Pending(k)) <= Keep /\ Len(Carried(queued[k])) <= Keep
    <3>1. /\ rows[k] \in Seq(Checkpoints) /\ noted[k] \in Nat
          /\ Len(rows[k]) <= MaxRows
          /\ Len(Pending(k)) <= Keep /\ Len(Carried(queued[k])) <= Keep
          /\ queued[k] \in Checkpoints \cup {None}
          /\ Dated(rows[k], noted[k])
          /\ queued[k] # None => queued[k].upto <= noted[k]
      BY DEF LedgerInv, LedgerOf, Ledger, LedgerTyped, InOrder
    <3>2. ASSUME NEW i \in DOMAIN rows[k]
          PROVE  rows[k][i].kind \in Kinds /\ rows[k][i].upto \in 0 .. noted[k]
      <4>1. rows[k][i] \in Checkpoints /\ rows[k][i].upto \in Nat
        BY <3>1, RowTyped
      <4>. QED BY <3>1, <4>1 DEF Dated, Checkpoints
    <3>3. queued[k] # None =>
            queued[k].kind \in Kinds /\ queued[k].upto \in 0 .. noted[k]
      BY <3>1 DEF Checkpoints
    <3>. QED BY <3>1, <3>2, <3>3 DEF Range
  <2>4. state \in [Sessions -> [pending : Seq(1 .. MaxNoted), spoke : BOOLEAN]
                                 \cup {None}]
    BY <2>2 DEF LedgerInv, StateOK
  <2>5. lost \in [Sessions -> SUBSET (1 .. MaxNoted)]
    BY <2>1 DEF LedgerInv, StateOK
  <2>. QED BY <2>3, <2>4, <2>5 DEF LedgerInv, StateOK, TypeOK
<1>. QED BY <1>1, LedgersKept, PTL

\* The places of a session's notes, by their index.
LEMMA PlacesOf ==
  ASSUME LedgerInv, NEW k \in Sessions
  PROVE  LET ps == Places(k)
             m == Len(rows[k])
         IN  /\ m \in Nat /\ DOMAIN rows[k] = 1 .. m
             /\ DOMAIN ps = 1 .. m + 2
             /\ \A i \in 1 .. m : ps[i] = rows[k][i].notes
             /\ ps[m + 1] = Carried(queued[k]) /\ ps[m + 2] = Pending(k)
<1> DEFINE m == Len(rows[k])
           ns == [i \in DOMAIN rows[k] |-> rows[k][i].notes]
<1>1. rows[k] \in Seq(Checkpoints) /\ m \in Nat /\ DOMAIN rows[k] = 1 .. m
  BY LenProperties DEF LedgerInv, StateOK
<1>2. \A i \in 1 .. m : rows[k][i].notes \in Seq(Nat)
  BY <1>1, RowTyped
<1>3. ns \in Seq(Seq(Nat)) /\ Len(ns) = m
  BY <1>1, <1>2
<1>4. Carried(queued[k]) \in Seq(Nat) /\ Pending(k) \in Seq(Nat)
  BY CarriedTyped, PendingTyped DEF LedgerInv, StateOK
<1> DEFINE more == Append(ns, Carried(queued[k]))
<1>5. /\ more \in Seq(Seq(Nat)) /\ Len(more) = m + 1
      /\ \A i \in 1 .. m : more[i] = ns[i]
      /\ more[m + 1] = Carried(queued[k])
  BY <1>1, <1>3, <1>4
<1>6. \A i \in 1 .. m : ns[i] = rows[k][i].notes
  BY <1>1
<1>7. Places(k) = Append(more, Pending(k))
  BY DEF Places
<1> HIDE DEF more, ns, m
<1> DEFINE ps == Append(more, Pending(k))
<1>8. /\ DOMAIN ps = 1 .. m + 2 /\ ps[m + 2] = Pending(k)
      /\ \A i \in 1 .. m + 1 : ps[i] = more[i]
  BY <1>1, <1>4, <1>5
<1> HIDE DEF ps
<1>9. /\ \A i \in 1 .. m : ps[i] = rows[k][i].notes
      /\ ps[m + 1] = Carried(queued[k])
  BY <1>1, <1>5, <1>6, <1>8
<1>. QED BY <1>1, <1>7, <1>8, <1>9 DEF m, ps

\* Between hooks, the queue and the rows no note is lost but by a failed write,
\* a cap, the retention or the end of what tracks it, and none is kept twice.
THEOREM NotesAccounted == Spec => []NotesAccountedFor
<1>1. LedgerInv => NotesAccountedFor
  <2> SUFFICES ASSUME LedgerInv, NEW k \in Sessions
               PROVE  LET places == Places(k)
                      IN  /\ \A i \in DOMAIN places : IsInjective(places[i])
                          /\ \A i, j \in DOMAIN places :
                               i # j => Range(places[i]) \cap Range(places[j]) = {}
                          /\ UNION {Range(places[i]) : i \in DOMAIN places}
                               = (1 .. noted[k]) \ lost[k]
    BY DEF NotesAccountedFor
  <2> DEFINE ps == Places(k)
             m == Len(rows[k])
             R == RowNotes(rows[k])
             Q == Range(Carried(queued[k]))
             P == Range(Pending(k))
  <2>1. /\ m \in Nat /\ DOMAIN rows[k] = 1 .. m /\ DOMAIN ps = 1 .. m + 2
        /\ \A i \in 1 .. m : ps[i] = rows[k][i].notes
        /\ ps[m + 1] = Carried(queued[k]) /\ ps[m + 2] = Pending(k)
    BY PlacesOf
  <2>2. /\ Distinct(rows[k]) /\ IsInjective(Carried(queued[k]))
        /\ IsInjective(Pending(k)) /\ Shared(R, Q, P, noted[k], lost[k])
    BY DEF LedgerInv, LedgerOf, Ledger, LedgerTyped
  <2> HIDE DEF ps, m
  <2>3. \A i \in DOMAIN ps : i \in 1 .. m \/ i = m + 1 \/ i = m + 2
    BY <2>1
  <2>4. \A i \in DOMAIN ps : IsInjective(ps[i])
    BY <2>1, <2>2, <2>3 DEF Distinct
  <2>5. \A i \in 1 .. m : Range(ps[i]) \subseteq R
    BY <2>1 DEF RowNotes
  <2>6. R \cap Q = {} /\ R \cap P = {} /\ Q \cap P = {}
    BY <2>2 DEF Shared
  <2>7. Range(ps[m + 1]) = Q /\ Range(ps[m + 2]) = P
    BY <2>1
  <2>8. R \cup Q \cup P = (1 .. noted[k]) \ lost[k]
    BY <2>2 DEF Shared
  <2>9. \A i, j \in 1 .. m : i # j => Range(ps[i]) \cap Range(ps[j]) = {}
    BY <2>1, <2>2 DEF Distinct
  <2>10. R = UNION {Range(ps[i]) : i \in 1 .. m}
    BY <2>1 DEF RowNotes
  <2> HIDE DEF R, Q, P
  <2>11. \A i, j \in DOMAIN ps : i # j => Range(ps[i]) \cap Range(ps[j]) = {}
    <3>1. SUFFICES ASSUME NEW i \in DOMAIN ps, NEW j \in DOMAIN ps, i # j
                   PROVE  Range(ps[i]) \cap Range(ps[j]) = {}
      OBVIOUS
    <3>2. CASE i \in 1 .. m /\ j \in 1 .. m
      BY <2>9, <3>1, <3>2
    <3>3. CASE i \in 1 .. m /\ j \notin 1 .. m
      BY <2>3, <2>5, <2>6, <2>7, <3>3
    <3>4. CASE i \notin 1 .. m /\ j \in 1 .. m
      BY <2>3, <2>5, <2>6, <2>7, <3>4
    <3>5. CASE i \notin 1 .. m /\ j \notin 1 .. m
      BY <2>3, <2>6, <2>7, <3>1, <3>5
    <3>. QED BY <3>2, <3>3, <3>4, <3>5
  <2>12. UNION {Range(ps[i]) : i \in DOMAIN ps} = R \cup Q \cup P
    <3>1. \A i \in 1 .. m : i \in DOMAIN ps
      BY <2>1
    <3>2. m + 1 \in DOMAIN ps /\ m + 2 \in DOMAIN ps
      BY <2>1
    <3>3. R \cup Q \cup P \subseteq UNION {Range(ps[i]) : i \in DOMAIN ps}
      BY <2>7, <2>10, <3>1, <3>2
    <3>4. UNION {Range(ps[i]) : i \in DOMAIN ps} \subseteq R \cup Q \cup P
      BY <2>3, <2>5, <2>7
    <3>. QED BY <3>3, <3>4
  <2>. QED BY <2>4, <2>8, <2>11, <2>12 DEF ps
<1>. QED BY <1>1, LedgersKept, PTL

\* What recovery takes for the latest checkpoint, a session's end, is about the
\* latest notes: the queue is flushed before it and never holds an older one
\* after it.
THEOREM EndsLatest == Spec => []EndIsLatest
<1>1. LedgerInv => EndIsLatest
  BY DEF LedgerInv, LedgerOf, Ledger, InOrder, EndsAreLatest, EndIsLatest
<1>. QED BY <1>1, LedgersKept, PTL

(***************************************************************************)
(* The queue and its timer                                                  *)
(***************************************************************************)

\* What QueueIsFlushed rests on: whoever empties the queue or stops the timer
\* does both, so that what is queued always has the timer armed.
QueuedIsTimed == \A k \in Sessions : queued[k] # None => timer

LEMMA TimedStep == QueuedIsTimed /\ [Next]_vars => QueuedIsTimed'
<1> SUFFICES ASSUME QueuedIsTimed, [Next]_vars PROVE QueuedIsTimed'
  OBVIOUS
<1> USE DEF QueuedIsTimed
<1>1. CASE UNCHANGED <<queued, timer>>
  BY <1>1
<1>2. ASSUME NEW k \in Sessions, PromptDue(k) PROVE QueuedIsTimed'
  BY <1>2 DEF PromptDue, QueueWrite
<1>3. CASE EmptyQueue
  BY <1>3 DEF EmptyQueue
<1>4. ASSUME NEW k \in Sessions, NEW ok \in BOOLEAN, NEW clear \in BOOLEAN,
             NEW failed \in SUBSET Waiting, EndSession(k, clear, ok, failed)
      PROVE  QueuedIsTimed'
  BY <1>3, <1>4 DEF EndSession
<1>5. ASSUME NEW failed \in SUBSET Waiting,
             FlushTimer(failed) \/ Shutdown(failed)
      PROVE  QueuedIsTimed'
  BY <1>3, <1>5 DEF FlushTimer, Shutdown, ForgetSessions
<1>6. CASE Crash
  BY <1>3, <1>6 DEF Crash, ForgetSessions
<1>. QED BY <1>1, <1>2, <1>4, <1>5, <1>6
     DEF Next, vars, StartSession, FinishStart, NoteUntracked, RecordRemember,
         RecordPrompt, PreCompaction, CheckpointExtract, Prune

\* No checkpoint is ever in the queue with nothing to flush it, whoever ended,
\* crashed or flushed in between.
THEOREM QueueHasTimer == Spec => []QueuedIsTimed
<1>1. Init => QueuedIsTimed
  BY DEF Init, QueuedIsTimed
<1>. QED BY TimedStep, <1>1, PTL DEF Spec
=============================================================================
