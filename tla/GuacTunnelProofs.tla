-------------------------- MODULE GuacTunnelProofs --------------------------
(***************************************************************************)
(* Proofs about GuacTunnel, for any number of streams, instructions,       *)
(* pastes and toggles and any size of the Framer's buffer: nothing is lost *)
(* in re-framing, refusals are answered, the filter implements the gate    *)
(* that ClipboardGate describes, and the types.                            *)
(***************************************************************************)
EXTENDS GuacTunnel, SequenceTheorems, WellFoundedInduction, TLAPS

Frags == [inst : Insts, kind : {"part", "last", "garbage", "endless"}]
Entries == [inst : Insts, kept : BOOLEAN]
Toggles == [op : {"toggle"}, dir : Dirs, on : BOOLEAN]

\* The instructions of a log, or of fragments.
InstsOf(L) == [n \in DOMAIN L |-> L[n].inst]

\* The instruction at k is the last one before n on the index of the n-th.
Before(s, k, n) ==
    /\ s[k].idx = s[n].idx
    /\ \A m \in (k + 1)..(n - 1) : s[m].idx # s[n].idx

\* A stream is opened when none is open on its index, and continued while it is.
FitsAt(s, n) ==
    /\ s[n].op \in {"clipboard", "img"} =>
         \A k \in 1..(n - 1) : Before(s, k, n) => s[k].op = "end"
    /\ s[n].op \in {"blob", "end"} =>
         \E k \in 1..(n - 1) : Before(s, k, n) /\ s[k].op # "end"

Orderly(s) == \A n \in 1..Len(s) : FitsAt(s, n)

\* No later entry of L is on the index of the k-th.
LastOf(L, k) == \A m \in (k + 1)..Len(L) : L[m].inst.idx # L[k].inst.idx

\* The blocked indices are those of the streams whose last instruction was
\* dropped and did not end them.
Tracked(b, L) ==
    /\ \A k \in 1..Len(L) : LastOf(L, k) =>
         (L[k].inst.idx \in b <=> ~L[k].kept /\ L[k].inst.op # "end")
    /\ \A i \in b : \E k \in 1..Len(L) : L[k].inst.idx = i /\ LastOf(L, k)

\* The opening of the stream that the k-th entry of L belongs to.
Opening(L, j, k) ==
    /\ j < k
    /\ L[j].inst.op \in {"clipboard", "img"}
    /\ L[j].inst.idx = L[k].inst.idx
    /\ \A m \in (j + 1)..(k - 1) :
         ~(L[m].inst.op \in {"clipboard", "img"} /\ L[m].inst.idx = L[k].inst.idx)

\* A stream has passed whole or not at all, and everything else has passed.
Upright(L) ==
    \A k \in 1..Len(L) :
      /\ L[k].inst.op = "img" => L[k].kept
      /\ L[k].inst.op \in {"blob", "end"} =>
           \A j \in 1..(k - 1) : Opening(L, j, k) => L[k].kept = L[j].kept

\* What is under way from guacd never starts inside an instruction.
Framed(s) ==
    /\ s # <<>> => s[1].kind # "last"
    /\ \A k \in 1..Len(s) : s[k].kind = "last" /\ k < Len(s) => s[k + 1].kind # "last"

\* guacd's own view of its streams.
LiveIn(s, v) ==
    \A i \in Indices :
      i \in v <=> \E k \in 1..Len(s) : /\ s[k].idx = i /\ s[k].op # "end"
                                         /\ \A m \in (k + 1)..Len(s) : s[m].idx # i

\* The paste streams, one after the other: how far the one under way is.
Ended(L) == L # <<>> => L[Len(L)].inst.op = "end"
PasteAt(L) ==
    /\ \A k \in 1..Len(L) : L[k].inst.idx = 1
    /\ \/ inbox = <<>> /\ Ended(L)
       \/ (\E t \in Toggles : inbox = <<t>>) /\ Ended(L)
       \/ inbox = <<Inst("clipboard", 1), Inst("blob", 1), Inst("end", 1)>> /\ Ended(L)
       \/ inbox = <<Inst("blob", 1), Inst("end", 1)>> /\ L # <<>> /\ L[Len(L)].inst.op = "clipboard"
       \/ inbox = <<Inst("end", 1)>> /\ L # <<>> /\ L[Len(L)].inst.op = "blob"

Shape ==
    /\ pump \in [Dirs -> {"idle", "read", "write", "answer", "done"}]
    /\ grant \in [Dirs -> BOOLEAN] /\ want \in [Dirs -> BOOLEAN]
    /\ blocked \in [Dirs -> SUBSET Indices] /\ live \subseteq Indices
    /\ wire \in Seq(Frags) /\ buf \in Seq(Frags) /\ sent \in Seq(Insts)
    /\ log \in [Dirs -> Seq(Entries)]
    /\ reply \in Seq(Indices) /\ acked \in Seq(Indices)

Refusals == [inst : [op : {"clipboard"}, idx : Indices], kept : {FALSE}]

\* Every refusal is answered or about to be.
RefusalsKept ==
    /\ LET refused == Those(log["paste"], Refusals)
       IN  [n \in DOMAIN refused |-> refused[n].inst.idx] = acked \o reply
    /\ pump["paste"] \in {"idle", "read"} => reply = <<>>

Copying == Framed(buf \o wire) /\ NothingLost /\ Orderly(sent) /\ LiveIn(sent, live)

Pasting == PasteAt(log["paste"]) /\ Orderly(InstsOf(log["paste"]))

Judging == \A d \in Dirs : Tracked(blocked[d], log[d]) /\ Upright(log[d])

\* The pumps start when the handshake is over.
Started == main \in {"select", "connect"} => \A d \in Dirs : pump[d] = "idle"

IInv == Shape /\ Started /\ Copying /\ Pasting /\ Judging /\ RefusalsKept
-----------------------------------------------------------------------------
(* Induction, with sets in the place of predicates.                        *)

\* A non-empty set of numbers has a least element.
LEMMA NatMin ==
  ASSUME NEW T, T \subseteq Nat, T # {}
  PROVE  \E x \in T : \A y \in T : x <= y
<1> DEFINE R == OpToRel(<, Nat)
<1>1. IsWellFoundedOn(R, Nat)
  BY NatLessThanWellFounded
<1>2. \A x, y \in Nat : <<y, x>> \in R <=> y < x
  BY DEF OpToRel
<1> HIDE DEF R
<1>3. PICK x \in T : \A y \in T : ~(<<y, x>> \in R)
  BY <1>1, WFMin
<1>4. \A y \in T : x <= y
  <2> TAKE y \in T
  <2>1. x \in Nat /\ y \in Nat
    OBVIOUS
  <2>2. ~(<<y, x>> \in R)
    BY <1>3
  <2>3. ~(y < x)
    BY <1>2, <2>1, <2>2
  <2>4. QED
    BY <2>1, <2>3
<1>5. QED
  BY <1>4

\* A set with 0 and the successor of each of its numbers has every number.
LEMMA NatSet ==
  ASSUME NEW P, 0 \in P, \A n \in Nat : n \in P => n + 1 \in P
  PROVE  \A n \in Nat : n \in P
<1> DEFINE Bad == {n \in Nat : n \notin P}
<1> SUFFICES ASSUME Bad # {} PROVE FALSE
  OBVIOUS
<1>1. PICK n \in Bad : \A m \in Bad : n <= m
  BY NatMin
<1>2. n # 0 /\ n \in Nat
  OBVIOUS
<1>3. n - 1 \in Nat /\ n - 1 \notin Bad
  BY <1>1, <1>2
<1>4. n - 1 \in P /\ (n - 1) + 1 = n
  BY <1>2, <1>3
<1>5. n \in P
  BY <1>3, <1>4
<1>6. QED
  BY <1>5

-----------------------------------------------------------------------------
(* Those.                                                                  *)

\* The function that Those evaluates.
Chooses(s, S, F) ==
  F = [n \in 0..Len(s) |->
         IF n = 0 THEN <<>>
         ELSE IF s[n] \in S THEN Append(F[n - 1], s[n]) ELSE F[n - 1]]

\* There is one.
LEMMA ChoosesExists ==
  ASSUME NEW E, NEW s \in Seq(E), NEW S
  PROVE  \E F : Chooses(s, S, F)
<1> DEFINE Step(g, n) == IF s[n] \in S THEN Append(g, s[n]) ELSE g
           Upto(N, F) == F = [n \in 0..N |-> IF n = 0 THEN <<>> ELSE Step(F[n - 1], n)]
           P == {N \in Nat : \E F : Upto(N, F)}
<1>1. 0 \in P
  <2> DEFINE F == [n \in 0..0 |-> <<>>]
  <2>1. Upto(0, F)
    OBVIOUS
  <2>2. QED
    BY <2>1
<1>2. \A N \in Nat : N \in P => N + 1 \in P
  <2> TAKE N \in Nat
  <2> HAVE N \in P
  <2>a. PICK F : Upto(N, F)
    OBVIOUS
  <2>b. N + 1 \in Nat
    OBVIOUS
  <2> HIDE DEF Upto
  <2> SUFFICES \E G : Upto(N + 1, G)
    BY <2>b
  <2> USE DEF Upto
  <2> HIDE DEF Step
  <2> DEFINE G == [n \in 0..(N + 1) |-> IF n = N + 1 THEN Step(F[N], N + 1) ELSE F[n]]
  <2>1. \A n \in 0..(N + 1) : G[n] = IF n = 0 THEN <<>> ELSE Step(G[n - 1], n)
    <3> TAKE n \in 0..(N + 1)
    <3>1. CASE n = N + 1
      BY <3>1
    <3>2. CASE n # N + 1
      <4>1. n \in 0..N
        BY <3>2
      <4>2. F[n] = IF n = 0 THEN <<>> ELSE Step(F[n - 1], n)
        BY <2>a, <4>1
      <4>3. G[n] = F[n] /\ (n # 0 => G[n - 1] = F[n - 1])
        BY <4>1
      <4>4. QED
        BY <4>2, <4>3
    <3>3. QED
      BY <3>1, <3>2
  <2>2. Upto(N + 1, G)
    <3> DEFINE H == [n \in 0..(N + 1) |-> IF n = 0 THEN <<>> ELSE Step(G[n - 1], n)]
    <3> HIDE DEF G
    <3>1. G = [n \in 0..(N + 1) |-> G[n]]
      BY DEF G
    <3>2. G = H
      BY <2>1, <3>1
    <3>3. QED
      BY <3>2
  <2>3. QED
    BY <2>2
<1>3. Len(s) \in Nat
  BY LenProperties
<1>4. Len(s) \in P
  <2> HIDE DEF P
  <2>1. QED
    BY <1>1, <1>2, <1>3, NatSet
<1>5. PICK F : Upto(Len(s), F)
  BY <1>4
<1>6. Chooses(s, S, F)
  BY <1>5 DEF Chooses
<1>7. QED
  BY <1>6

\* Its values, one from the other.
LEMMA ChoosesAt ==
  ASSUME NEW s, NEW S, NEW F, Chooses(s, S, F), Len(s) \in Nat
  PROVE  /\ F[0] = <<>>
         /\ \A n \in Nat : n + 1 <= Len(s) =>
              F[n + 1] = IF s[n + 1] \in S THEN Append(F[n], s[n + 1]) ELSE F[n]
<1>1. F[0] = <<>>
  BY DEF Chooses
<1>2. ASSUME NEW n \in Nat, n + 1 <= Len(s)
      PROVE  F[n + 1] = IF s[n + 1] \in S THEN Append(F[n], s[n + 1]) ELSE F[n]
  <2> DEFINE m == n + 1
  <2>1. m \in 0..Len(s) /\ m # 0 /\ m - 1 = n
    BY <1>2
  <2> HIDE DEF m
  <2>2. F[m] = IF s[m] \in S THEN Append(F[m - 1], s[m]) ELSE F[m - 1]
    BY <2>1 DEF Chooses
  <2>3. QED
    BY <2>1, <2>2 DEF m
<1>3. QED
  BY <1>1, <1>2

\* Those is its last value.
LEMMA ThoseIs ==
  ASSUME NEW E, NEW s \in Seq(E), NEW S
  PROVE  \E F : Chooses(s, S, F) /\ Those(s, S) = F[Len(s)]
<1> DEFINE F == CHOOSE F : Chooses(s, S, F)
<1>1. Chooses(s, S, F)
  BY ChoosesExists
<1>2. Those(s, S) = F[Len(s)]
  BY DEF Those, Chooses
<1>3. QED
  BY <1>1, <1>2

\* The elements chosen are elements of the sequence.
LEMMA ThoseType ==
  ASSUME NEW E, NEW s \in Seq(E), NEW S
  PROVE  Those(s, S) \in Seq(E \cap S)
<1>1. PICK F : Chooses(s, S, F) /\ Those(s, S) = F[Len(s)]
  BY ThoseIs
<1> DEFINE P == {n \in Nat : n <= Len(s) => F[n] \in Seq(E \cap S)}
<1>2. 0 \in P
  BY <1>1 DEF Chooses
<1>3. \A n \in Nat : n \in P => n + 1 \in P
  <2> SUFFICES ASSUME NEW n \in Nat, n + 1 <= Len(s), F[n] \in Seq(E \cap S)
               PROVE  F[n + 1] \in Seq(E \cap S)
    BY LenProperties
  <2>1. F[n + 1] = IF s[n + 1] \in S THEN Append(F[n], s[n + 1]) ELSE F[n]
    BY <1>1, ChoosesAt, LenProperties
  <2>2. s[n + 1] \in E
    BY ElementOfSeq, LenProperties
  <2>3. QED
    BY <2>1, <2>2
<1> HIDE DEF P
<1>4. Len(s) \in P
  BY <1>2, <1>3, NatSet, LenProperties
<1>5. QED
  BY <1>1, <1>4, LenProperties DEF P

\* Nothing is chosen from nothing.
LEMMA ThoseEmpty ==
  ASSUME NEW S
  PROVE  Those(<<>>, S) = <<>>
<1>1. <<>> \in Seq({}) /\ Len(<<>>) = 0
  BY EmptySeq
<1>2. PICK F : Chooses(<<>>, S, F) /\ Those(<<>>, S) = F[Len(<<>>)]
  BY <1>1, ThoseIs
<1>3. QED
  BY <1>1, <1>2 DEF Chooses

\* One more element is added to what is chosen, or not.
LEMMA ThoseAppend ==
  ASSUME NEW E, NEW s \in Seq(E), NEW e \in E, NEW S
  PROVE  Those(Append(s, e), S) = IF e \in S THEN Append(Those(s, S), e) ELSE Those(s, S)
<1> DEFINE t == Append(s, e)
<1>1. /\ t \in Seq(E) /\ Len(t) = Len(s) + 1 /\ t[Len(s) + 1] = e
      /\ \A n \in 1..Len(s) : t[n] = s[n]
  BY AppendProperties
<1>2. Len(s) \in Nat
  BY LenProperties
<1> HIDE DEF t
<1>3. PICK F : Chooses(s, S, F) /\ Those(s, S) = F[Len(s)]
  BY ThoseIs
<1>4. PICK G : Chooses(t, S, G) /\ Those(t, S) = G[Len(t)]
  BY <1>1, ThoseIs
<1> DEFINE P == {n \in Nat : n <= Len(s) => G[n] = F[n]}
<1>5. 0 \in P
  BY <1>1, <1>2, <1>3, <1>4 DEF Chooses
<1>6. \A n \in Nat : n \in P => n + 1 \in P
  <2> SUFFICES ASSUME NEW n \in Nat, n + 1 <= Len(s), G[n] = F[n]
               PROVE  G[n + 1] = F[n + 1]
    BY <1>2
  <2>1. F[n + 1] = IF s[n + 1] \in S THEN Append(F[n], s[n + 1]) ELSE F[n]
    BY <1>2, <1>3, ChoosesAt
  <2>2. G[n + 1] = IF t[n + 1] \in S THEN Append(G[n], t[n + 1]) ELSE G[n]
    <3>1. n + 1 <= Len(t) /\ Len(t) \in Nat
      BY <1>1, <1>2
    <3>2. QED
      BY <1>4, <3>1, ChoosesAt
  <2>3. QED
    BY <1>1, <1>2, <2>1, <2>2
<1> HIDE DEF P
<1>7. Len(s) \in P
  BY <1>2, <1>5, <1>6, NatSet
<1>8. G[Len(s)] = F[Len(s)]
  BY <1>2, <1>7 DEF P
<1>9. G[Len(s) + 1] = IF e \in S THEN Append(G[Len(s)], e) ELSE G[Len(s)]
  <2>1. Len(s) + 1 <= Len(t) /\ Len(t) \in Nat
    BY <1>1, <1>2
  <2>2. QED
    BY <1>1, <1>2, <1>4, <2>1, ChoosesAt
<1>10. QED
  BY <1>1, <1>3, <1>4, <1>8, <1>9 DEF t

\* Appending to the second sequence appends to the whole.
LEMMA ConcatAppend ==
  ASSUME NEW E, NEW a \in Seq(E), NEW b \in Seq(E), NEW e \in E
  PROVE  a \o Append(b, e) = Append(a \o b, e)
<1>1. <<e>> \in Seq(E) /\ a \o b \in Seq(E)
  BY ConcatProperties
<1>2. Append(b, e) = b \o <<e>> /\ Append(a \o b, e) = (a \o b) \o <<e>>
  BY <1>1, AppendIsConcat
<1>3. QED
  BY <1>1, <1>2, ConcatAssociative

\* What is chosen from two sequences, one after the other.
LEMMA ThoseConcat ==
  ASSUME NEW E, NEW s \in Seq(E), NEW u \in Seq(E), NEW S
  PROVE  Those(s \o u, S) = Those(s, S) \o Those(u, S)
<1> DEFINE P == {n \in Nat : \A t \in Seq(E) : Len(t) = n =>
                               Those(s \o t, S) = Those(s, S) \o Those(t, S)}
<1>0. Those(s, S) \in Seq(E \cap S)
  BY ThoseType
<1>1. 0 \in P
  <2> SUFFICES ASSUME NEW t \in Seq(E), Len(t) = 0
               PROVE  Those(s \o t, S) = Those(s, S) \o Those(t, S)
    OBVIOUS
  <2>1. t = <<>> /\ s \o t = s
    BY EmptySeq, ConcatEmptySeq
  <2>2. Those(s, S) \o <<>> = Those(s, S)
    BY <1>0, ConcatEmptySeq
  <2>3. QED
    BY <2>1, <2>2, ThoseEmpty
<1>2. \A n \in Nat : n \in P => n + 1 \in P
  <2> TAKE n \in Nat
  <2> HAVE n \in P
  <2>a. n + 1 \in Nat
    OBVIOUS
  <2>b. SUFFICES ASSUME NEW t \in Seq(E), Len(t) = n + 1
                 PROVE  Those(s \o t, S) = Those(s, S) \o Those(t, S)
    BY <2>a
  <2>1. t # <<>>
    BY <2>b, EmptySeq
  <2>2. PICK v \in Seq(E), e \in E : t = Append(v, e)
    BY <2>1, SequenceEmptyOrAppend
  <2>3. Len(v) = n
    BY <2>b, <2>2, AppendProperties, LenProperties
  <2>4. Those(s \o v, S) = Those(s, S) \o Those(v, S)
    BY <2>3
  <2>5. s \o v \in Seq(E) /\ s \o t = Append(s \o v, e)
    BY <2>2, ConcatProperties, ConcatAppend
  <2>6. Those(s \o t, S) = IF e \in S THEN Append(Those(s \o v, S), e) ELSE Those(s \o v, S)
    <3> DEFINE w == s \o v
    <3>1. w \in Seq(E) /\ s \o t = Append(w, e)
      BY <2>5
    <3> HIDE DEF w
    <3>2. Those(Append(w, e), S) = IF e \in S THEN Append(Those(w, S), e) ELSE Those(w, S)
      BY <3>1, ThoseAppend
    <3>3. QED
      BY <3>1, <3>2 DEF w
  <2>7. Those(t, S) = IF e \in S THEN Append(Those(v, S), e) ELSE Those(v, S)
    BY <2>2, ThoseAppend
  <2>8. Those(v, S) \in Seq(E \cap S)
    BY ThoseType
  <2>9. CASE e \in S
    <3> DEFINE a == Those(s, S)
               b == Those(v, S)
    <3>1. a \in Seq(E) /\ b \in Seq(E)
      BY <1>0, <2>8, SeqMonotonic
    <3>2. Those(s \o t, S) = Append(a \o b, e) /\ Those(t, S) = Append(b, e)
      BY <2>4, <2>6, <2>7, <2>9
    <3> HIDE DEF a, b
    <3>3. a \o Append(b, e) = Append(a \o b, e)
      BY <3>1, ConcatAppend
    <3>4. QED
      BY <3>2, <3>3 DEF a, b
  <2>10. CASE e \notin S
    BY <2>4, <2>6, <2>7, <2>10
  <2>11. QED
    BY <2>9, <2>10
<1> HIDE DEF P
<1>3. Len(u) \in P
  BY <1>1, <1>2, NatSet, LenProperties
<1>4. QED
  BY <1>3 DEF P

-----------------------------------------------------------------------------
(* The loop of the filter.                                                 *)

\* What the loop has made of the filter's state.
States == [blocked : SUBSET Indices, log : Seq(Entries), refused : Seq(Indices)]

Fresh(b) == [blocked |-> b, log |-> <<>>, refused |-> <<>>]

Denied(w, i) == i.op = "clipboard" /\ ~w

\* One turn's verdict and what it leaves blocked.
Verdict(w, b, i) == ~Denied(w, i) /\ ~(i.op \in {"blob", "end"} /\ i.idx \in b)

StillBlocked(w, b, i) ==
  IF Denied(w, i) THEN b \cup {i.idx} ELSE IF i.op = "end" THEN b \ {i.idx} ELSE b

\* RewriteOne in these terms.
LEMMA OneTurn ==
  ASSUME NEW w \in BOOLEAN, NEW f \in States, NEW i \in Insts
  PROVE  LET r == RewriteOne(w, f, i)
             e == [inst |-> i, kept |-> Verdict(w, f.blocked, i)]
         IN  /\ r \in States
             /\ r.blocked = StillBlocked(w, f.blocked, i)
             /\ r.log = Append(f.log, e) /\ e \in Entries
             /\ r.refused = IF Denied(w, i) THEN Append(f.refused, i.idx) ELSE f.refused
<1> DEFINE r == RewriteOne(w, f, i)
           v == Verdict(w, f.blocked, i)
           e == [inst |-> i, kept |-> v]
<1>0. i.op \in {"clipboard", "img", "blob", "end"} /\ i.idx \in Indices
  BY DEF Insts
<1>1. v \in BOOLEAN
  BY DEF Verdict
<1>2. e \in Entries
  BY <1>1 DEF Entries
<1>3. /\ f.blocked \in SUBSET Indices /\ f.log \in Seq(Entries) /\ f.refused \in Seq(Indices)
      /\ f = [blocked |-> f.blocked, log |-> f.log, refused |-> f.refused]
  BY DEF States
<1>4. CASE Denied(w, i)
  <2>1. v = FALSE
    BY <1>4 DEF Verdict
  <2>2. r = [blocked |-> f.blocked \cup {i.idx}, log |-> Append(f.log, e),
             refused |-> Append(f.refused, i.idx)]
    BY <1>4, <2>1 DEF RewriteOne, Denied, Refused
  <2>3. Append(f.log, e) \in Seq(Entries) /\ Append(f.refused, i.idx) \in Seq(Indices)
    BY <1>0, <1>2, <1>3, AppendProperties
  <2>4. QED
    BY <1>0, <1>2, <1>3, <1>4, <2>2, <2>3 DEF StillBlocked, States
<1>5. CASE ~Denied(w, i) /\ i.op \in {"blob", "end"} /\ i.idx \in f.blocked
  <2>1. v = FALSE
    BY <1>5 DEF Verdict
  <2>2. r = [f EXCEPT !.blocked = IF i.op = "end" THEN f.blocked \ {i.idx} ELSE f.blocked,
                      !.log = Append(f.log, e)]
    BY <1>5, <2>1 DEF RewriteOne, Denied
  <2>3. Append(f.log, e) \in Seq(Entries)
    BY <1>2, <1>3, AppendProperties
  <2>4. r = [blocked |-> IF i.op = "end" THEN f.blocked \ {i.idx} ELSE f.blocked,
             log |-> Append(f.log, e), refused |-> f.refused]
    BY <1>3, <2>2
  <2>5. QED
    BY <1>2, <1>3, <1>5, <2>3, <2>4 DEF StillBlocked, States
<1>6. CASE ~Denied(w, i) /\ ~(i.op \in {"blob", "end"} /\ i.idx \in f.blocked)
  <2>1. v = TRUE
    BY <1>6 DEF Verdict
  <2>2. r = [f EXCEPT !.log = Append(f.log, e)]
    BY <1>0, <1>6, <2>1 DEF RewriteOne, Denied
  <2>3. Append(f.log, e) \in Seq(Entries)
    BY <1>2, <1>3, AppendProperties
  <2>4. r = [blocked |-> f.blocked, log |-> Append(f.log, e), refused |-> f.refused]
    BY <1>3, <2>2
  <2>5. i.op = "end" => f.blocked \ {i.idx} = f.blocked
    BY <1>6
  <2>6. QED
    BY <1>2, <1>3, <1>6, <2>3, <2>4, <2>5 DEF StillBlocked, States
<1>7. QED
  BY <1>4, <1>5, <1>6

\* The function that Rewrite evaluates.
Loops(w, b, frame, F) ==
  F = [n \in 0..Len(frame) |->
         IF n = 0 THEN Fresh(b) ELSE RewriteOne(w, F[n - 1], frame[n])]

\* There is one.
LEMMA LoopExists ==
  ASSUME NEW w, NEW b, NEW frame \in Seq(Insts)
  PROVE  \E F : Loops(w, b, frame, F)
<1> DEFINE Step(g, n) == RewriteOne(w, g, frame[n])
           Upto(N, F) == F = [n \in 0..N |-> IF n = 0 THEN Fresh(b) ELSE Step(F[n - 1], n)]
           P == {N \in Nat : \E F : Upto(N, F)}
<1> HIDE DEF Step
<1>1. 0 \in P
  <2> DEFINE F == [n \in 0..0 |-> Fresh(b)]
  <2>1. Upto(0, F)
    OBVIOUS
  <2>2. QED
    BY <2>1
<1>2. \A N \in Nat : N \in P => N + 1 \in P
  <2> TAKE N \in Nat
  <2> HAVE N \in P
  <2>a. PICK F : Upto(N, F)
    OBVIOUS
  <2>b. N + 1 \in Nat
    OBVIOUS
  <2> HIDE DEF Upto
  <2> SUFFICES \E G : Upto(N + 1, G)
    BY <2>b
  <2> USE DEF Upto
  <2> DEFINE G == [n \in 0..(N + 1) |-> IF n = N + 1 THEN Step(F[N], N + 1) ELSE F[n]]
  <2>1. \A n \in 0..(N + 1) : G[n] = IF n = 0 THEN Fresh(b) ELSE Step(G[n - 1], n)
    <3> TAKE n \in 0..(N + 1)
    <3>1. CASE n = N + 1
      BY <3>1
    <3>2. CASE n # N + 1
      <4>1. n \in 0..N
        BY <3>2
      <4>2. F[n] = IF n = 0 THEN Fresh(b) ELSE Step(F[n - 1], n)
        BY <2>a, <4>1
      <4>3. G[n] = F[n] /\ (n # 0 => G[n - 1] = F[n - 1])
        BY <4>1
      <4>4. QED
        BY <4>2, <4>3
    <3>3. QED
      BY <3>1, <3>2
  <2>2. Upto(N + 1, G)
    <3> DEFINE H == [n \in 0..(N + 1) |-> IF n = 0 THEN Fresh(b) ELSE Step(G[n - 1], n)]
    <3> HIDE DEF G
    <3>1. G = [n \in 0..(N + 1) |-> G[n]]
      BY DEF G
    <3>2. G = H
      BY <2>1, <3>1
    <3>3. QED
      BY <3>2
  <2>3. QED
    BY <2>2
<1>3. Len(frame) \in Nat
  BY LenProperties
<1>4. Len(frame) \in P
  <2> HIDE DEF P
  <2>1. QED
    BY <1>1, <1>2, <1>3, NatSet
<1>5. PICK F : Upto(Len(frame), F)
  BY <1>4
<1>6. Loops(w, b, frame, F)
  BY <1>5 DEF Loops, Step
<1>7. QED
  BY <1>6

\* A turn on instruction i takes the state f to the state r.
LoopTurn(w, i, f, r) ==
  LET e == [inst |-> i, kept |-> Verdict(w, f.blocked, i)]
  IN  /\ i \in Insts /\ e \in Entries
      /\ r.blocked = StillBlocked(w, f.blocked, i)
      /\ r.log = Append(f.log, e)
      /\ r.refused = IF Denied(w, i) THEN Append(f.refused, i.idx) ELSE f.refused

\* What a turn makes of a state is a turn, and a state.
LEMMA TurnIs ==
  ASSUME NEW w \in BOOLEAN, NEW f \in States, NEW i \in Insts
  PROVE  RewriteOne(w, f, i) \in States /\ LoopTurn(w, i, f, RewriteOne(w, f, i))
  BY OneTurn DEF LoopTurn

\* The n-th turn: its verdict is the n-th entry, and the entries before stay.
LEMMA LoopAt ==
  ASSUME NEW w \in BOOLEAN, NEW b \in SUBSET Indices, NEW frame \in Seq(Insts),
         NEW F, Loops(w, b, frame, F)
  PROVE  /\ F[0] = Fresh(b)
         /\ \A n \in Nat : n <= Len(frame) => F[n] \in States
         /\ \A n \in Nat : n + 1 <= Len(frame) =>
              LoopTurn(w, frame[n + 1], F[n], F[n + 1])
<1>0. Len(frame) \in Nat
  BY LenProperties
<1>1. F[0] = Fresh(b) /\ Fresh(b) \in States
  <2>1. F[0] = Fresh(b)
    BY <1>0 DEF Loops
  <2>2. Fresh(b) \in States
    BY EmptySeq DEF Fresh, States
  <2>3. QED
    BY <2>1, <2>2
<1>2. ASSUME NEW n \in Nat, n + 1 <= Len(frame)
      PROVE  F[n + 1] = RewriteOne(w, F[n], frame[n + 1]) /\ frame[n + 1] \in Insts
  <2> DEFINE m == n + 1
  <2>1. m \in 0..Len(frame) /\ m \in 1..Len(frame) /\ m # 0 /\ m - 1 = n
    BY <1>0, <1>2
  <2> HIDE DEF m
  <2>2. F[m] = RewriteOne(w, F[m - 1], frame[m])
    BY <2>1 DEF Loops
  <2>3. frame[m] \in Insts
    BY <2>1, ElementOfSeq
  <2>4. QED
    BY <2>1, <2>2, <2>3 DEF m
<1> DEFINE P == {n \in Nat : n <= Len(frame) => F[n] \in States}
<1>3. 0 \in P
  BY <1>1
<1>4. \A n \in Nat : n \in P => n + 1 \in P
  <2> SUFFICES ASSUME NEW n \in Nat, n \in P, n + 1 <= Len(frame)
               PROVE  F[n + 1] \in States
    OBVIOUS
  <2>1. F[n] \in States
    BY <1>0
  <2>2. F[n + 1] = RewriteOne(w, F[n], frame[n + 1]) /\ frame[n + 1] \in Insts
    BY <1>2
  <2>3. RewriteOne(w, F[n], frame[n + 1]) \in States
    BY <2>1, <2>2, TurnIs
  <2>4. QED
    BY <2>2, <2>3
<1> HIDE DEF P
<1>5. \A n \in Nat : n \in P
  BY <1>3, <1>4, NatSet
<1>6. \A n \in Nat : n <= Len(frame) => F[n] \in States
  BY <1>5 DEF P
<1>7. ASSUME NEW n \in Nat, n + 1 <= Len(frame)
      PROVE  LoopTurn(w, frame[n + 1], F[n], F[n + 1])
  <2>1. F[n] \in States
    BY <1>0, <1>6, <1>7
  <2>2. F[n + 1] = RewriteOne(w, F[n], frame[n + 1]) /\ frame[n + 1] \in Insts
    BY <1>2, <1>7
  <2>3. LoopTurn(w, frame[n + 1], F[n], RewriteOne(w, F[n], frame[n + 1]))
    BY <2>1, <2>2, TurnIs
  <2>4. QED
    BY <2>2, <2>3
<1>8. QED
  BY <1>1, <1>6, <1>7

-----------------------------------------------------------------------------
(* What a turn makes of the verdicts so far.                               *)

\* Whether an instruction fits depends on those before it only.
LEMMA FitsSame ==
  ASSUME NEW s, NEW t, NEW n \in Nat, n # 0, \A k \in 1..n : t[k] = s[k], FitsAt(s, n)
  PROVE  FitsAt(t, n)
<1>1. t[n] = s[n]
  OBVIOUS
<1>2. \A k \in 1..(n - 1) : t[k] = s[k] /\ (Before(t, k, n) <=> Before(s, k, n))
  <2> TAKE k \in 1..(n - 1)
  <2>1. t[k] = s[k]
    OBVIOUS
  <2>2. \A m \in (k + 1)..(n - 1) : t[m] = s[m]
    OBVIOUS
  <2>3. QED
    BY <1>1, <2>1, <2>2 DEF Before
<1>3. QED
  BY <1>1, <1>2 DEF FitsAt

\* What an entry is made of.
LEMMA EntryType ==
  ASSUME NEW e \in Entries
  PROVE  /\ e.inst \in Insts /\ e.kept \in BOOLEAN /\ e.inst.idx \in Indices
         /\ e.inst.op \in {"clipboard", "img", "blob", "end"}
  BY DEF Entries, Insts

\* The last entry on an index, before and after one entry more.
LEMMA LastBack ==
  ASSUME NEW L, NEW M, NEW i, Len(L) \in Nat, Len(M) = Len(L) + 1, M[Len(L) + 1].inst = i,
         \A k \in 1..Len(L) : M[k] = L[k], NEW k \in 1..Len(L)
  PROVE  LastOf(M, k) <=> LastOf(L, k) /\ L[k].inst.idx # i.idx
<1>1. (k + 1)..Len(M) = ((k + 1)..Len(L)) \cup {Len(L) + 1}
  OBVIOUS
<1>2. \A m \in (k + 1)..Len(L) : M[m] = L[m]
  OBVIOUS
<1>3. M[k] = L[k]
  OBVIOUS
<1>4. QED
  BY <1>1, <1>2, <1>3 DEF LastOf

\* One turn keeps track of what is blocked, and judges rightly.
LEMMA TurnKeeps ==
  ASSUME NEW w \in BOOLEAN, NEW b \in SUBSET Indices, NEW L \in Seq(Entries),
         NEW i \in Insts, Tracked(b, L), Upright(L),
         NEW e \in Entries, e.inst = i, e.kept = Verdict(w, b, i),
         NEW M, M \in Seq(Entries), Len(M) = Len(L) + 1, M[Len(L) + 1] = e,
         \A k \in 1..Len(L) : M[k] = L[k], FitsAt(InstsOf(M), Len(L) + 1)
  PROVE  Tracked(StillBlocked(w, b, i), M) /\ Upright(M)
<1> DEFINE n == Len(L) + 1
           c == StillBlocked(w, b, i)
           s == InstsOf(M)
<1>1. e.inst = i /\ e.kept = Verdict(w, b, i)
  OBVIOUS
<1>2. /\ M \in Seq(Entries) /\ Len(M) = n /\ M[n] = e
      /\ \A k \in 1..Len(L) : M[k] = L[k]
      /\ LastOf(M, n)
      /\ \A k \in 1..Len(L) : LastOf(M, k) <=> LastOf(L, k) /\ L[k].inst.idx # i.idx
  <2>1. Len(L) \in Nat
    BY LenProperties
  <2>2. /\ M \in Seq(Entries) /\ Len(M) = n /\ M[n] = e
        /\ \A k \in 1..Len(L) : M[k] = L[k]
        /\ LastOf(M, n)
    BY <2>1 DEF LastOf
  <2>3. M[Len(L) + 1].inst = i
    BY <2>2, <1>1
  <2>4. ASSUME NEW k \in 1..Len(L)
        PROVE  LastOf(M, k) <=> LastOf(L, k) /\ L[k].inst.idx # i.idx
    <3> HIDE DEF s, c
    <3>1. QED
      BY <2>2, <2>1, <2>3, LastBack
  <2>5. QED
    BY <2>2, <2>4
<1>3. Len(L) \in Nat /\ n \in Nat /\ n # 0 /\ n - 1 = Len(L)
  BY LenProperties
<1>4. i.op \in {"clipboard", "img", "blob", "end"} /\ i.idx \in Indices
  BY DEF Insts
<1>5. \A k \in 1..n : s[k] = M[k].inst
  BY <1>2, <1>3, LenProperties DEF InstsOf
<1>6. \A k \in 1..Len(L) : Before(s, k, n) <=> LastOf(L, k) /\ L[k].inst.idx = i.idx
  <2> TAKE k \in 1..Len(L)
  <2>1. s[n] = i /\ s[k] = L[k].inst
    BY <1>2, <1>3, <1>1, <1>5
  <2>2. \A m \in (k + 1)..Len(L) : s[m] = L[m].inst
    BY <1>2, <1>3, <1>5
  <2>3. (k + 1)..(n - 1) = (k + 1)..Len(L)
    BY <1>3
  <2>4. Before(s, k, n) <=> /\ s[k].idx = s[n].idx
                            /\ \A m \in (k + 1)..(n - 1) : s[m].idx # s[n].idx
    BY DEF Before
  <2>5. Before(s, k, n) <=> /\ L[k].inst.idx = i.idx
                            /\ \A m \in (k + 1)..Len(L) : L[m].inst.idx # i.idx
    BY <2>1, <2>2, <2>3, <2>4
  <2>6. QED
    BY <2>5 DEF LastOf
<1>7. /\ i.op \in {"clipboard", "img"} =>
           \A k \in 1..Len(L) : LastOf(L, k) /\ L[k].inst.idx = i.idx => L[k].inst.op = "end"
      /\ i.op \in {"blob", "end"} =>
           \E k \in 1..Len(L) : LastOf(L, k) /\ L[k].inst.idx = i.idx /\ L[k].inst.op # "end"
  <2>1. s[n] = i /\ \A k \in 1..Len(L) : s[k] = L[k].inst
    BY <1>2, <1>3, <1>1, <1>5
  <2>2. 1..(n - 1) = 1..Len(L)
    BY <1>3
  <2>3. FitsAt(s, n)
    OBVIOUS
  <2>4. /\ s[n].op \in {"clipboard", "img"} =>
             \A k \in 1..(n - 1) : Before(s, k, n) => s[k].op = "end"
        /\ s[n].op \in {"blob", "end"} =>
             \E k \in 1..(n - 1) : Before(s, k, n) /\ s[k].op # "end"
    BY <2>3 DEF FitsAt
  <2> HIDE DEF s, n
  <2>5. /\ i.op \in {"clipboard", "img"} =>
             \A k \in 1..Len(L) : Before(s, k, n) => s[k].op = "end"
        /\ i.op \in {"blob", "end"} =>
             \E k \in 1..Len(L) : Before(s, k, n) /\ s[k].op # "end"
    BY <2>1, <2>2, <2>4
  <2>6. QED
    BY <1>6, <2>1, <2>5
<1> HIDE DEF s, n
<1>8. i.idx \in c <=> ~e.kept /\ i.op # "end"
  <2>1. CASE Denied(w, i)
    BY <1>1, <2>1 DEF Verdict, StillBlocked, Denied
  <2>2. CASE ~Denied(w, i) /\ i.op = "end"
    BY <2>2 DEF StillBlocked
  <2>3. CASE ~Denied(w, i) /\ i.op = "blob"
    BY <1>1, <2>3 DEF Verdict, StillBlocked
  <2>4. CASE ~Denied(w, i) /\ i.op \in {"clipboard", "img"}
    <3>1. i.idx \notin b
      BY <1>7, <2>4 DEF Tracked
    <3>2. e.kept
      BY <1>1, <2>4 DEF Verdict
    <3>3. QED
      BY <2>4, <3>1, <3>2 DEF StillBlocked
  <2>5. QED
    BY <1>4, <2>1, <2>2, <2>3, <2>4
<1>9. \A x \in Indices : x # i.idx => (x \in c <=> x \in b)
  BY DEF StillBlocked
<1>10. Tracked(c, M)
  <2>1. ASSUME NEW k \in 1..Len(M), LastOf(M, k)
        PROVE  M[k].inst.idx \in c <=> ~M[k].kept /\ M[k].inst.op # "end"
    <3>1. CASE k = n
      BY <1>2, <1>1, <1>8, <3>1
    <3>2. CASE k # n
      <4>1. k \in 1..Len(L)
        BY <1>2, <1>3, <3>2 DEF n
      <4>2. LastOf(L, k) /\ L[k].inst.idx # i.idx /\ M[k] = L[k]
        BY <1>2, <2>1, <4>1
      <4>3. L[k].inst.idx \in Indices
        BY <4>1, ElementOfSeq, EntryType
      <4>4. QED
        BY <1>9, <4>1, <4>2, <4>3 DEF Tracked
    <3>3. QED
      BY <3>1, <3>2
  <2>2. ASSUME NEW x \in c
        PROVE  \E k \in 1..Len(M) : M[k].inst.idx = x /\ LastOf(M, k)
    <3>1. CASE x = i.idx
      <4>1. n \in 1..Len(M)
        BY <1>2, <1>3
      <4>2. QED
        BY <1>2, <1>1, <3>1, <4>1
    <3>2. CASE x # i.idx
      <4>1. x \in b
        BY <2>2, <3>2 DEF StillBlocked
      <4>2. PICK k \in 1..Len(L) : L[k].inst.idx = x /\ LastOf(L, k)
        BY <4>1 DEF Tracked
      <4>3. k \in 1..Len(M) /\ M[k] = L[k] /\ LastOf(M, k)
        BY <1>2, <1>3, <3>2, <4>2 DEF n
      <4>4. QED
        BY <4>2, <4>3
    <3>3. QED
      BY <3>1, <3>2
  <2>3. QED
    BY <2>1, <2>2 DEF Tracked
<1>11. Upright(M)
  <2>1. ASSUME NEW k \in 1..Len(L)
        PROVE  /\ M[k].inst.op = "img" => M[k].kept
               /\ M[k].inst.op \in {"blob", "end"} =>
                    \A j \in 1..(k - 1) : Opening(M, j, k) => M[k].kept = M[j].kept
    <3>1. M[k] = L[k]
      BY <1>2
    <3>2. ASSUME NEW j \in 1..(k - 1) PROVE M[j] = L[j] /\ (Opening(M, j, k) => Opening(L, j, k))
      <4>1. M[j] = L[j] /\ \A m \in (j + 1)..(k - 1) : M[m] = L[m]
        BY <1>2, <1>3, <3>2
      <4>2. QED
        BY <3>1, <4>1 DEF Opening
    <3>3. QED
      BY <3>1, <3>2 DEF Upright
  <2>2. i.op = "img" => e.kept
    BY <1>1 DEF Verdict, Denied
  <2>3. ASSUME i.op \in {"blob", "end"}, NEW j \in 1..Len(L), Opening(M, j, n)
        PROVE  e.kept = L[j].kept
    <3>1. PICK p \in 1..Len(L) : LastOf(L, p) /\ L[p].inst.idx = i.idx /\ L[p].inst.op # "end"
      BY <1>7, <2>3
    <3>2. e.kept = L[p].kept
      <4>1. i.idx \in b <=> ~L[p].kept
        BY <3>1 DEF Tracked
      <4>2. e.kept <=> i.idx \notin b
        BY <1>1, <2>3 DEF Verdict, Denied
      <4>3. e.kept \in BOOLEAN /\ L[p].kept \in BOOLEAN
        BY ElementOfSeq, EntryType
      <4>4. QED
        BY <4>1, <4>2, <4>3
    <3>3. /\ L[j].inst.op \in {"clipboard", "img"} /\ L[j].inst.idx = i.idx
          /\ \A m \in (j + 1)..Len(L) : ~(L[m].inst.op \in {"clipboard", "img"}
                                          /\ L[m].inst.idx = i.idx)
      <4>1. \A m \in (j + 1)..(n - 1) : M[m] = L[m]
        BY <1>2, <1>3
      <4>2. M[j] = L[j] /\ M[n].inst = i /\ n - 1 = Len(L)
        BY <1>2, <1>3, <1>1
      <4>3. QED
        BY <2>3, <4>1, <4>2 DEF Opening
    <3>4. j <= p
      BY <1>3, <3>1, <3>3 DEF LastOf
    <3>5. CASE j = p
      BY <3>2, <3>5
    <3>6. CASE j # p
      <4>1. j \in 1..(p - 1) /\ p \in (j + 1)..Len(L)
        BY <1>3, <3>4, <3>6
      <4>2. L[p].inst.op \in {"clipboard", "img", "blob", "end"}
        BY ElementOfSeq, EntryType
      <4>3. L[p].inst.op = "blob"
        BY <3>1, <3>3, <4>1, <4>2
      <4>4. \A m \in (j + 1)..(p - 1) : m \in (j + 1)..Len(L)
        BY <1>3, <4>1
      <4>5. Opening(L, j, p)
        BY <3>1, <3>3, <4>1, <4>4 DEF Opening
      <4>6. L[p].kept = L[j].kept
        BY <4>1, <4>3, <4>5 DEF Upright
      <4>7. QED
        BY <3>2, <4>6
    <3>7. QED
      BY <3>5, <3>6
  <2>4. \A j \in 1..(n - 1) : j \in 1..Len(L) /\ M[j] = L[j]
    BY <1>2, <1>3
  <2>5. ASSUME NEW k \in 1..Len(M)
        PROVE  k \in 1..Len(L) \/ k = n
    BY <1>2, <1>3 DEF n
  <2>6. QED
    BY <1>2, <1>1, <2>1, <2>2, <2>3, <2>4, <2>5 DEF Upright
<1>12. QED
  BY <1>10, <1>11


\* The verdicts M are on the first instructions of s.
Follows(M, s) == \A k \in 1..Len(M) : M[k].inst = s[k]

\* One turn on the next instruction of s.
LEMMA TurnFollows ==
  ASSUME NEW w \in BOOLEAN, NEW b \in SUBSET Indices, NEW M \in Seq(Entries),
         NEW i \in Insts, Tracked(b, M), Upright(M),
         NEW e \in Entries, e.inst = i, e.kept = Verdict(w, b, i),
         NEW s, Follows(M, s), s[Len(M) + 1] = i, FitsAt(s, Len(M) + 1),
         NEW N \in Seq(Entries), Len(N) = Len(M) + 1, N[Len(M) + 1] = e,
         \A k \in 1..Len(M) : N[k] = M[k]
  PROVE  Tracked(StillBlocked(w, b, i), N) /\ Upright(N) /\ Follows(N, s)
<1>1. Len(M) \in Nat /\ Len(M) + 1 \in Nat /\ Len(M) + 1 # 0
  BY LenProperties
<1>2. \A k \in 1..(Len(M) + 1) : N[k].inst = s[k]
  BY <1>1 DEF Follows
<1>3. \A k \in 1..(Len(M) + 1) : InstsOf(N)[k] = s[k]
  BY <1>2, LenProperties DEF InstsOf
<1>4. FitsAt(InstsOf(N), Len(M) + 1)
  BY <1>1, <1>3, FitsSame
<1>5. Tracked(StillBlocked(w, b, i), N) /\ Upright(N)
  BY <1>4, TurnKeeps
<1>6. QED
  BY <1>2, <1>5 DEF Follows

\* What the loop makes of the n first instructions of the frame.
Kept(w, L, s, M, n, b) ==
  /\ M \in Seq(Entries) /\ Len(M) = Len(L) + n
  /\ \A k \in 1..Len(L) : M[k] = L[k]
  /\ Follows(M, s) /\ Tracked(b, M) /\ Upright(M)
  /\ \A k \in (Len(L) + 1)..(Len(L) + n) : s[k].op = "clipboard" => M[k].kept = w

\* One turn more.
LEMMA KeptStep ==
  ASSUME NEW w \in BOOLEAN, NEW L \in Seq(Entries), NEW s, NEW M, NEW n \in Nat,
         NEW b \in SUBSET Indices, Kept(w, L, s, M, n, b),
         NEW i \in Insts, s[Len(M) + 1] = i, FitsAt(s, Len(M) + 1),
         NEW e \in Entries, e.inst = i, e.kept = Verdict(w, b, i),
         NEW N \in Seq(Entries), Len(N) = Len(M) + 1, N[Len(M) + 1] = e,
         \A k \in 1..Len(M) : N[k] = M[k]
  PROVE  Kept(w, L, s, N, n + 1, StillBlocked(w, b, i))
<1>1. Len(L) \in Nat /\ M \in Seq(Entries) /\ Len(M) = Len(L) + n
  BY LenProperties DEF Kept
<1>2. /\ N \in Seq(Entries) /\ Len(N) = Len(M) + 1 /\ N[Len(M) + 1] = e
      /\ \A k \in 1..Len(M) : N[k] = M[k]
  OBVIOUS
<1>3. s[Len(M) + 1] = i /\ FitsAt(s, Len(M) + 1)
  OBVIOUS
<1>4. Tracked(StillBlocked(w, b, i), N) /\ Upright(N) /\ Follows(N, s)
  <2>1. M \in Seq(Entries) /\ Tracked(b, M) /\ Upright(M) /\ Follows(M, s)
    BY DEF Kept
  <2>2. QED
    BY <2>1, TurnFollows
<1>5. Len(N) = Len(L) + (n + 1)
  BY <1>1, <1>2
<1>6. \A k \in 1..Len(L) : N[k] = L[k]
  BY <1>1, <1>2 DEF Kept
<1>7. ASSUME NEW k \in (Len(L) + 1)..(Len(L) + (n + 1)), s[k].op = "clipboard"
      PROVE  N[k].kept = w
  <2>1. CASE k = Len(M) + 1
    <3>1. i.op = "clipboard" /\ N[k].kept = Verdict(w, b, i)
      BY <1>2, <1>3, <1>7, <2>1
    <3>2. Verdict(w, b, i) = w
      BY <3>1 DEF Verdict, Denied
    <3>3. QED
      BY <3>1, <3>2
  <2>2. CASE k # Len(M) + 1
    <3>1. k \in (Len(L) + 1)..(Len(L) + n) /\ N[k] = M[k]
      BY <1>1, <1>2, <2>2
    <3>2. QED
      BY <1>7, <3>1 DEF Kept
  <2>3. QED
    BY <2>1, <2>2
<1>8. QED
  BY <1>2, <1>4, <1>5, <1>6, <1>7 DEF Kept

\* The whole loop.
LEMMA LoopKeeps ==
  ASSUME NEW w \in BOOLEAN, NEW b \in SUBSET Indices, NEW frame \in Seq(Insts),
         NEW F, Loops(w, b, frame, F),
         NEW L \in Seq(Entries), Tracked(b, L), Upright(L),
         NEW s, Follows(L, s), \A n \in 1..Len(frame) : s[Len(L) + n] = frame[n],
         \A n \in 1..(Len(L) + Len(frame)) : FitsAt(s, n)
  PROVE  Kept(w, L, s, L \o F[Len(frame)].log, Len(frame), F[Len(frame)].blocked)
<1> DEFINE P == {n \in Nat : n <= Len(frame) => Kept(w, L, s, L \o F[n].log, n, F[n].blocked)}
<1>1. Len(frame) \in Nat /\ Len(L) \in Nat
  BY LenProperties
<1>2. /\ F[0] = Fresh(b)
      /\ \A n \in Nat : n <= Len(frame) => F[n] \in States
      /\ \A n \in Nat : n + 1 <= Len(frame) =>
           LoopTurn(w, frame[n + 1], F[n], F[n + 1])
  BY LoopAt
<1>3. 0 \in P
  <2>1. F[0].log = <<>> /\ F[0].blocked = b
    BY <1>2 DEF Fresh
  <2>2. L \o F[0].log = L
    BY <2>1, ConcatEmptySeq
  <2>3. Kept(w, L, s, L, 0, b)
    BY <1>1 DEF Kept
  <2>4. QED
    BY <2>1, <2>2, <2>3
<1>4. ASSUME NEW n \in Nat, n \in P PROVE n + 1 \in P
  <2>1. n + 1 \in Nat
    OBVIOUS
  <2>2. CASE ~(n + 1 <= Len(frame))
    BY <2>1, <2>2
  <2>3. CASE n + 1 <= Len(frame)
    <3> DEFINE i == frame[n + 1]
               c == F[n].blocked
               e == [inst |-> i, kept |-> Verdict(w, c, i)]
               M == L \o F[n].log
               N == L \o F[n + 1].log
    <3>1. n <= Len(frame) /\ n + 1 \in 1..Len(frame)
      BY <1>1, <2>3
    <3>2. Kept(w, L, s, M, n, c)
      BY <1>4, <3>1
    <3>3. LoopTurn(w, i, F[n], F[n + 1])
      BY <1>2, <2>3
    <3>4. F[n] \in States /\ i \in Insts
      BY <1>2, <3>3, <3>1 DEF LoopTurn
    <3>5. c \in SUBSET Indices /\ F[n].log \in Seq(Entries)
      BY <3>4 DEF States
    <3>6. e \in Entries
      BY <3>3 DEF LoopTurn
    <3>7. F[n + 1].blocked = StillBlocked(w, c, i) /\ F[n + 1].log = Append(F[n].log, e)
      BY <3>3 DEF LoopTurn
    <3>8. M \in Seq(Entries) /\ N = Append(M, e)
      <4> DEFINE g == F[n].log
      <4> HIDE DEF e, g
      <4>1. g \in Seq(Entries)
        BY <3>5 DEF g
      <4>2. L \o Append(g, e) = Append(L \o g, e) /\ L \o g \in Seq(Entries)
        BY <3>6, <4>1, ConcatAppend, ConcatProperties
      <4>3. QED
        BY <3>7, <4>2 DEF g
    <3>9. s[Len(M) + 1] = i /\ FitsAt(s, Len(M) + 1)
      <4>0. Len(M) = Len(L) + n
        BY <3>2 DEF Kept
      <4>1. Len(L) + (n + 1) \in 1..(Len(L) + Len(frame)) /\ Len(L) + (n + 1) = Len(M) + 1
        BY <1>1, <3>1, <4>0
      <4>2. s[Len(L) + (n + 1)] = i
        BY <3>1
      <4>3. QED
        BY <4>1, <4>2
    <3>10. e.inst = i /\ e.kept = Verdict(w, c, i)
      OBVIOUS
    <3> HIDE DEF i, c, e, M, N
    <3>11. /\ N \in Seq(Entries) /\ Len(N) = Len(M) + 1 /\ N[Len(M) + 1] = e
           /\ \A k \in 1..Len(M) : N[k] = M[k]
      BY <3>6, <3>8, AppendProperties
    <3>12. Kept(w, L, s, N, n + 1, StillBlocked(w, c, i))
      BY <3>2, <3>4, <3>5, <3>6, <3>9, <3>10, <3>11, KeptStep
    <3>13. QED
      BY <2>1, <3>7, <3>12 DEF N
  <2>4. QED
    BY <2>2, <2>3
<1>5. \A n \in Nat : n \in P
  <2> HIDE DEF P
  <2>1. QED
    BY <1>3, <1>4, NatSet
<1>6. Len(frame) \in P /\ Len(frame) <= Len(frame)
  BY <1>1, <1>5
<1>7. QED
  BY <1>6

\* The fast path takes what the loop would.
LEMMA FastIsLoop ==
  ASSUME NEW w \in BOOLEAN, NEW frame \in Seq(Insts), NEW F, Loops(w, {}, frame, F),
         w \/ \A n \in 1..Len(frame) : frame[n].op # "clipboard"
  PROVE  F[Len(frame)] = [blocked |-> {}, refused |-> <<>>,
                          log |-> [n \in DOMAIN frame |-> [inst |-> frame[n], kept |-> TRUE]]]
<1> DEFINE Passed(g, n) ==
             /\ g.blocked = {} /\ g.refused = <<>> /\ Len(g.log) = n
             /\ \A k \in 1..n : g.log[k] = [inst |-> frame[k], kept |-> TRUE]
           P == {n \in Nat : n <= Len(frame) => Passed(F[n], n)}
<1>1. Len(frame) \in Nat /\ DOMAIN frame = 1..Len(frame)
  BY LenProperties
<1>2. /\ F[0] = Fresh({})
      /\ \A n \in Nat : n <= Len(frame) => F[n] \in States
      /\ \A n \in Nat : n + 1 <= Len(frame) => LoopTurn(w, frame[n + 1], F[n], F[n + 1])
  <2>1. {} \in SUBSET Indices
    OBVIOUS
  <2>2. QED
    BY <2>1, LoopAt
<1>3. 0 \in P
  BY <1>2, EmptySeq DEF Fresh
<1>4. ASSUME NEW n \in Nat, n \in P PROVE n + 1 \in P
  <2>1. n + 1 \in Nat
    OBVIOUS
  <2>2. CASE ~(n + 1 <= Len(frame))
    BY <2>1, <2>2
  <2>3. CASE n + 1 <= Len(frame)
    <3> DEFINE i == frame[n + 1]
               f == F[n]
               r == F[n + 1]
               e == [inst |-> i, kept |-> TRUE]
    <3>1. n <= Len(frame) /\ n + 1 \in 1..Len(frame)
      BY <1>1, <2>3
    <3>2. Passed(f, n) /\ f \in States /\ LoopTurn(w, i, f, r)
      BY <1>2, <1>4, <2>3, <3>1
    <3>3. ~Denied(w, i) /\ Verdict(w, f.blocked, i) = TRUE
      BY <3>1, <3>2 DEF Denied, Verdict
    <3>4. r.blocked = {} /\ r.refused = <<>>
      BY <3>2, <3>3 DEF LoopTurn, StillBlocked
    <3>5. r.log = Append(f.log, e) /\ e \in Entries
      BY <3>2, <3>3 DEF LoopTurn
    <3>6. f.log \in Seq(Entries) /\ Len(f.log) = n
      BY <3>2 DEF States
    <3> HIDE DEF e, i
    <3>7. /\ Len(r.log) = n + 1 /\ r.log[n + 1] = e
          /\ \A k \in 1..n : r.log[k] = f.log[k]
      BY <3>5, <3>6, AppendProperties
    <3>8. \A k \in 1..(n + 1) : r.log[k] = [inst |-> frame[k], kept |-> TRUE]
      <4> TAKE k \in 1..(n + 1)
      <4>1. CASE k = n + 1
        BY <3>7, <4>1 DEF e, i
      <4>2. CASE k # n + 1
        <5>1. k \in 1..n
          BY <4>2
        <5>2. QED
          BY <3>2, <3>7, <5>1
      <4>3. QED
        BY <4>1, <4>2
    <3>9. Passed(r, n + 1)
      BY <3>4, <3>7, <3>8
    <3>10. QED
      BY <2>1, <3>9
  <2>4. QED
    BY <2>2, <2>3
<1>5. \A n \in Nat : n \in P
  <2> HIDE DEF P
  <2>1. QED
    BY <1>3, <1>4, NatSet
<1>6. Len(frame) \in P /\ Len(frame) <= Len(frame)
  BY <1>1, <1>5
<1> DEFINE g == F[Len(frame)]
           all == [n \in DOMAIN frame |-> [inst |-> frame[n], kept |-> TRUE]]
<1>7. Passed(g, Len(frame)) /\ g \in States
  BY <1>1, <1>2, <1>6
<1>8. g.log = all
  <2>1. g.log \in Seq(Entries)
    BY <1>7 DEF States
  <2>2. DOMAIN g.log = 1..Len(frame) /\ g.log = [k \in DOMAIN g.log |-> g.log[k]]
    BY <1>7, <2>1, LenProperties
  <2>3. QED
    BY <1>1, <1>7, <2>2
<1>9. QED
  <2> HIDE DEF all, g
  <2>1. g = [blocked |-> {}, refused |-> <<>>, log |-> all]
    BY <1>7, <1>8 DEF States
  <2>2. QED
    BY <2>1 DEF all, g

\* The last turn's state.
LEMMA RewriteIs ==
  ASSUME NEW d, NEW frame \in Seq(Insts)
  PROVE  \E F : Loops(want[d], blocked[d], frame, F) /\ Rewrite(d, frame) = F[Len(frame)]
<1> DEFINE F == CHOOSE F : Loops(want[d], blocked[d], frame, F)
<1>1. Loops(want[d], blocked[d], frame, F)
  BY LoopExists
<1>2. Rewrite(d, frame) = F[Len(frame)]
  BY DEF Rewrite, Loops, Fresh
<1>3. QED
  BY <1>1, <1>2

\* What the filter makes of a frame is what the loop makes of it.
LEMMA FilterLoops ==
  ASSUME NEW d \in Dirs, NEW frame \in Seq(Insts), want[d] \in BOOLEAN, blocked[d] \in SUBSET Indices
  PROVE  \E F : /\ Loops(want[d], blocked[d], frame, F)
                /\ (IF FastPath(d, frame) THEN PassAll(d, frame) ELSE Rewrite(d, frame)) = F[Len(frame)]
<1>1. PICK F : Loops(want[d], blocked[d], frame, F) /\ Rewrite(d, frame) = F[Len(frame)]
  BY RewriteIs
<1>2. ASSUME FastPath(d, frame) PROVE PassAll(d, frame) = F[Len(frame)]
  <2>1. blocked[d] = {} /\ (want[d] \/ \A n \in 1..Len(frame) : frame[n].op # "clipboard")
    BY <1>2, LenProperties DEF FastPath
  <2>2. Loops(want[d], {}, frame, F)
    BY <1>1, <2>1
  <2>3. F[Len(frame)] = [blocked |-> {}, refused |-> <<>>,
                         log |-> [n \in DOMAIN frame |-> [inst |-> frame[n], kept |-> TRUE]]]
    BY <2>1, <2>2, FastIsLoop
  <2>4. QED
    BY <2>1, <2>3 DEF PassAll
<1>3. QED
  BY <1>1, <1>2

-----------------------------------------------------------------------------
(* The filter's step.                                                      *)

\* The walk of a frame judges it as the loop does, and touches the other
\* direction nowhere.
LEMMA FilterStep ==
  ASSUME Shape, NEW d \in Dirs, NEW frame \in Seq(Insts), Filter(d, frame),
         Tracked(blocked[d], log[d]), Upright(log[d]),
         NEW s, Follows(log[d], s), \A n \in 1..Len(frame) : s[Len(log[d]) + n] = frame[n],
         \A n \in 1..(Len(log[d]) + Len(frame)) : FitsAt(s, n)
  PROVE  /\ Kept(want[d], log[d], s, log'[d], Len(frame), blocked'[d])
         /\ log' \in [Dirs -> Seq(Entries)] /\ blocked' \in [Dirs -> SUBSET Indices]
         /\ \A c \in Dirs : c # d => log'[c] = log[c] /\ blocked'[c] = blocked[c]
<1> DEFINE f == IF FastPath(d, frame) THEN PassAll(d, frame) ELSE Rewrite(d, frame)
<1>1. want[d] \in BOOLEAN /\ blocked[d] \in SUBSET Indices /\ log[d] \in Seq(Entries)
  BY DEF Shape
<1>2. PICK F : Loops(want[d], blocked[d], frame, F) /\ f = F[Len(frame)]
  BY <1>1, FilterLoops
<1>3. /\ blocked' = [blocked EXCEPT ![d] = f.blocked]
      /\ log' = [log EXCEPT ![d] = log[d] \o f.log]
  BY DEF Filter
<1> HIDE DEF f
<1>4. Len(frame) \in Nat /\ f \in States
  <2>1. Len(frame) \in Nat
    BY LenProperties
  <2>2. \A n \in Nat : n <= Len(frame) => F[n] \in States
    BY <1>1, <1>2, LoopAt
  <2>3. F[Len(frame)] \in States
    BY <2>1, <2>2
  <2>4. QED
    BY <1>2, <2>1, <2>3
<1>5. f.blocked \in SUBSET Indices /\ f.log \in Seq(Entries)
  BY <1>4 DEF States
<1>6. log[d] \o f.log \in Seq(Entries)
  BY <1>1, <1>5, ConcatProperties
<1>7. log'[d] = log[d] \o f.log /\ blocked'[d] = f.blocked
  BY <1>3 DEF Shape
<1>8. Kept(want[d], log[d], s, log[d] \o f.log, Len(frame), f.blocked)
  <2>1. Kept(want[d], log[d], s, log[d] \o F[Len(frame)].log, Len(frame), F[Len(frame)].blocked)
    BY <1>1, <1>2, LoopKeeps
  <2>2. QED
    BY <1>2, <2>1
<1>9. log' \in [Dirs -> Seq(Entries)] /\ blocked' \in [Dirs -> SUBSET Indices]
  BY <1>3, <1>5, <1>6 DEF Shape
<1>10. \A c \in Dirs : c # d => log'[c] = log[c] /\ blocked'[c] = blocked[c]
  BY <1>3 DEF Shape
<1>11. QED
  BY <1>7, <1>8, <1>9, <1>10

\* A message of the browser is judged by itself.
LEMMA PasteStep ==
  ASSUME Shape, NEW i \in Insts, Filter("paste", <<i>>)
  PROVE  LET e == [inst |-> i, kept |-> Verdict(want["paste"], blocked["paste"], i)]
         IN  /\ e \in Entries
             /\ log'["paste"] = Append(log["paste"], e)
             /\ reply' = IF Denied(want["paste"], i) THEN <<i.idx>> ELSE <<>>
<1> DEFINE d == "paste"
           w == want[d]
           b == blocked[d]
           e == [inst |-> i, kept |-> Verdict(w, b, i)]
           f == IF FastPath(d, <<i>>) THEN PassAll(d, <<i>>) ELSE Rewrite(d, <<i>>)
<1>1. w \in BOOLEAN /\ b \in SUBSET Indices /\ log[d] \in Seq(Entries) /\ d \in Dirs
  BY DEF Shape, Dirs
<1>2. <<i>> \in Seq(Insts) /\ Len(<<i>>) = 1 /\ <<i>>[1] = i
  OBVIOUS
<1>3. /\ log' = [log EXCEPT ![d] = log[d] \o f.log]
      /\ reply' = f.refused
  BY DEF Filter
<1> HIDE DEF d, w, b, f
<1>4. PICK F : Loops(w, b, <<i>>, F) /\ f = F[1]
  BY <1>1, <1>2, FilterLoops DEF f, w, b
<1>5. F[0] = Fresh(b) /\ LoopTurn(w, i, F[0], F[1])
  <2>1. /\ F[0] = Fresh(b)
        /\ \A n \in Nat : n + 1 <= Len(<<i>>) => LoopTurn(w, <<i>>[n + 1], F[n], F[n + 1])
    BY <1>1, <1>2, <1>4, LoopAt
  <2>2. 0 + 1 <= Len(<<i>>) /\ 0 \in Nat /\ 0 + 1 = 1
    BY <1>2
  <2>3. LoopTurn(w, <<i>>[0 + 1], F[0], F[0 + 1])
    BY <2>1, <2>2
  <2>4. QED
    BY <1>2, <2>1, <2>2, <2>3
<1>6. F[0].blocked = b /\ F[0].log = <<>> /\ F[0].refused = <<>>
  BY <1>5 DEF Fresh
<1>7. e \in Entries /\ f.log = <<e>> /\ f.refused = IF Denied(w, i) THEN <<i.idx>> ELSE <<>>
  BY <1>4, <1>5, <1>6 DEF LoopTurn
<1> HIDE DEF e
<1>8. log'[d] = Append(log[d], e)
  <2>1. log'[d] = log[d] \o <<e>>
    BY <1>1, <1>3, <1>7 DEF Shape
  <2>2. QED
    BY <1>1, <1>7, <2>1, AppendIsConcat
<1>9. QED
  BY <1>3, <1>7, <1>8 DEF d, w, b, e

-----------------------------------------------------------------------------
(* The Framer.                                                             *)

Lasts == [inst : Insts, kind : {"last"}]

\* The instructions that end in s.
Done(s) == InstsOf(Those(s, Lasts))

\* Projecting a sequence to its instructions.
LEMMA InstsType ==
  ASSUME NEW E, \A e \in E : e.inst \in Insts, NEW a \in Seq(E)
  PROVE  /\ InstsOf(a) \in Seq(Insts) /\ Len(InstsOf(a)) = Len(a)
         /\ \A k \in 1..Len(a) : InstsOf(a)[k] = a[k].inst
<1>1. Len(a) \in Nat /\ DOMAIN a = 1..Len(a) /\ \A k \in 1..Len(a) : a[k] \in E
  BY LenProperties, ElementOfSeq
<1>2. InstsOf(a) = [k \in 1..Len(a) |-> a[k].inst]
  BY <1>1 DEF InstsOf
<1>3. InstsOf(a) \in [1..Len(a) -> Insts]
  BY <1>1, <1>2
<1>4. QED
  BY <1>1, <1>2, <1>3

\* The instructions of two sequences, one after the other.
LEMMA InstsConcat ==
  ASSUME NEW E, \A e \in E : e.inst \in Insts, NEW a \in Seq(E), NEW b \in Seq(E)
  PROVE  InstsOf(a \o b) = InstsOf(a) \o InstsOf(b)
<1>1. /\ a \o b \in Seq(E) /\ Len(a \o b) = Len(a) + Len(b) /\ Len(a) \in Nat /\ Len(b) \in Nat
  BY ConcatProperties, LenProperties
<1>2. /\ InstsOf(a) \in Seq(Insts) /\ Len(InstsOf(a)) = Len(a)
      /\ \A k \in 1..Len(a) : InstsOf(a)[k] = a[k].inst
  BY InstsType
<1>3. /\ InstsOf(b) \in Seq(Insts) /\ Len(InstsOf(b)) = Len(b)
      /\ \A k \in 1..Len(b) : InstsOf(b)[k] = b[k].inst
  BY InstsType
<1>4. /\ InstsOf(a \o b) \in Seq(Insts) /\ Len(InstsOf(a \o b)) = Len(a) + Len(b)
      /\ \A k \in 1..(Len(a) + Len(b)) : InstsOf(a \o b)[k] = (a \o b)[k].inst
  <2>1. /\ InstsOf(a \o b) \in Seq(Insts) /\ Len(InstsOf(a \o b)) = Len(a \o b)
        /\ \A k \in 1..Len(a \o b) : InstsOf(a \o b)[k] = (a \o b)[k].inst
    BY <1>1, InstsType
  <2>2. QED
    BY <1>1, <2>1
<1>5. /\ InstsOf(a) \o InstsOf(b) \in Seq(Insts)
      /\ Len(InstsOf(a) \o InstsOf(b)) = Len(a) + Len(b)
  BY <1>2, <1>3, ConcatProperties
<1>6. ASSUME NEW k \in 1..(Len(a) + Len(b))
      PROVE  InstsOf(a \o b)[k] = (InstsOf(a) \o InstsOf(b))[k]
  <2>1. CASE k <= Len(a)
    <3>1. (a \o b)[k] = a[k]
      BY <1>1, <2>1, ConcatProperties
    <3>2. (InstsOf(a) \o InstsOf(b))[k] = InstsOf(a)[k]
      BY <1>1, <1>2, <1>3, <2>1, ConcatProperties
    <3>3. QED
      BY <1>1, <1>2, <1>4, <2>1, <3>1, <3>2
  <2>2. CASE ~(k <= Len(a))
    <3>1. (a \o b)[k] = b[k - Len(a)]
      BY <1>1, <2>2, ConcatProperties
    <3>2. (InstsOf(a) \o InstsOf(b))[k] = InstsOf(b)[k - Len(a)]
      BY <1>1, <1>2, <1>3, <2>2, ConcatProperties
    <3>3. k - Len(a) \in 1..Len(b)
      BY <1>1, <2>2
    <3>4. QED
      BY <1>3, <1>4, <3>1, <3>2, <3>3
  <2>3. QED
    BY <2>1, <2>2
<1>7. QED
  BY <1>4, <1>5, <1>6, SeqEqual

\* The finished instructions of a sequence of fragments are instructions.
LEMMA DoneType ==
  ASSUME NEW s \in Seq(Frags)
  PROVE  Done(s) \in Seq(Insts)
<1>1. Those(s, Lasts) \in Seq(Frags \cap Lasts)
  BY ThoseType
<1>2. \A e \in Frags \cap Lasts : e.inst \in Insts
  BY DEF Lasts
<1>3. QED
  BY <1>1, <1>2, InstsType DEF Done

\* What is finished in two sequences of fragments, one after the other.
LEMMA DoneConcat ==
  ASSUME NEW a \in Seq(Frags), NEW b \in Seq(Frags)
  PROVE  Done(a \o b) = Done(a) \o Done(b)
<1>1. Those(a, Lasts) \in Seq(Frags \cap Lasts) /\ Those(b, Lasts) \in Seq(Frags \cap Lasts)
  BY ThoseType
<1>2. Those(a \o b, Lasts) = Those(a, Lasts) \o Those(b, Lasts)
  BY ThoseConcat
<1>3. \A e \in Frags \cap Lasts : e.inst \in Insts
  BY DEF Lasts
<1>4. QED
  BY <1>1, <1>2, <1>3, InstsConcat DEF Done

\* A fragment more finishes an instruction or none.
LEMMA DoneAppend ==
  ASSUME NEW s \in Seq(Frags), NEW x \in Frags
  PROVE  Done(Append(s, x)) = IF x.kind = "last" THEN Append(Done(s), x.inst) ELSE Done(s)
<1>1. x \in Lasts <=> x.kind = "last"
  BY DEF Lasts, Frags
<1>2. Those(Append(s, x), Lasts) = IF x \in Lasts THEN Append(Those(s, Lasts), x) ELSE Those(s, Lasts)
  BY ThoseAppend
<1>3. CASE x.kind = "last"
  <2> DEFINE a == Those(s, Lasts)
             E == Frags \cap Lasts
  <2>1. a \in Seq(E) /\ x \in E /\ Those(Append(s, x), Lasts) = Append(a, x)
    BY <1>1, <1>2, <1>3, ThoseType
  <2>2. \A e \in E : e.inst \in Insts
    BY DEF Lasts
  <2> HIDE DEF a, E
  <2>3. <<x>> \in Seq(E) /\ Append(a, x) = a \o <<x>>
    BY <2>1, AppendIsConcat
  <2>4. InstsOf(a \o <<x>>) = InstsOf(a) \o InstsOf(<<x>>)
    BY <2>1, <2>2, <2>3, InstsConcat
  <2>5. InstsOf(<<x>>) = <<x.inst>>
    BY DEF InstsOf
  <2>6. InstsOf(a) \in Seq(Insts) /\ x.inst \in Insts
    BY <2>1, <2>2, InstsType
  <2>7. InstsOf(a) \o <<x.inst>> = Append(InstsOf(a), x.inst)
    BY <2>6, AppendIsConcat
  <2>8. QED
    BY <1>3, <2>1, <2>3, <2>4, <2>5, <2>7 DEF Done, a
<1>4. CASE x.kind # "last"
  BY <1>1, <1>2, <1>4 DEF Done
<1>5. QED
  BY <1>3, <1>4

\* What does not start inside an instruction is complete as it stands.
LEMMA CompleteIs ==
  ASSUME NEW s, ~Headless(s)
  PROVE  Complete(s) = Done(s)
  BY DEF Complete, Done, InstsOf, Lasts

-----------------------------------------------------------------------------
(* guacd's streams.                                                        *)

\* One instruction more, on an index that it fits.
LEMMA SendKeeps ==
  ASSUME NEW s \in Seq(Insts), Orderly(s), NEW v \in SUBSET Indices, LiveIn(s, v),
         NEW i \in Insts, NEW u \in SUBSET Indices,
         \/ i.op \in {"clipboard", "img"} /\ i.idx \notin v /\ u = v \cup {i.idx}
         \/ i.op = "blob" /\ i.idx \in v /\ u = v
         \/ i.op = "end" /\ i.idx \in v /\ u = v \ {i.idx},
         NEW t \in Seq(Insts), Len(t) = Len(s) + 1, t[Len(s) + 1] = i,
         \A k \in 1..Len(s) : t[k] = s[k]
  PROVE  Orderly(t) /\ LiveIn(t, u)
<1> DEFINE n == Len(s) + 1
           Last(r, k, x) == r[k].idx = x /\ \A m \in (k + 1)..Len(r) : r[m].idx # x
<1>1. Len(s) \in Nat /\ n \in Nat /\ n # 0 /\ n - 1 = Len(s) /\ i.idx \in Indices
  BY LenProperties DEF Insts
<1>2. ASSUME NEW x \in Indices, x # i.idx, NEW k \in 1..Len(s)
      PROVE  Last(t, k, x) <=> Last(s, k, x)
  <2>1. (k + 1)..Len(t) = ((k + 1)..Len(s)) \cup {n}
    BY <1>1
  <2>2. \A m \in (k + 1)..Len(s) : t[m] = s[m]
    BY <1>1
  <2>3. QED
    BY <1>2, <2>1, <2>2
<1>3. \A k \in 1..Len(s) : Before(t, k, n) <=> Last(s, k, i.idx)
  <2> TAKE k \in 1..Len(s)
  <2>1. (k + 1)..(n - 1) = (k + 1)..Len(s)
    BY <1>1
  <2>2. \A m \in (k + 1)..Len(s) : t[m] = s[m]
    BY <1>1
  <2>3. t[k] = s[k] /\ t[n] = i
    OBVIOUS
  <2>4. Before(t, k, n) <=> t[k].idx = t[n].idx /\ \A m \in (k + 1)..(n - 1) : t[m].idx # t[n].idx
    BY DEF Before
  <2>5. QED
    BY <2>1, <2>2, <2>3, <2>4
<1>4. \A x \in Indices : x \in v <=> \E k \in 1..Len(s) : Last(s, k, x) /\ s[k].op # "end"
  BY DEF LiveIn
<1>5. FitsAt(t, n)
  <2>1. ASSUME i.op \in {"clipboard", "img"}, NEW k \in 1..Len(s), Before(t, k, n)
        PROVE  t[k].op = "end"
    <3>1. i.idx \notin v /\ Last(s, k, i.idx) /\ t[k] = s[k]
      BY <1>3, <2>1
    <3> HIDE DEF Last
    <3>2. QED
      BY <1>1, <1>4, <3>1
  <2>2. ASSUME i.op \in {"blob", "end"}
        PROVE  \E k \in 1..Len(s) : Before(t, k, n) /\ t[k].op # "end"
    <3>1. i.idx \in v
      BY <2>2
    <3> HIDE DEF Last
    <3>2. PICK k \in 1..Len(s) : Last(s, k, i.idx) /\ s[k].op # "end"
      BY <1>1, <1>4, <3>1
    <3>3. Before(t, k, n) /\ t[k].op # "end"
      BY <1>3, <3>2
    <3>4. QED
      BY <3>3
  <2>3. t[n] = i /\ 1..(n - 1) = 1..Len(s)
    BY <1>1
  <2> HIDE DEF n
  <2>4. QED
    BY <2>1, <2>2, <2>3 DEF FitsAt
<1>6. Orderly(t)
  <2>1. ASSUME NEW k \in 1..Len(s) PROVE FitsAt(t, k)
    <3>1. FitsAt(s, k) /\ k \in Nat /\ k # 0 /\ \A m \in 1..k : t[m] = s[m]
      BY <1>1 DEF Orderly
    <3>2. QED
      BY <3>1, FitsSame
  <2>2. \A k \in 1..Len(t) : k = n \/ k \in 1..Len(s)
    BY <1>1
  <2> HIDE DEF n
  <2>3. QED
    BY <1>5, <2>1, <2>2 DEF Orderly
<1>7. ASSUME NEW x \in Indices
      PROVE  x \in u <=> \E k \in 1..Len(t) : Last(t, k, x) /\ t[k].op # "end"
  <2>0. n \in 1..Len(t) /\ 1..Len(t) = (1..Len(s)) \cup {n} /\ t[n] = i
    BY <1>1
  <2>1. CASE x = i.idx
    <3>1. Last(t, n, x)
      BY <1>1, <2>0, <2>1
    <3>2. \A k \in 1..Len(s) : ~Last(t, k, x)
      BY <1>1, <2>0, <2>1
    <3> HIDE DEF Last, n
    <3>3. x \in u <=> i.op # "end"
      BY <2>1 DEF Insts
    <3>4. QED
      BY <2>0, <3>1, <3>2, <3>3
  <2>2. CASE x # i.idx
    <3>1. x \in u <=> x \in v
      BY <2>2
    <3>2. ~Last(t, n, x)
      BY <2>0, <2>2
    <3>3. \A k \in 1..Len(s) : t[k] = s[k] /\ (Last(t, k, x) <=> Last(s, k, x))
      BY <1>2, <2>2
    <3> HIDE DEF Last, n
    <3>4. QED
      BY <1>4, <2>0, <3>1, <3>2, <3>3
  <2>3. QED
    BY <2>1, <2>2
<1>8. QED
  BY <1>6, <1>7 DEF LiveIn

\* The lowest index that is not in use is not in use.
LEMMA NextIsFree == Shape => NextIndex \notin live
<1> SUFFICES ASSUME Shape PROVE NextIndex \notin live
  OBVIOUS
<1> DEFINE Free == {i \in 1..(NIndices + 1) : i \notin live}
<1>1. NIndices \in Nat /\ live \subseteq 1..NIndices
  BY TunnelAssumption DEF Shape, Indices
<1>2. NIndices + 1 \in Free
  BY <1>1
<1>3. Free \subseteq Nat /\ Free # {}
  BY <1>1, <1>2
<1>4. PICK i \in Free : \A j \in Free : i <= j
  <2> HIDE DEF Free
  <2>1. QED
    BY <1>3, NatMin
<1>5. i \in 1..(NIndices + 1) /\ i \notin live /\ \A j \in 1..(i - 1) : j \in live
  BY <1>1, <1>4
<1>6. QED
  BY <1>5 DEF NextIndex

\* A byte sequence that starts no instruction inside another, one fragment longer.
LEMMA FramedAppend ==
  ASSUME NEW s \in Seq(Frags), Framed(s), NEW x \in Frags,
         x.kind # "last" \/ (s # <<>> /\ s[Len(s)].kind # "last")
  PROVE  Framed(Append(s, x))
<1> DEFINE t == Append(s, x)
<1>1. /\ t \in Seq(Frags) /\ Len(t) = Len(s) + 1 /\ t[Len(s) + 1] = x
      /\ \A k \in 1..Len(s) : t[k] = s[k]
  BY AppendProperties
<1>2. Len(s) \in Nat /\ (s = <<>> <=> Len(s) = 0)
  BY LenProperties, EmptySeq
<1> HIDE DEF t
<1>3. t[1].kind # "last"
  BY <1>1, <1>2 DEF Framed
<1>4. ASSUME NEW k \in 1..Len(t), t[k].kind = "last", k < Len(t)
      PROVE  t[k + 1].kind # "last"
  <2>1. CASE k = Len(s)
    BY <1>1, <1>2, <1>4, <2>1
  <2>2. CASE k # Len(s)
    <3>1. k \in 1..Len(s) /\ k < Len(s) /\ k + 1 \in 1..Len(s)
      BY <1>1, <1>2, <1>4, <2>2
    <3>2. QED
      BY <1>1, <1>4, <3>1 DEF Framed
  <2>3. QED
    BY <2>1, <2>2
<1>5. QED
  BY <1>3, <1>4 DEF Framed, t

\* An instruction more at the end.
LEMMA FramedInst ==
  ASSUME NEW s \in Seq(Frags), Framed(s), NEW i \in Insts
  PROVE  /\ Framed(s \o Fragments(i)) /\ Done(s \o Fragments(i)) = Append(Done(s), i)
         /\ Fragments(i) \in Seq(Frags)
<1> DEFINE x == [inst |-> i, kind |-> "part"]
           y == [inst |-> i, kind |-> "last"]
<1>1. x \in Frags /\ y \in Frags /\ x.kind # "last" /\ y.kind = "last" /\ y.inst = i
  BY DEF Frags
<1>2. Fragments(i) = <<x, y>>
  BY DEF Fragments
<1> HIDE DEF x, y
<1>3. <<x, y>> \in Seq(Frags) /\ <<x, y>> = Append(Append(<<>>, x), y)
  BY <1>1
<1>4. s \o <<x, y>> = Append(Append(s, x), y)
  BY <1>1, SMT
<1>5. /\ Append(s, x) \in Seq(Frags) /\ Append(s, x) # <<>>
      /\ Append(s, x)[Len(Append(s, x))] = x
  BY <1>1, AppendProperties
<1>6. Framed(Append(s, x))
  BY <1>1, FramedAppend
<1>7. Framed(Append(Append(s, x), y))
  BY <1>1, <1>5, <1>6, FramedAppend
<1>8. Done(Append(s, x)) = Done(s)
  BY <1>1, DoneAppend
<1>9. Done(Append(Append(s, x), y)) = Append(Done(s), i)
  BY <1>1, <1>5, <1>8, DoneAppend
<1>10. QED
  BY <1>2, <1>3, <1>4, <1>7, <1>9

-----------------------------------------------------------------------------
(* Framer.Push.                                                            *)

\* The end of the last complete instruction.
LEMMA PrefixIs ==
  ASSUME NEW s \in Seq(Frags)
  PROVE  /\ CompletePrefix(s) \in 0..Len(s)
         /\ CompletePrefix(s) # 0 => s[CompletePrefix(s)].kind = "last"
<1> DEFINE S == {n \in DOMAIN s : s[n].kind = "last"} \cup {0}
           U == {y \in Nat : \A x \in S : x <= y}
<1>1. Len(s) \in Nat /\ DOMAIN s = 1..Len(s)
  BY LenProperties
<1>2. S \subseteq 0..Len(s) /\ 0 \in S /\ S \subseteq Nat
  BY <1>1
<1>3. Len(s) \in U
  <2> HIDE DEF S
  <2>1. QED
    BY <1>1, <1>2
<1>4. PICK y \in U : \A z \in U : y <= z
  <2>1. U \subseteq Nat /\ U # {}
    BY <1>3
  <2> HIDE DEF U
  <2>2. QED
    BY <2>1, NatMin
<1>5. y \in S
  <2> HIDE DEF S
  <2> SUFFICES ASSUME y \notin S PROVE FALSE
    OBVIOUS
  <2>1. y # 0 /\ y \in Nat
    BY <1>2
  <2>2. y - 1 \in Nat /\ \A x \in S : x <= y - 1
    BY <1>2, <2>1
  <2>3. y - 1 \in U
    BY <2>2
  <2>4. QED
    BY <1>4, <2>1, <2>3
<1>6. CompletePrefix(s) = CHOOSE x \in S : \A z \in S : x >= z
  BY DEF CompletePrefix, Max
<1>7. y \in Nat /\ \A z \in S : y >= z
  BY <1>2
<1> HIDE DEF S, U
<1>8. CompletePrefix(s) \in S
  BY <1>5, <1>6, <1>7
<1>9. QED
  BY <1>1, <1>2, <1>8 DEF S

\* Cutting a sequence.
LEMMA Cut ==
  ASSUME NEW E, NEW s \in Seq(E), NEW m \in 0..Len(s)
  PROVE  /\ SubSeq(s, 1, m) \in Seq(E) /\ SubSeq(s, m + 1, Len(s)) \in Seq(E)
         /\ Len(SubSeq(s, 1, m)) = m /\ Len(SubSeq(s, m + 1, Len(s))) = Len(s) - m
         /\ \A k \in 1..m : SubSeq(s, 1, m)[k] = s[k]
         /\ \A k \in 1..(Len(s) - m) : SubSeq(s, m + 1, Len(s))[k] = s[m + k]
         /\ SubSeq(s, 1, m) \o SubSeq(s, m + 1, Len(s)) = s
<1> DEFINE a == SubSeq(s, 1, m)
           b == SubSeq(s, m + 1, Len(s))
<1>1. Len(s) \in Nat /\ m \in Nat /\ \A k \in 1..Len(s) : s[k] \in E
  BY LenProperties, ElementOfSeq
<1>2. a \in Seq(E) /\ Len(a) = m /\ \A k \in 1..m : a[k] = s[k]
  BY <1>1
<1>3. b \in Seq(E) /\ Len(b) = Len(s) - m /\ \A k \in 1..(Len(s) - m) : b[k] = s[m + k]
  BY <1>1
<1> HIDE DEF a, b
<1>4. /\ a \o b \in Seq(E) /\ Len(a \o b) = Len(s)
      /\ \A k \in 1..Len(s) : (a \o b)[k] = IF k <= m THEN a[k] ELSE b[k - m]
  <2>1. /\ a \o b \in Seq(E) /\ Len(a \o b) = Len(a) + Len(b)
        /\ \A k \in 1..(Len(a) + Len(b)) : (a \o b)[k] = IF k <= Len(a) THEN a[k] ELSE b[k - Len(a)]
    <3>1. a \in Seq(E) /\ b \in Seq(E)
      BY <1>2, <1>3
    <3>2. QED
      BY <3>1, ConcatProperties
  <2>2. Len(a) = m /\ Len(a) + Len(b) = Len(s)
    BY <1>1, <1>2, <1>3
  <2>3. QED
    BY <2>1, <2>2
<1>5. \A k \in 1..Len(s) : (a \o b)[k] = s[k]
  BY <1>1, <1>2, <1>3, <1>4
<1>6. a \o b = s
  BY <1>4, <1>5, SeqEqual
<1>7. QED
  BY <1>2, <1>3, <1>6 DEF a, b

\* The brackets of a, b and c in a row do not matter.
Rebrackets(a, b, c) == (a \o b) \o c = a \o (b \o c)

\* Concatenation is associative.
LEMMA Assoc ==
  ASSUME NEW S, NEW a \in Seq(S), NEW b \in Seq(S), NEW c \in Seq(S)
  PROVE  Rebrackets(a, b, c)
  BY ConcatAssociative, SMTT(30) DEF Rebrackets

\* A read moves fragments from the wire to the buffer.
LEMMA ReadKeeps ==
  ASSUME NEW b \in Seq(Frags), NEW w \in Seq(Frags), NEW n \in 1..Len(w)
  PROVE  /\ b \o SubSeq(w, 1, n) \in Seq(Frags) /\ SubSeq(w, n + 1, Len(w)) \in Seq(Frags)
         /\ (b \o SubSeq(w, 1, n)) \o SubSeq(w, n + 1, Len(w)) = b \o w
<1>1. n \in 0..Len(w)
  BY LenProperties
<1>2. /\ SubSeq(w, 1, n) \in Seq(Frags) /\ SubSeq(w, n + 1, Len(w)) \in Seq(Frags)
      /\ SubSeq(w, 1, n) \o SubSeq(w, n + 1, Len(w)) = w
  BY <1>1, Cut
<1>3. QED
  <2> DEFINE x == SubSeq(w, 1, n)
             y == SubSeq(w, n + 1, Len(w))
  <2>1. x \in Seq(Frags) /\ y \in Seq(Frags) /\ x \o y = w
    BY <1>2
  <2> HIDE DEF x, y
  <2>2. (b \o x) \o y = b \o (x \o y) /\ b \o x \in Seq(Frags)
    <3>1. x \in Seq(Frags) /\ y \in Seq(Frags)
      BY <2>1
    <3>2. (b \o x) \o y = b \o (x \o y)
      <4>1. Rebrackets(b, x, y)
        BY <3>1, Assoc
      <4>2. QED
        BY <4>1 DEF Rebrackets
    <3>3. b \o x \in Seq(Frags)
      BY <3>1, ConcatProperties
    <3>4. QED
      BY <3>2, <3>3
  <2>3. QED
    BY <2>1, <2>2 DEF x, y

\* What is left behind a complete instruction starts outside of any, and what
\* ends there and later ends in order.
LEMMA SplitKeeps ==
  ASSUME NEW all \in Seq(Frags), NEW w \in Seq(Frags), Framed(all \o w),
         NEW m \in 1..Len(all), all[m].kind = "last"
  PROVE  LET a == SubSeq(all, 1, m)
             b == SubSeq(all, m + 1, Len(all))
         IN  /\ a \in Seq(Frags) /\ b \in Seq(Frags) /\ ~Headless(a)
             /\ Framed(b \o w) /\ Done(all \o w) = Done(a) \o Done(b \o w)
<1> DEFINE a == SubSeq(all, 1, m)
           b == SubSeq(all, m + 1, Len(all))
           s == all \o w
           t == b \o w
<1>1. m \in 0..Len(all) /\ Len(all) \in Nat /\ Len(w) \in Nat /\ m \in Nat /\ m # 0
  BY LenProperties
<1>2. /\ a \in Seq(Frags) /\ b \in Seq(Frags) /\ Len(a) = m /\ Len(b) = Len(all) - m
      /\ \A k \in 1..m : a[k] = all[k]
      /\ a \o b = all
  BY <1>1, Cut
<1> HIDE DEF a, b
<1>3. t \in Seq(Frags) /\ s \in Seq(Frags) /\ s = a \o t
  <2>1. (a \o b) \o w = a \o (b \o w)
    <3>1. a \in Seq(Frags) /\ b \in Seq(Frags)
      BY <1>2
    <3>2. Rebrackets(a, b, w)
      BY <3>1, Assoc
    <3>3. QED
      BY <3>2 DEF Rebrackets
  <2>2. b \o w \in Seq(Frags) /\ all \o w \in Seq(Frags)
    BY <1>2, ConcatProperties
  <2>3. QED
    BY <1>2, <2>1, <2>2
<1>4. Done(s) = Done(a) \o Done(t)
  <2> HIDE DEF s, t
  <2>1. QED
    BY <1>2, <1>3, DoneConcat
<1>5. Len(s) = Len(all) + Len(w) /\ Len(t) = Len(s) - m /\ Len(t) \in Nat
  <2>1. Len(all \o w) = Len(all) + Len(w)
    BY ConcatProperties
  <2>2. Len(b \o w) = Len(b) + Len(w)
    BY <1>2, ConcatProperties
  <2>3. Len(b) = Len(all) - m
    BY <1>2
  <2>4. Len(s) = Len(all) + Len(w) /\ Len(t) = Len(b) + Len(w)
    BY <2>1, <2>2
  <2> HIDE DEF s, t
  <2>5. QED
    BY <1>1, <2>3, <2>4
<1>6. s[m] = all[m] /\ s[1] = a[1]
  BY <1>1, <1>2, ConcatProperties
<1>7. \A k \in 1..Len(t) : t[k] = s[m + k]
  <2> HIDE DEF s, t
  <2>1. QED
    BY <1>1, <1>2, <1>3, <1>5, ConcatProperties
<1> HIDE DEF s, t
<1>8. Framed(s)
  BY DEF s
<1>9. ~Headless(a)
  <2>1. s # <<>>
    BY <1>1, <1>5, LenProperties, EmptySeq
  <2>2. QED
    BY <1>6, <1>8, <2>1 DEF Framed, Headless
<1>10. Framed(t)
  <2>1. ASSUME t # <<>> PROVE t[1].kind # "last"
    <3>1. Len(t) > 0
      BY <1>3, <1>5, <2>1, EmptySeq
    <3>2. m \in 1..Len(s) /\ m < Len(s) /\ t[1] = s[m + 1]
      BY <1>1, <1>5, <1>7, <3>1
    <3>3. QED
      BY <1>6, <1>8, <3>2 DEF Framed
  <2>2. ASSUME NEW k \in 1..Len(t), t[k].kind = "last", k < Len(t) PROVE t[k + 1].kind # "last"
    <3>1. m + k \in 1..Len(s) /\ m + k < Len(s) /\ t[k] = s[m + k] /\ t[k + 1] = s[(m + k) + 1]
      <4>1. k \in Nat /\ k + 1 \in 1..Len(t) /\ m + (k + 1) = (m + k) + 1
        BY <1>1, <1>5, <2>2
      <4>2. t[k] = s[m + k] /\ t[k + 1] = s[m + (k + 1)]
        BY <1>7, <4>1
      <4>3. m + k \in 1..Len(s) /\ m + k < Len(s)
        BY <1>1, <1>5, <2>2
      <4>4. QED
        BY <4>1, <4>2, <4>3
    <3>2. QED
      BY <1>8, <2>2, <3>1 DEF Framed
  <2>3. QED
    BY <2>1, <2>2 DEF Framed
<1>11. QED
  BY <1>2, <1>4, <1>9, <1>10 DEF a, b, s, t

-----------------------------------------------------------------------------
(* The steps.                                                              *)

\* The invariant holds at the start.
LEMMA InitIInv == Init => IInv
<1> SUFFICES ASSUME Init PROVE IInv
  OBVIOUS
<1>1. <<>> \in Seq(Frags) /\ <<>> \in Seq(Insts) /\ <<>> \in Seq(Entries) /\ <<>> \in Seq(Indices)
  BY EmptySeq
<1>2. Shape
  BY <1>1 DEF Init, Shape
<1>3. Started
  BY DEF Init, Started
<1>4. log["copy"] = <<>> /\ log["paste"] = <<>> /\ blocked["copy"] = {} /\ blocked["paste"] = {}
  BY DEF Init, Dirs
<1>5. Those(<<>>, Refusals) = <<>> /\ Those(<<>>, Lasts) = <<>>
  BY ThoseEmpty
<1>6. Len(<<>>) = 0 /\ DOMAIN <<>> = 1..0
  OBVIOUS
<1>7. buf \o wire = <<>>
  BY DEF Init
<1>8. Framed(<<>>)
  BY <1>6 DEF Framed
<1>9. NothingLost
  <2>1. Complete(<<>>) = <<>>
    BY <1>5, <1>6, CompleteIs DEF Headless, Done, InstsOf
  <2>2. Judged("copy") = <<>>
    BY <1>4, <1>6 DEF Judged
  <2>3. QED
    BY <1>7, <2>1, <2>2 DEF Init, NothingLost
<1>10. Orderly(<<>>) /\ LiveIn(<<>>, {})
  BY <1>6 DEF Orderly, LiveIn
<1>11. Copying
  BY <1>7, <1>8, <1>9, <1>10 DEF Init, Copying
<1>12. Pasting
  <2>1. InstsOf(<<>>) = <<>>
    BY <1>6 DEF InstsOf
  <2>2. PasteAt(<<>>)
    BY <1>6 DEF Init, PasteAt, Ended
  <2>3. QED
    BY <1>4, <1>10, <2>1, <2>2 DEF Pasting
<1>13. Judging
  <2>1. Tracked({}, <<>>) /\ Upright(<<>>)
    BY <1>6 DEF Tracked, Upright
  <2>2. QED
    BY <1>4, <2>1 DEF Judging, Dirs
<1>14. RefusalsKept
  BY <1>4, <1>5, <1>6 DEF Init, RefusalsKept
<1>15. QED
  BY <1>2, <1>3, <1>11, <1>12, <1>13, <1>14 DEF IInv

\* The copy side is not concerned.
LEMMA CopyKept ==
  ASSUME Copying, UNCHANGED <<buf, wire, sent, live>>, log'["copy"] = log["copy"]
  PROVE  Copying'
  BY DEF Copying, NothingLost, Judged

\* The paste side is not concerned.
LEMMA PasteKept ==
  ASSUME Pasting, inbox' = inbox, log'["paste"] = log["paste"]
  PROVE  Pasting'
  BY DEF Pasting, PasteAt

\* Nothing is refused and nothing answered.
LEMMA RefusalsSame ==
  ASSUME RefusalsKept, UNCHANGED <<acked, reply>>, log'["paste"] = log["paste"],
         pump'["paste"] \in {"idle", "read"} => reply = <<>>
  PROVE  RefusalsKept'
  BY DEF RefusalsKept

\* Nothing is judged.
LEMMA JudgingKept ==
  ASSUME Judging, UNCHANGED <<blocked, log>>
  PROVE  Judging'
  BY DEF Judging

\* A step of no concern to the filter and the data.
LEMMA Quiet ==
  ASSUME IInv, UNCHANGED <<buf, wire, sent, live, inbox, grant, want, blocked, log, reply, acked>>,
         pump' \in [Dirs -> {"idle", "read", "write", "answer", "done"}], Started',
         pump'["paste"] \in {"idle", "read"} => reply = <<>>
  PROVE  IInv'
<1>1. Shape'
  BY DEF IInv, Shape
<1>2. Copying'
  BY CopyKept DEF IInv
<1>3. Pasting'
  BY PasteKept DEF IInv
<1>4. Judging'
  BY JudgingKept DEF IInv
<1>5. RefusalsKept'
  BY RefusalsSame DEF IInv
<1>6. QED
  BY <1>1, <1>2, <1>3, <1>4, <1>5 DEF IInv

\* The steps that move no instruction keep the invariant.
LEMMA QuietSteps ==
  ASSUME IInv,
         \/ GuacdAnswers \/ PeerLeaves \/ HandshakeStep \/ HandshakeFails \/ PipeCloses \/ PipeReturns
         \/ \E d \in Dirs : ReadEnds(d) \/ WriteFails(d)
         \/ UNCHANGED vars
  PROVE  IInv'
<1> USE DEF filterVars, peerVars
<1>0. /\ pump \in [Dirs -> {"idle", "read", "write", "answer", "done"}] /\ Started
      /\ pump["paste"] \in {"idle", "read"} => reply = <<>>
  BY DEF IInv, Shape, RefusalsKept
<1>1. CASE GuacdAnswers
  BY <1>0, <1>1, Quiet DEF GuacdAnswers, Started
<1>2. CASE PeerLeaves
  BY <1>0, <1>2, Quiet DEF PeerLeaves, Started
<1>3. CASE HandshakeStep
  <2>1. CASE pump' = pump
    <3>1. Started'
      BY <1>0, <1>3, <2>1 DEF HandshakeStep, Started
    <3>2. QED
      BY <1>0, <1>3, <2>1, <3>1, Quiet DEF HandshakeStep
  <2>2. CASE pump' = [d \in Dirs |-> "read"] /\ main' = "relay"
    <3>1. pump["paste"] = "idle" /\ reply = <<>>
      BY <1>0, <1>3 DEF HandshakeStep, Started, Dirs
    <3>2. Started' /\ pump' \in [Dirs -> {"idle", "read", "write", "answer", "done"}]
      BY <2>2 DEF Started
    <3>3. QED
      BY <1>3, <3>1, <3>2, Quiet DEF HandshakeStep
  <2>3. QED
    BY <1>3, <2>1, <2>2 DEF HandshakeStep
<1>4. CASE HandshakeFails
  BY <1>0, <1>4, Quiet DEF HandshakeFails, Started
<1>5. CASE PipeCloses
  BY <1>0, <1>5, Quiet DEF PipeCloses, Started
<1>6. CASE PipeReturns
  BY <1>0, <1>6, Quiet DEF PipeReturns, Started
<1>7. ASSUME NEW d \in Dirs, ReadEnds(d) \/ WriteFails(d) PROVE IInv'
  <2>1. pump[d] # "idle" /\ pump' = [pump EXCEPT ![d] = "done"] /\ main' = main
    BY <1>7 DEF ReadEnds, WriteFails
  <2>2. /\ pump' \in [Dirs -> {"idle", "read", "write", "answer", "done"}]
        /\ Started'
        /\ pump'["paste"] \in {"idle", "read"} => reply = <<>>
    BY <1>0, <2>1 DEF Started, Dirs
  <2>3. UNCHANGED <<buf, wire, sent, live, inbox, grant, want, blocked, log, reply, acked>>
    BY <1>7 DEF ReadEnds, WriteFails
  <2>4. QED
    BY <2>2, <2>3, Quiet
<1>8. CASE UNCHANGED vars
  BY <1>0, <1>8, Quiet DEF vars, Started
<1>9. QED
  BY <1>1, <1>2, <1>3, <1>4, <1>5, <1>6, <1>7, <1>8

\* A sequence that starts at a boundary is complete as it stands.
LEMMA FramedIs ==
  ASSUME NEW s, Framed(s)
  PROVE  Complete(s) = Done(s)
  BY CompleteIs DEF Framed, Headless

\* What the invariant says of the two sequences of fragments.
LEMMA CopyFacts ==
  ASSUME Shape, Copying
  PROVE  /\ buf \in Seq(Frags) /\ wire \in Seq(Frags) /\ buf \o wire \in Seq(Frags)
         /\ InstsOf(log["copy"]) \in Seq(Insts) /\ Done(buf \o wire) \in Seq(Insts)
         /\ Framed(buf \o wire)
         /\ sent = InstsOf(log["copy"]) \o Done(buf \o wire)
<1>1. buf \in Seq(Frags) /\ wire \in Seq(Frags) /\ log["copy"] \in Seq(Entries)
  BY DEF Shape, Dirs
<1>2. buf \o wire \in Seq(Frags)
  BY <1>1, ConcatProperties
<1>3. \A e \in Entries : e.inst \in Insts
  BY EntryType
<1>4. InstsOf(log["copy"]) \in Seq(Insts)
  BY <1>1, <1>3, InstsType
<1>5. Done(buf \o wire) \in Seq(Insts)
  BY <1>2, DoneType
<1>6. Framed(buf \o wire)
  BY DEF Copying
<1>7. sent = InstsOf(log["copy"]) \o Done(buf \o wire)
  BY <1>6, FramedIs DEF Copying, NothingLost, Judged, InstsOf
<1>8. QED
  BY <1>1, <1>2, <1>4, <1>5, <1>6, <1>7

\* More fragments on the wire, and what they complete.
LEMMA WireKeeps ==
  ASSUME Shape, Copying, log'["copy"] = log["copy"],
         Framed(buf' \o wire'), Done(buf' \o wire') = Done(buf \o wire), sent' = sent,
         live' = live
  PROVE  Copying'
<1>1. Complete(buf' \o wire') = Done(buf \o wire)
  BY FramedIs
<1>2. sent = InstsOf(log["copy"]) \o Done(buf \o wire)
  BY CopyFacts
<1>3. NothingLost'
  BY <1>1, <1>2 DEF NothingLost, Judged, InstsOf
<1>4. QED
  BY <1>3 DEF Copying

\* guacd sends an instruction: it joins the wire whole, on a stream in order.
LEMMA SendsStep ==
  ASSUME IInv, GuacdSends
  PROVE  IInv'
<1>0. Shape /\ Started /\ Copying /\ Pasting /\ Judging /\ RefusalsKept
  BY DEF IInv
<1>1. sent \in Seq(Insts) /\ live \in SUBSET Indices /\ Orderly(sent) /\ LiveIn(sent, live)
  BY <1>0 DEF Shape, Copying
<1>2. \E x \in Insts, u \in SUBSET Indices :
        /\ \/ x.op \in {"clipboard", "img"} /\ x.idx \notin live /\ u = live \cup {x.idx}
           \/ x.op = "blob" /\ x.idx \in live /\ u = live
           \/ x.op = "end" /\ x.idx \in live /\ u = live \ {x.idx}
        /\ live' = u /\ sent' = Append(sent, x)
  <2>1. PICK i \in Indices :
          \/ /\ i = NextIndex
             /\ live' = live \cup {i}
             /\ \E o \in {"clipboard", "img"} : sent' = Append(sent, Inst(o, i))
          \/ /\ i \in live
             /\ sent' = Append(sent, Inst("blob", i))
             /\ UNCHANGED live
          \/ /\ i \in live
             /\ live' = live \ {i}
             /\ sent' = Append(sent, Inst("end", i))
    BY DEF GuacdSends
  <2>2. \A o \in {"clipboard", "img", "blob", "end"} :
          Inst(o, i) \in Insts /\ Inst(o, i).op = o /\ Inst(o, i).idx = i
    BY DEF Inst, Insts
  <2>3. live' \in SUBSET Indices
    BY <1>1, <2>1
  <2>4. CASE /\ i = NextIndex /\ live' = live \cup {i}
             /\ \E o \in {"clipboard", "img"} : sent' = Append(sent, Inst(o, i))
    <3>1. i \notin live
      BY <1>0, <2>4, NextIsFree
    <3>2. PICK o \in {"clipboard", "img"} : sent' = Append(sent, Inst(o, i))
      BY <2>4
    <3>3. Inst(o, i) \in Insts /\ Inst(o, i).op \in {"clipboard", "img"} /\ Inst(o, i).idx = i
      BY <2>2
    <3>4. QED
      BY <2>3, <2>4, <3>1, <3>2, <3>3
  <2>5. CASE i \in live /\ sent' = Append(sent, Inst("blob", i)) /\ live' = live
    BY <2>2, <2>3, <2>5
  <2>6. CASE i \in live /\ live' = live \ {i} /\ sent' = Append(sent, Inst("end", i))
    BY <2>2, <2>3, <2>6
  <2>7. QED
    BY <2>1, <2>4, <2>5, <2>6
<1>3. PICK x \in Insts, u \in SUBSET Indices :
        /\ \/ x.op \in {"clipboard", "img"} /\ x.idx \notin live /\ u = live \cup {x.idx}
           \/ x.op = "blob" /\ x.idx \in live /\ u = live
           \/ x.op = "end" /\ x.idx \in live /\ u = live \ {x.idx}
        /\ live' = u /\ sent' = Append(sent, x)
  BY <1>2
<1>4. /\ sent' \in Seq(Insts) /\ Len(sent') = Len(sent) + 1 /\ sent'[Len(sent) + 1] = x
      /\ \A k \in 1..Len(sent) : sent'[k] = sent[k]
  BY <1>1, <1>3, AppendProperties
<1>5. Orderly(sent') /\ LiveIn(sent', live')
  <2> DEFINE t == sent'
  <2>1. /\ t \in Seq(Insts) /\ Len(t) = Len(sent) + 1 /\ t[Len(sent) + 1] = x
        /\ \A k \in 1..Len(sent) : t[k] = sent[k]
    BY <1>4
  <2>2. \/ x.op \in {"clipboard", "img"} /\ x.idx \notin live /\ u = live \cup {x.idx}
        \/ x.op = "blob" /\ x.idx \in live /\ u = live
        \/ x.op = "end" /\ x.idx \in live /\ u = live \ {x.idx}
    BY <1>3
  <2> HIDE DEF t
  <2>3. Orderly(t) /\ LiveIn(t, u)
    BY <1>1, <2>1, <2>2, SendKeeps
  <2>4. QED
    BY <1>3, <2>3 DEF t
<1>6. /\ wire' = wire \o Fragments(x) /\ buf' = buf /\ log' = log /\ inbox' = inbox
      /\ UNCHANGED <<main, pump, grant, want, blocked, reply, acked>>
  BY <1>4 DEF GuacdSends, filterVars
<1>7. /\ buf \in Seq(Frags) /\ wire \in Seq(Frags) /\ buf \o wire \in Seq(Frags)
      /\ InstsOf(log["copy"]) \in Seq(Insts) /\ Done(buf \o wire) \in Seq(Insts)
      /\ Framed(buf \o wire)
      /\ sent = InstsOf(log["copy"]) \o Done(buf \o wire)
  BY <1>0, CopyFacts
<1>8. /\ Framed((buf \o wire) \o Fragments(x)) /\ Fragments(x) \in Seq(Frags)
      /\ Done((buf \o wire) \o Fragments(x)) = Append(Done(buf \o wire), x)
  BY <1>7, FramedInst
<1>9. (buf \o wire) \o Fragments(x) = buf' \o wire' /\ wire' \in Seq(Frags)
  <2>1. (buf \o wire) \o Fragments(x) = buf \o (wire \o Fragments(x))
    <3>1. Rebrackets(buf, wire, Fragments(x))
      BY <1>7, <1>8, Assoc
    <3>2. QED
      BY <3>1 DEF Rebrackets
  <2>2. wire \o Fragments(x) \in Seq(Frags)
    BY <1>7, <1>8, ConcatProperties
  <2>3. QED
    BY <1>6, <2>1, <2>2
<1>10. Complete(buf' \o wire') = Append(Done(buf \o wire), x) /\ Framed(buf' \o wire')
  BY <1>8, <1>9, FramedIs
<1>11. InstsOf(log["copy"]) \o Append(Done(buf \o wire), x) = Append(sent, x)
  <2> DEFINE a == InstsOf(log["copy"])
             b == Done(buf \o wire)
  <2>1. a \in Seq(Insts) /\ b \in Seq(Insts)
    BY <1>7
  <2>2. sent = a \o b
    BY <1>7
  <2> HIDE DEF a, b
  <2>3. a \o Append(b, x) = Append(a \o b, x)
    BY <2>1, ConcatAppend
  <2>4. QED
    BY <2>2, <2>3 DEF a, b
<1>12. NothingLost'
  BY <1>3, <1>6, <1>10, <1>11 DEF NothingLost, Judged, InstsOf
<1>13. Copying'
  BY <1>5, <1>10, <1>12 DEF Copying
<1>14. Shape'
  BY <1>0, <1>3, <1>4, <1>6, <1>9 DEF Shape
<1>15. Pasting' /\ Judging' /\ RefusalsKept' /\ Started'
  BY <1>0, <1>6, PasteKept, JudgingKept, RefusalsSame DEF Started, RefusalsKept
<1>16. QED
  BY <1>13, <1>14, <1>15 DEF IInv

\* Garbage finishes no instruction.
LEMMA CorruptsStep ==
  ASSUME IInv, GuacdCorrupts
  PROVE  IInv'
<1>0. Shape /\ Started /\ Copying /\ Pasting /\ Judging /\ RefusalsKept
  BY DEF IInv
<1>1. PICK k \in {"garbage", "endless"} : wire' = Append(wire, [inst |-> Inst("img", 1), kind |-> k])
  BY DEF GuacdCorrupts
<1> DEFINE x == [inst |-> Inst("img", 1), kind |-> k]
<1>2. x \in Frags /\ x.kind # "last"
  <2>1. 1 \in Indices
    BY TunnelAssumption DEF Indices
  <2>2. QED
    BY <2>1 DEF Frags, Inst, Insts
<1>3. wire' = Append(wire, x)
  BY <1>1
<1> HIDE DEF x
<1>4. UNCHANGED <<main, pump, grant, want, blocked, buf, inbox, reply, live, sent, log, acked>>
  BY DEF GuacdCorrupts, filterVars
<1>5. /\ buf \in Seq(Frags) /\ wire \in Seq(Frags) /\ buf \o wire \in Seq(Frags)
      /\ Framed(buf \o wire)
  BY <1>0, CopyFacts
<1>6. buf' \o wire' = Append(buf \o wire, x) /\ wire' \in Seq(Frags)
  <2>1. buf \o Append(wire, x) = Append(buf \o wire, x)
    BY <1>2, <1>5, ConcatAppend
  <2>2. Append(wire, x) \in Seq(Frags)
    BY <1>2, <1>5, AppendProperties
  <2>3. QED
    BY <1>3, <1>4, <2>1, <2>2
<1>7. Framed(buf' \o wire')
  BY <1>2, <1>5, <1>6, FramedAppend
<1>8. Done(buf' \o wire') = Done(buf \o wire)
  BY <1>2, <1>5, <1>6, DoneAppend
<1>9. Copying'
  BY <1>0, <1>4, <1>7, <1>8, WireKeeps
<1>10. Shape'
  BY <1>0, <1>4, <1>6 DEF Shape
<1>11. Pasting' /\ Judging' /\ RefusalsKept' /\ Started'
  BY <1>0, <1>4, PasteKept, JudgingKept, RefusalsSame DEF Started, RefusalsKept
<1>12. QED
  BY <1>9, <1>10, <1>11 DEF IInv

\* Nothing waits from the browser: its last paste stream has ended.
LEMMA BrowserStep ==
  ASSUME IInv, BrowserPastes \/ BrowserToggles
  PROVE  IInv'
<1>0. Shape /\ Started /\ Copying /\ Pasting /\ Judging /\ RefusalsKept
  BY DEF IInv
<1>1. /\ UNCHANGED <<main, pump, grant, want, blocked, wire, buf, reply, live, sent, log, acked>>
      /\ inbox = <<>>
  BY DEF BrowserPastes, BrowserToggles, filterVars
<1>2. /\ Ended(log["paste"])
      /\ \A k \in 1..Len(log["paste"]) : log["paste"][k].inst.idx = 1
  BY <1>0, <1>1 DEF Pasting, PasteAt
<1>3. \/ inbox' = <<Inst("clipboard", 1), Inst("blob", 1), Inst("end", 1)>>
      \/ \E t \in Toggles : inbox' = <<t>>
  <2>1. CASE BrowserPastes
    BY <2>1 DEF BrowserPastes
  <2>2. CASE BrowserToggles
    <3>1. PICK d \in Dirs, b \in BOOLEAN : inbox' = <<[op |-> "toggle", dir |-> d, on |-> b]>>
      BY <2>2 DEF BrowserToggles
    <3>2. [op |-> "toggle", dir |-> d, on |-> b] \in Toggles
      BY DEF Toggles
    <3>3. QED
      BY <3>1, <3>2
  <2>3. QED
    BY <2>1, <2>2
<1>4. Pasting'
  <2>1. PasteAt(log["paste"])'
    BY <1>1, <1>2, <1>3 DEF PasteAt, Ended
  <2>2. Orderly(InstsOf(log["paste"]))'
    BY <1>0, <1>1 DEF Pasting
  <2>3. QED
    BY <2>1, <2>2 DEF Pasting
<1>5. Shape'
  BY <1>0, <1>1 DEF Shape
<1>6. Copying' /\ Judging' /\ RefusalsKept' /\ Started'
  BY <1>0, <1>1, CopyKept, JudgingKept, RefusalsSame DEF Started, RefusalsKept
<1>7. QED
  BY <1>4, <1>5, <1>6 DEF IInv

\* What the browser's next message can be.
LEMMA NextMessage ==
  ASSUME Pasting, inbox # <<>>
  PROVE  \/ /\ \E t \in Toggles : inbox = <<t>>
            /\ Ended(log["paste"])
         \/ /\ inbox = <<Inst("clipboard", 1), Inst("blob", 1), Inst("end", 1)>>
            /\ Ended(log["paste"])
         \/ /\ inbox = <<Inst("blob", 1), Inst("end", 1)>>
            /\ log["paste"] # <<>> /\ log["paste"][Len(log["paste"])].inst.op = "clipboard"
         \/ /\ inbox = <<Inst("end", 1)>>
            /\ log["paste"] # <<>> /\ log["paste"][Len(log["paste"])].inst.op = "blob"
  BY DEF Pasting, PasteAt

\* A toggle is answered and nothing is judged.
LEMMA ControlStep ==
  ASSUME IInv, HandleControl
  PROVE  IInv' /\ \E t \in Toggles : want' = [want EXCEPT ![t.dir] = t.on /\ grant[t.dir]]
<1>0. Shape /\ Started /\ Copying /\ Pasting /\ Judging /\ RefusalsKept
  BY DEF IInv
<1>1. /\ UNCHANGED <<main, grant, blocked, wire, buf, reply, live, sent, log, acked>>
      /\ inbox # <<>> /\ Head(inbox).op = "toggle" /\ inbox' = Tail(inbox)
      /\ pump["paste"] = "read" /\ pump' = [pump EXCEPT !["paste"] = "answer"]
      /\ want' = [want EXCEPT ![Head(inbox).dir] = Head(inbox).on /\ grant[Head(inbox).dir]]
  BY DEF HandleControl
<1>2. PICK t \in Toggles : inbox = <<t>> /\ Ended(log["paste"])
  <2>1. Head(<<Inst("clipboard", 1), Inst("blob", 1), Inst("end", 1)>>).op # "toggle"
    BY DEF Inst
  <2>2. Head(<<Inst("blob", 1), Inst("end", 1)>>).op # "toggle"
    BY DEF Inst
  <2>3. Head(<<Inst("end", 1)>>).op # "toggle"
    BY DEF Inst
  <2>4. QED
    BY <1>0, <1>1, <2>1, <2>2, <2>3, NextMessage
<1>3. Head(inbox) = t /\ inbox' = <<>>
  BY <1>1, <1>2
<1>4. t.dir \in Dirs /\ t.on \in BOOLEAN
  BY DEF Toggles
<1>5. want' = [want EXCEPT ![t.dir] = t.on /\ grant[t.dir]]
  BY <1>1, <1>3
<1>6. Shape'
  <2>1. want' \in [Dirs -> BOOLEAN]
    BY <1>0, <1>4, <1>5 DEF Shape
  <2>2. pump' \in [Dirs -> {"idle", "read", "write", "answer", "done"}]
    BY <1>0, <1>1 DEF Shape
  <2>3. QED
    BY <1>0, <1>1, <2>1, <2>2 DEF Shape
<1>7. Pasting'
  <2>1. PasteAt(log["paste"])'
    BY <1>0, <1>1, <1>2, <1>3 DEF PasteAt, Pasting, Ended
  <2>2. Orderly(InstsOf(log["paste"]))'
    BY <1>0, <1>1 DEF Pasting
  <2>3. QED
    BY <2>1, <2>2 DEF Pasting
<1>8. pump'["paste"] = "answer" /\ pump["paste"] # "idle" /\ "paste" \in Dirs
  BY <1>0, <1>1 DEF Shape, Dirs
<1>9. Started'
  BY <1>0, <1>1, <1>8 DEF Started
<1>10. Copying' /\ Judging' /\ RefusalsKept'
  BY <1>0, <1>1, <1>8, CopyKept, JudgingKept, RefusalsSame
<1>11. QED
  BY <1>5, <1>6, <1>7, <1>9, <1>10 DEF IInv

\* What a pump writes has been judged, and its acks are accounted for.
LEMMA WriteStep ==
  ASSUME IInv, NEW d \in Dirs, Write(d)
  PROVE  IInv'
<1>0. Shape /\ Started /\ Copying /\ Pasting /\ Judging /\ RefusalsKept
  BY DEF IInv
<1>1. /\ UNCHANGED <<main, grant, want, blocked, wire, buf, inbox, live, sent, log>>
      /\ pump[d] \in {"write", "answer"} /\ pump' = [pump EXCEPT ![d] = "read"]
      /\ acked' = IF d = "paste" THEN acked \o reply ELSE acked
      /\ reply' = IF d = "paste" THEN <<>> ELSE reply
  BY DEF Write, Flush, filterVars, peerVars
<1>2. reply \in Seq(Indices) /\ acked \in Seq(Indices)
  BY <1>0 DEF Shape
<1>3. acked \o reply \in Seq(Indices) /\ <<>> \in Seq(Indices)
  BY <1>2, ConcatProperties, EmptySeq
<1>4. Shape'
  <2>1. pump' \in [Dirs -> {"idle", "read", "write", "answer", "done"}]
    BY <1>0, <1>1 DEF Shape
  <2>2. acked' \in Seq(Indices) /\ reply' \in Seq(Indices)
    BY <1>1, <1>2, <1>3
  <2>3. QED
    BY <1>0, <1>1, <2>1, <2>2 DEF Shape
<1>5. Started'
  BY <1>0, <1>1 DEF Started
<1>6. acked' \o reply' = acked \o reply
  BY <1>1, <1>3, ConcatEmptySeq
<1>7. RefusalsKept'
  <2>1. pump'["paste"] \in {"idle", "read"} => reply' = <<>>
    BY <1>0, <1>1 DEF RefusalsKept, Shape, Dirs
  <2>2. QED
    BY <1>0, <1>1, <1>6, <2>1 DEF RefusalsKept
<1>8. Copying' /\ Pasting' /\ Judging'
  BY <1>0, <1>1, CopyKept, PasteKept, JudgingKept
<1>9. QED
  BY <1>4, <1>5, <1>7, <1>8 DEF IInv

\* A sequence in three parts, and one that begins with the first two.
LEMMA Parts ==
  ASSUME NEW a \in Seq(Insts), NEW b \in Seq(Insts), NEW c \in Seq(Insts),
         NEW s, s = a \o (b \o c)
  PROVE  /\ s \in Seq(Insts) /\ Len(s) = Len(a) + (Len(b) + Len(c))
         /\ \A k \in 1..Len(a) : s[k] = a[k]
         /\ \A k \in 1..Len(b) : s[Len(a) + k] = b[k]
<1> DEFINE t == b \o c
<1>1. Len(a) \in Nat /\ Len(b) \in Nat /\ Len(c) \in Nat
  BY LenProperties
<1>2. /\ t \in Seq(Insts) /\ Len(t) = Len(b) + Len(c)
      /\ \A k \in 1..(Len(b) + Len(c)) : t[k] = IF k <= Len(b) THEN b[k] ELSE c[k - Len(b)]
  BY ConcatProperties
<1>3. s = a \o t
  OBVIOUS
<1> HIDE DEF t
<1>4. /\ s \in Seq(Insts) /\ Len(s) = Len(a) + Len(t)
      /\ \A k \in 1..(Len(a) + Len(t)) : s[k] = IF k <= Len(a) THEN a[k] ELSE t[k - Len(a)]
  <2>1. /\ a \o t \in Seq(Insts) /\ Len(a \o t) = Len(a) + Len(t)
        /\ \A k \in 1..(Len(a) + Len(t)) : (a \o t)[k] = IF k <= Len(a) THEN a[k] ELSE t[k - Len(a)]
    <3>1. t \in Seq(Insts)
      BY <1>2
    <3>2. QED
      BY <3>1, ConcatProperties
  <2>2. QED
    BY <1>3, <2>1
<1>5. \A k \in 1..Len(a) : s[k] = a[k]
  BY <1>1, <1>2, <1>4
<1>6. ASSUME NEW k \in 1..Len(b) PROVE s[Len(a) + k] = b[k]
  <2>1. Len(a) + k \in 1..(Len(a) + Len(t)) /\ ~(Len(a) + k <= Len(a)) /\ (Len(a) + k) - Len(a) = k
    BY <1>1, <1>2
  <2>2. s[Len(a) + k] = t[(Len(a) + k) - Len(a)]
    BY <1>4, <2>1
  <2>3. k \in 1..(Len(b) + Len(c)) /\ k <= Len(b)
    BY <1>1
  <2>4. t[k] = b[k]
    BY <1>2, <2>3
  <2>5. QED
    BY <2>1, <2>2, <2>4
<1>7. QED
  BY <1>2, <1>4, <1>5, <1>6

\* x has the elements of a and then those of b.
Joins(x, a, b) ==
  /\ Len(x) = Len(a) + Len(b)
  /\ \A k \in 1..Len(a) : x[k] = a[k]
  /\ \A k \in 1..Len(b) : x[Len(a) + k] = b[k]

\* s is a, b and c in a row.
Whole(s, a, b, c) == s = a \o (b \o c)

\* Three parts are the same whole however they are bracketed.
LEMMA PartsAgain ==
  ASSUME NEW a \in Seq(Insts), NEW b \in Seq(Insts), NEW c \in Seq(Insts),
         NEW x \in Seq(Insts), Joins(x, a, b), NEW s, Whole(s, a, b, c)
  PROVE  x \o c = s
<1>1. Len(a) \in Nat /\ Len(b) \in Nat /\ Len(c) \in Nat
  BY LenProperties
<1>2. /\ Len(x) = Len(a) + Len(b)
      /\ \A k \in 1..Len(a) : x[k] = a[k]
      /\ \A k \in 1..Len(b) : x[Len(a) + k] = b[k]
  BY DEF Joins
<1> DEFINE y == a \o b
<1>3. /\ y \in Seq(Insts) /\ Len(y) = Len(a) + Len(b)
      /\ \A k \in 1..(Len(a) + Len(b)) : y[k] = IF k <= Len(a) THEN a[k] ELSE b[k - Len(a)]
  BY ConcatProperties
<1>4. (a \o b) \o c = a \o (b \o c)
  <2>1. Rebrackets(a, b, c)
    BY Assoc
  <2>2. QED
    BY <2>1 DEF Rebrackets
<1> HIDE DEF y
<1>5. ASSUME NEW k \in 1..Len(x) PROVE x[k] = y[k]
  <2>0. k \in 1..(Len(a) + Len(b))
    BY <1>2
  <2>1. CASE k <= Len(a)
    <3>1. k \in 1..Len(a)
      BY <1>1, <1>2, <2>1
    <3>2. x[k] = a[k]
      BY <1>2, <3>1
    <3>3. y[k] = a[k]
      BY <1>3, <2>0, <2>1
    <3>4. QED
      BY <3>2, <3>3
  <2>2. CASE ~(k <= Len(a))
    <3>1. k - Len(a) \in 1..Len(b) /\ Len(a) + (k - Len(a)) = k
      BY <1>1, <1>2, <2>2
    <3>2. x[Len(a) + (k - Len(a))] = b[k - Len(a)]
      BY <1>2, <3>1
    <3>3. y[k] = b[k - Len(a)]
      BY <1>3, <2>0, <2>2
    <3>4. QED
      BY <3>1, <3>2, <3>3
  <2>3. QED
    BY <2>1, <2>2
<1>6. x = y
  BY <1>2, <1>3, <1>5, SeqEqual
<1>7. QED
  BY <1>6, <1>4 DEF y, Whole

\* What a step of the filter does to the verdicts of a direction.
Judges(d) ==
  /\ UNCHANGED <<grant, want>>
  /\ \A c \in Dirs : c # d => log'[c] = log[c]
  /\ Len(log'[d]) >= Len(log[d]) /\ \A k \in 1..Len(log[d]) : log'[d][k] = log[d][k]
  /\ \A k \in (Len(log[d]) + 1)..Len(log'[d]) :
       log'[d][k].inst.op = "clipboard" => log'[d][k].kept = want[d]

\* What the loop keeps of a frame is a judgement of the direction.
LEMMA KeptJudges ==
  ASSUME Shape, NEW d \in Dirs, NEW s, NEW n \in Nat,
         Kept(want[d], log[d], s, log'[d], n, blocked'[d]),
         UNCHANGED <<grant, want>>, \A c \in Dirs : c # d => log'[c] = log[c]
  PROVE  Judges(d)
<1>1. Len(log[d]) \in Nat
  BY LenProperties DEF Shape
<1>2. /\ Len(log'[d]) = Len(log[d]) + n /\ \A k \in 1..Len(log[d]) : log'[d][k] = log[d][k]
      /\ \A k \in 1..Len(log'[d]) : log'[d][k].inst = s[k]
      /\ \A k \in (Len(log[d]) + 1)..(Len(log[d]) + n) :
           s[k].op = "clipboard" => log'[d][k].kept = want[d]
  BY DEF Kept, Follows
<1>3. \A k \in (Len(log[d]) + 1)..(Len(log[d]) + n) : k \in 1..Len(log'[d])
  BY <1>1, <1>2
<1>4. QED
  BY <1>1, <1>2, <1>3 DEF Judges

\* guacd's next fragments are read, re-framed and judged.
LEMMA ReadStep ==
  ASSUME IInv, ReadGuacd
  PROVE  IInv' /\ (UNCHANGED <<grant, want, log>> \/ Judges("copy"))
<1>0. Shape /\ Started /\ Copying /\ Pasting /\ Judging /\ RefusalsKept
  BY DEF IInv
<1>1. PICK n \in 1..Len(wire) : /\ wire' = SubSeq(wire, n + 1, Len(wire))
                                /\ Push(SubSeq(wire, 1, n))
  BY DEF ReadGuacd
<1>2. UNCHANGED <<main, inbox, live, sent, acked>> /\ pump["copy"] = "read"
  BY DEF ReadGuacd
<1>3. /\ buf \in Seq(Frags) /\ wire \in Seq(Frags) /\ buf \o wire \in Seq(Frags)
      /\ InstsOf(log["copy"]) \in Seq(Insts) /\ Framed(buf \o wire)
      /\ sent = InstsOf(log["copy"]) \o Done(buf \o wire)
  BY <1>0, CopyFacts
<1> DEFINE all == buf \o SubSeq(wire, 1, n)
           m == CompletePrefix(all)
<1>4. all \in Seq(Frags) /\ wire' \in Seq(Frags) /\ all \o wire' = buf \o wire
  BY <1>1, <1>3, ReadKeeps
<1>5. \/ /\ pump' = [pump EXCEPT !["copy"] = "done"] /\ buf' = all
         /\ UNCHANGED <<grant, want, blocked, log, reply>>
      \/ buf' = all /\ UNCHANGED <<pump, grant, want, blocked, log, reply>>
      \/ m > 0 /\ buf' = Pending(all, m) /\ Filter("copy", Complete(SubSeq(all, 1, m)))
  BY <1>1 DEF Push, filterVars
<1>6. "copy" \in Dirs /\ "paste" \in Dirs /\ "copy" # "paste"
  BY DEF Dirs
<1> HIDE DEF all, m
<1>7. ASSUME buf' = all, UNCHANGED <<grant, want, blocked, log, reply>>,
             pump' = [pump EXCEPT !["copy"] = "done"] \/ pump' = pump
      PROVE  IInv' /\ UNCHANGED <<grant, want, log>>
  <2>1. buf' \o wire' = buf \o wire
    BY <1>4, <1>7
  <2>2. Copying'
    BY <1>0, <1>2, <1>3, <1>7, <2>1, WireKeeps
  <2>3. /\ pump' \in [Dirs -> {"idle", "read", "write", "answer", "done"}]
        /\ pump'["paste"] = pump["paste"]
    BY <1>0, <1>6, <1>7 DEF Shape
  <2>4. Shape'
    BY <1>0, <1>2, <1>4, <1>7, <2>3 DEF Shape
  <2>5. Started'
    BY <1>0, <1>2, <1>6, <1>7 DEF Started
  <2>6. Pasting' /\ Judging' /\ RefusalsKept'
    BY <1>0, <1>2, <1>7, <2>3, PasteKept, JudgingKept, RefusalsSame DEF RefusalsKept
  <2>7. QED
    BY <1>7, <2>2, <2>4, <2>5, <2>6 DEF IInv
<1>8. ASSUME m > 0, buf' = Pending(all, m), Filter("copy", Complete(SubSeq(all, 1, m)))
      PROVE  IInv' /\ Judges("copy")
  <2> DEFINE a == SubSeq(all, 1, m)
             b == SubSeq(all, m + 1, Len(all))
             frame == Done(a)
             rest == Done(b \o wire')
             L == log["copy"]
             M == log'["copy"]
             J == InstsOf(L)
  <2>1. m \in 1..Len(all) /\ all[m].kind = "last"
    BY <1>4, <1>8, PrefixIs, LenProperties DEF m
  <2>2. /\ a \in Seq(Frags) /\ b \in Seq(Frags) /\ ~Headless(a)
        /\ Framed(b \o wire') /\ Done(all \o wire') = frame \o rest
    <3>1. Framed(all \o wire')
      BY <1>3, <1>4
    <3> DEFINE w == wire'
    <3>2. w \in Seq(Frags) /\ Framed(all \o w)
      BY <1>4, <3>1
    <3> HIDE DEF w
    <3>3. /\ a \in Seq(Frags) /\ b \in Seq(Frags) /\ ~Headless(a)
          /\ Framed(b \o w) /\ Done(all \o w) = Done(a) \o Done(b \o w)
      BY <1>4, <2>1, <3>2, SplitKeeps
    <3>4. QED
      BY <3>3 DEF w
  <2>3. buf' = b /\ Complete(a) = frame /\ Filter("copy", frame)
    BY <1>8, <2>2, CompleteIs DEF Pending
  <2>4. frame \in Seq(Insts) /\ rest \in Seq(Insts) /\ J \in Seq(Insts) /\ sent = J \o (frame \o rest)
    <3>1. b \o wire' \in Seq(Frags)
      BY <1>4, <2>2, ConcatProperties
    <3>2. frame \in Seq(Insts) /\ rest \in Seq(Insts)
      BY <2>2, <3>1, DoneType
    <3>3. QED
      BY <1>3, <1>4, <2>2, <3>2
  <2>5. L \in Seq(Entries) /\ Tracked(blocked["copy"], L) /\ Upright(L) /\ Orderly(sent)
    BY <1>0, <1>6 DEF Shape, Judging, Copying
  <2>6. Len(J) = Len(L) /\ \A k \in 1..Len(L) : J[k] = L[k].inst
    <3>1. \A e \in Entries : e.inst \in Insts
      BY EntryType
    <3>2. QED
      BY <2>5, <3>1, InstsType
  <2> HIDE DEF a, b, frame, rest, J
  <2>7. /\ Len(sent) = Len(J) + (Len(frame) + Len(rest))
        /\ \A k \in 1..Len(J) : sent[k] = J[k]
        /\ \A k \in 1..Len(frame) : sent[Len(J) + k] = frame[k]
    BY <2>4, Parts
  <2>8. Len(frame) \in Nat /\ Len(rest) \in Nat /\ Len(L) \in Nat
    BY <2>4, <2>5, LenProperties
  <2>9. Follows(L, sent)
    BY <2>6, <2>7 DEF Follows
  <2>10. \A k \in 1..Len(frame) : sent[Len(L) + k] = frame[k]
    BY <2>6, <2>7
  <2>11. \A k \in 1..(Len(L) + Len(frame)) : FitsAt(sent, k)
    <3>1. \A k \in 1..(Len(L) + Len(frame)) : k \in 1..Len(sent)
      <4>1. Len(sent) = Len(L) + (Len(frame) + Len(rest))
        BY <2>6, <2>7
      <4> DEFINE p == Len(L)
                 q == Len(frame)
                 z == Len(rest)
                 t == Len(sent)
      <4>2. p \in Nat /\ q \in Nat /\ z \in Nat /\ t = p + (q + z)
        BY <2>8, <4>1
      <4> HIDE DEF p, q, z, t
      <4>3. \A k \in 1..(p + q) : k \in 1..t
        BY <4>2
      <4>4. QED
        BY <4>3 DEF p, q, t
    <3>2. \A k \in 1..Len(sent) : FitsAt(sent, k)
      BY <2>5 DEF Orderly
    <3>3. QED
      BY <3>1, <3>2
  <2>12. /\ Kept(want["copy"], L, sent, M, Len(frame), blocked'["copy"])
         /\ log' \in [Dirs -> Seq(Entries)] /\ blocked' \in [Dirs -> SUBSET Indices]
         /\ \A c \in Dirs : c # "copy" => log'[c] = log[c] /\ blocked'[c] = blocked[c]
    BY <1>0, <1>6, <2>3, <2>4, <2>5, <2>9, <2>10, <2>11, FilterStep
  <2>13. /\ UNCHANGED <<grant, want, reply>> /\ pump' = [pump EXCEPT !["copy"] = "write"]
    BY <2>3 DEF Filter
  <2>14. log'["paste"] = log["paste"] /\ blocked'["paste"] = blocked["paste"]
    BY <1>6, <2>12
  <2>15. InstsOf(M) \o rest = sent
    <3>1. M \in Seq(Entries) /\ Len(M) = Len(J) + Len(frame) /\ \A k \in 1..Len(M) : M[k].inst = sent[k]
      BY <2>6, <2>12 DEF Kept, Follows
    <3>2. \A e \in Entries : e.inst \in Insts
      BY EntryType
    <3> DEFINE x == InstsOf(M)
    <3>3. x \in Seq(Insts) /\ Len(x) = Len(M) /\ \A k \in 1..Len(M) : x[k] = M[k].inst
      BY <3>1, <3>2, InstsType
    <3> HIDE DEF x
    <3>4. \A k \in 1..Len(J) : x[k] = J[k]
      <4>1. \A k \in 1..Len(J) : k \in 1..Len(M)
        BY <2>6, <2>8, <3>1
      <4>2. QED
        BY <2>7, <3>1, <3>3, <4>1
    <3>5. \A k \in 1..Len(frame) : x[Len(J) + k] = frame[k]
      <4>1. \A k \in 1..Len(frame) : Len(J) + k \in 1..Len(M)
        BY <2>6, <2>8, <3>1
      <4>2. QED
        BY <2>7, <3>1, <3>3, <4>1
    <3>6. Len(x) = Len(J) + Len(frame)
      BY <3>1, <3>3
    <3>7. x \o rest = sent
      <4>1. J \in Seq(Insts) /\ frame \in Seq(Insts) /\ rest \in Seq(Insts) /\ x \in Seq(Insts)
        BY <2>4, <3>3
      <4>2. Joins(x, J, frame)
        BY <3>4, <3>5, <3>6 DEF Joins
      <4>3. Whole(sent, J, frame, rest)
        BY <2>4 DEF Whole
      <4>4. QED
        BY <4>1, <4>2, <4>3, PartsAgain
    <3>8. QED
      BY <3>7 DEF x
  <2>16. Copying'
    <3>1. Complete(buf' \o wire') = rest /\ Framed(buf' \o wire')
      BY <2>2, <2>3, FramedIs DEF rest
    <3>2. NothingLost'
      BY <1>2, <2>15, <3>1 DEF NothingLost, Judged, InstsOf
    <3>3. QED
      BY <1>0, <1>2, <3>1, <3>2 DEF Copying
  <2>17. Shape'
    <3>1. pump' \in [Dirs -> {"idle", "read", "write", "answer", "done"}]
      BY <1>0, <2>13 DEF Shape
    <3>2. QED
      BY <1>0, <1>2, <1>4, <2>2, <2>3, <2>12, <2>13, <3>1 DEF Shape
  <2>18. Started'
    BY <1>0, <1>2, <1>6, <2>13 DEF Started
  <2>19. Pasting'
    BY <1>0, <1>2, <2>14, PasteKept
  <2>20. Judging'
    <3>1. Tracked(blocked'["copy"], log'["copy"]) /\ Upright(log'["copy"])
      BY <2>12 DEF Kept
    <3>2. Tracked(blocked'["paste"], log'["paste"]) /\ Upright(log'["paste"])
      BY <1>0, <1>6, <2>14 DEF Judging
    <3>3. QED
      BY <3>1, <3>2 DEF Judging, Dirs
  <2>21. RefusalsKept'
    <3>1. pump'["paste"] = pump["paste"]
      BY <1>0, <1>6, <2>13 DEF Shape
    <3>2. QED
      BY <1>0, <1>2, <2>13, <2>14, <3>1, RefusalsSame DEF RefusalsKept
  <2>22. Judges("copy")
    BY <1>0, <1>6, <2>8, <2>12, <2>13, KeptJudges
  <2>23. QED
    BY <2>16, <2>17, <2>18, <2>19, <2>20, <2>21, <2>22 DEF IInv
<1>9. QED
  BY <1>5, <1>7, <1>8

\* Refusals, by their indices.
IdxOf(R) == [n \in DOMAIN R |-> R[n].inst.idx]

\* The indices of one refusal more.
LEMMA IdxAppend ==
  ASSUME NEW R \in Seq(Entries), NEW e \in Entries
  PROVE  IdxOf(Append(R, e)) = Append(IdxOf(R), e.inst.idx) /\ IdxOf(R) \in Seq(Indices)
<1> DEFINE Q == Append(R, e)
           u == IdxOf(R)
           v == IdxOf(Q)
           x == e.inst.idx
<1>1. /\ Q \in Seq(Entries) /\ Len(Q) = Len(R) + 1 /\ Q[Len(R) + 1] = e
      /\ \A k \in 1..Len(R) : Q[k] = R[k]
  BY AppendProperties
<1>2. Len(R) \in Nat /\ DOMAIN R = 1..Len(R) /\ DOMAIN Q = 1..(Len(R) + 1)
  BY <1>1, LenProperties
<1>3. x \in Indices /\ \A k \in 1..Len(R) : R[k].inst.idx \in Indices
  BY EntryType, ElementOfSeq
<1> HIDE DEF Q, x
<1>4. u = [k \in 1..Len(R) |-> R[k].inst.idx] /\ v = [k \in 1..(Len(R) + 1) |-> Q[k].inst.idx]
  BY <1>2 DEF IdxOf
<1>5. u \in Seq(Indices) /\ Len(u) = Len(R) /\ \A k \in 1..Len(R) : u[k] = R[k].inst.idx
  BY <1>2, <1>3, <1>4
<1>6. \A k \in 1..(Len(R) + 1) : Q[k].inst.idx \in Indices
  BY <1>1, EntryType, ElementOfSeq
<1>7. /\ v \in Seq(Indices) /\ Len(v) = Len(R) + 1
      /\ \A k \in 1..(Len(R) + 1) : v[k] = Q[k].inst.idx
  BY <1>2, <1>4, <1>6
<1> HIDE DEF u, v
<1>8. /\ Append(u, x) \in Seq(Indices) /\ Len(Append(u, x)) = Len(R) + 1
      /\ Append(u, x)[Len(R) + 1] = x /\ \A k \in 1..Len(R) : Append(u, x)[k] = u[k]
  BY <1>3, <1>5, AppendProperties
<1>9. ASSUME NEW k \in 1..(Len(R) + 1) PROVE v[k] = Append(u, x)[k]
  <2>1. CASE k = Len(R) + 1
    BY <1>1, <1>7, <1>8, <2>1 DEF x
  <2>2. CASE k # Len(R) + 1
    <3>1. k \in 1..Len(R)
      BY <1>2, <2>2
    <3>2. QED
      BY <1>1, <1>5, <1>7, <1>8, <3>1
  <2>3. QED
    BY <2>1, <2>2
<1>10. v = Append(u, x)
  BY <1>7, <1>8, <1>9, SeqEqual
<1>11. QED
  BY <1>5, <1>10 DEF Q, u, v, x

\* a lists the refusals of L, e records the verdict on i, r is its answer.
Lists(a, L) == IdxOf(Those(L, Refusals)) = a
Records(e, w, b, i) == e.inst = i /\ e.kept = Verdict(w, b, i)
Answers(r, w, i) == r = IF Denied(w, i) THEN <<i.idx>> ELSE <<>>

\* A refusal is answered with what it adds.
LEMMA RefusalStep ==
  ASSUME NEW L \in Seq(Entries), NEW a \in Seq(Indices), Lists(a, L),
         NEW e \in Entries, NEW r, NEW w \in BOOLEAN, NEW b \in SUBSET Indices, NEW i \in Insts,
         Records(e, w, b, i), Answers(r, w, i)
  PROVE  Lists(a \o r, Append(L, e)) /\ r \in Seq(Indices)
<1> SUFFICES IdxOf(Those(Append(L, e), Refusals)) = a \o r /\ r \in Seq(Indices)
  BY DEF Lists
<1>0. /\ IdxOf(Those(L, Refusals)) = a
      /\ e.inst = i /\ e.kept = Verdict(w, b, i)
      /\ r = IF Denied(w, i) THEN <<i.idx>> ELSE <<>>
  BY DEF Lists, Records, Answers
<1> USE <1>0
<1> DEFINE R == Those(L, Refusals)
<1>1. R \in Seq(Entries)
  <2>1. R \in Seq(Entries \cap Refusals)
    BY ThoseType
  <2>2. Len(R) \in Nat /\ \A k \in 1..Len(R) : R[k] \in Entries \cap Refusals
    BY <2>1, LenProperties, ElementOfSeq
  <2>3. R = [k \in 1..Len(R) |-> R[k]]
    BY <2>1
  <2> HIDE DEF R
  <2>4. R \in [1..Len(R) -> Entries]
    BY <2>2, <2>3
  <2>5. QED
    BY <2>2, <2>4
<1>2. Those(Append(L, e), Refusals) = IF e \in Refusals THEN Append(R, e) ELSE R
  BY ThoseAppend
<1>3. i.idx \in Indices
  BY DEF Insts
<1>4. e \in Refusals <=> Denied(w, i)
  <2>1. CASE Denied(w, i)
    <3>1. e.kept = FALSE /\ e.inst.op = "clipboard" /\ e.inst \in Insts
      BY <2>1 DEF Verdict, Denied
    <3>2. e.inst \in [op : {"clipboard"}, idx : Indices]
      BY <3>1 DEF Insts
    <3>3. e \in Refusals
      BY <3>1, <3>2 DEF Refusals, Entries
    <3>4. QED
      BY <2>1, <3>3
  <2>2. CASE e \in Refusals
    <3>1. i.op = "clipboard" /\ e.kept = FALSE
      BY <2>2 DEF Refusals
    <3>2. ~Verdict(w, b, i)
      BY <3>1
    <3>3. Denied(w, i)
      BY <3>1, <3>2 DEF Verdict
    <3>4. QED
      BY <2>2, <3>3
  <2>3. QED
    BY <2>1, <2>2
<1> HIDE DEF R
<1>5. CASE Denied(w, i)
  <2>1. IdxOf(Those(Append(L, e), Refusals)) = Append(IdxOf(R), i.idx)
    BY <1>1, <1>2, <1>4, <1>5, IdxAppend
  <2>2. IdxOf(R) = a
    BY DEF R
  <2>3. r = <<i.idx>> /\ r \in Seq(Indices)
    BY <1>3, <1>5
  <2> DEFINE y == Append(a, i.idx)
  <2>4. y = a \o <<i.idx>>
    BY <1>3, AppendIsConcat
  <2>5. IdxOf(Those(Append(L, e), Refusals)) = y
    BY <2>1, <2>2
  <2> HIDE DEF y
  <2>6. y = a \o r
    BY <2>3, <2>4
  <2>7. QED
    BY <2>3, <2>5, <2>6
<1>6. CASE ~Denied(w, i)
  <2>1. r = <<>> /\ a \o <<>> = a
    BY <1>6, ConcatEmptySeq
  <2>2. QED
    BY <1>2, <1>4, <1>6, <2>1 DEF R
<1>7. QED
  BY <1>5, <1>6

\* Where every stream has the same index, what fits depends on the last one.
LEMMA LoneFits ==
  ASSUME NEW s \in Seq(Insts), Orderly(s), \A k \in 1..Len(s) : s[k].idx = 1,
         NEW i \in Insts, i.idx = 1,
         i.op = "clipboard" => Len(s) = 0 \/ s[Len(s)].op = "end",
         i.op \in {"blob", "end"} => Len(s) # 0 /\ s[Len(s)].op # "end",
         i.op # "img",
         NEW t \in Seq(Insts), Len(t) = Len(s) + 1, t[Len(s) + 1] = i,
         \A k \in 1..Len(s) : t[k] = s[k]
  PROVE  Orderly(t)
<1> DEFINE n == Len(s) + 1
<1>1. Len(s) \in Nat /\ n \in Nat /\ n # 0 /\ n - 1 = Len(s) /\ t[n] = i /\ 1..(n - 1) = 1..Len(s)
  BY LenProperties
<1>2. \A k \in 1..n : t[k].idx = 1
  BY <1>1
<1> HIDE DEF n
<1>3. ASSUME NEW k \in 1..(n - 1), Before(t, k, n) PROVE k = Len(s)
  <2> SUFFICES ASSUME k # Len(s) PROVE FALSE
    OBVIOUS
  <2>1. Len(s) \in (k + 1)..(n - 1) /\ Len(s) \in 1..n /\ n \in 1..n
    BY <1>1
  <2>2. t[Len(s)].idx # t[n].idx
    BY <1>3, <2>1 DEF Before
  <2>3. QED
    BY <1>2, <2>1, <2>2
<1>4. Len(s) # 0 => Before(t, Len(s), n) /\ Len(s) \in 1..(n - 1) /\ t[Len(s)] = s[Len(s)]
  <2>1. (Len(s) + 1)..(n - 1) = {}
    BY <1>1
  <2>2. Len(s) # 0 => Len(s) \in 1..n /\ n \in 1..n /\ Len(s) \in 1..Len(s)
    BY <1>1
  <2>3. QED
    BY <1>1, <1>2, <2>1, <2>2 DEF Before
<1>5. FitsAt(t, n)
  <2>1. ASSUME i.op = "clipboard", NEW k \in 1..(n - 1), Before(t, k, n) PROVE t[k].op = "end"
    <3>1. k = Len(s) /\ Len(s) # 0
      BY <1>1, <1>3, <2>1
    <3>2. QED
      BY <1>4, <2>1, <3>1
  <2>2. ASSUME i.op \in {"blob", "end"} PROVE \E k \in 1..(n - 1) : Before(t, k, n) /\ t[k].op # "end"
    <3>1. Len(s) # 0 /\ s[Len(s)].op # "end"
      BY <2>2
    <3>2. QED
      BY <1>4, <3>1
  <2>3. QED
    BY <1>1, <2>1, <2>2 DEF FitsAt
<1>6. ASSUME NEW k \in 1..Len(s) PROVE FitsAt(t, k)
  <2>1. FitsAt(s, k) /\ k \in Nat /\ k # 0 /\ \A m \in 1..k : t[m] = s[m]
    BY <1>1 DEF Orderly
  <2>2. QED
    BY <2>1, FitsSame
<1>7. \A k \in 1..Len(t) : k = n \/ k \in 1..Len(s)
  BY <1>1 DEF n
<1>8. QED
  BY <1>5, <1>6, <1>7 DEF Orderly

\* The browser's next message is judged.
LEMMA PasteRead ==
  ASSUME IInv, ReadBrowser
  PROVE  IInv' /\ Judges("paste")
<1> DEFINE L == log["paste"]
           i == Head(inbox)
           w == want["paste"]
           b == blocked["paste"]
           e == [inst |-> i, kept |-> Verdict(w, b, i)]
           M == log'["paste"]
           s == InstsOf(L)
           t == Append(s, i)
<1>0. Shape /\ Started /\ Copying /\ Pasting /\ Judging /\ RefusalsKept
  BY DEF IInv
<1>1. /\ UNCHANGED <<main, wire, buf, live, sent, acked>> /\ pump["paste"] = "read"
      /\ inbox # <<>> /\ i.op # "toggle" /\ inbox' = Tail(inbox)
      /\ Filter("paste", <<i>>)
  BY DEF ReadBrowser
<1>2. "copy" \in Dirs /\ "paste" \in Dirs /\ "copy" # "paste" /\ 1 \in Indices
  BY TunnelAssumption DEF Dirs, Indices
<1>3. L \in Seq(Entries) /\ w \in BOOLEAN /\ b \in SUBSET Indices /\ Len(L) \in Nat
  BY <1>0, <1>2, LenProperties DEF Shape
<1>4. /\ i \in Insts /\ i.idx = 1
      /\ \/ /\ i.op = "clipboard" /\ inbox' = <<Inst("blob", 1), Inst("end", 1)>>
            /\ Ended(L)
         \/ /\ i.op = "blob" /\ inbox' = <<Inst("end", 1)>>
            /\ L # <<>> /\ L[Len(L)].inst.op = "clipboard"
         \/ /\ i.op = "end" /\ inbox' = <<>>
            /\ L # <<>> /\ L[Len(L)].inst.op = "blob"
  <2>1. \A o \in {"clipboard", "blob", "end"} :
          Inst(o, 1) \in Insts /\ Inst(o, 1).op = o /\ Inst(o, 1).idx = 1
    BY <1>2 DEF Inst, Insts
  <2>2. CASE /\ \E m \in Toggles : inbox = <<m>>
             /\ Ended(L)
    BY <1>1, <2>2 DEF Toggles
  <2>3. CASE /\ inbox = <<Inst("clipboard", 1), Inst("blob", 1), Inst("end", 1)>>
             /\ Ended(L)
    <3>1. i = Inst("clipboard", 1) /\ inbox' = <<Inst("blob", 1), Inst("end", 1)>>
      BY <1>1, <2>3
    <3>2. QED
      BY <2>1, <2>3, <3>1
  <2>4. CASE /\ inbox = <<Inst("blob", 1), Inst("end", 1)>>
             /\ L # <<>> /\ L[Len(L)].inst.op = "clipboard"
    <3>1. i = Inst("blob", 1) /\ inbox' = <<Inst("end", 1)>>
      BY <1>1, <2>4
    <3>2. QED
      BY <2>1, <2>4, <3>1
  <2>5. CASE /\ inbox = <<Inst("end", 1)>>
             /\ L # <<>> /\ L[Len(L)].inst.op = "blob"
    <3>1. i = Inst("end", 1) /\ inbox' = <<>>
      BY <1>1, <2>5
    <3>2. QED
      BY <2>1, <2>5, <3>1
  <2>6. QED
    BY <1>0, <1>1, <2>2, <2>3, <2>4, <2>5, NextMessage
<1>5. /\ s \in Seq(Insts) /\ Len(s) = Len(L) /\ \A k \in 1..Len(L) : s[k] = L[k].inst
  <2>1. \A x \in Entries : x.inst \in Insts
    BY EntryType
  <2>2. QED
    BY <1>3, <2>1, InstsType
<1>6. Orderly(s) /\ \A k \in 1..Len(L) : L[k].inst.idx = 1
  BY <1>0 DEF Pasting, PasteAt
<1>7. Tracked(b, L) /\ Upright(L)
  BY <1>0, <1>2 DEF Judging
<1>8. /\ e \in Entries /\ M = Append(L, e)
      /\ reply' = IF Denied(w, i) THEN <<i.idx>> ELSE <<>>
  BY <1>0, <1>1, <1>4, PasteStep
<1>9. e.inst = i /\ e.kept = Verdict(w, b, i)
  OBVIOUS
<1>10. /\ UNCHANGED <<grant, want>> /\ pump' = [pump EXCEPT !["paste"] = "write"]
  BY <1>1 DEF Filter
<1>11. reply = <<>> /\ IdxOf(Those(L, Refusals)) = acked /\ acked \in Seq(Indices)
  <2>1. reply = <<>>
    BY <1>0, <1>1 DEF RefusalsKept
  <2>2. acked \in Seq(Indices) /\ acked \o <<>> = acked
    BY <1>0, ConcatEmptySeq DEF Shape
  <2>3. IdxOf(Those(L, Refusals)) = acked \o reply
    BY <1>0 DEF RefusalsKept, IdxOf
  <2>4. QED
    BY <2>1, <2>2, <2>3
<1> HIDE DEF L, i, w, b, e, s, M
<1>12. /\ t \in Seq(Insts) /\ Len(t) = Len(s) + 1 /\ t[Len(s) + 1] = i
       /\ \A k \in 1..Len(s) : t[k] = s[k]
  BY <1>4, <1>5, AppendProperties
<1> HIDE DEF t
<1>13. /\ M \in Seq(Entries) /\ Len(M) = Len(L) + 1 /\ M[Len(L) + 1] = e
       /\ \A k \in 1..Len(L) : M[k] = L[k]
  BY <1>3, <1>8, AppendProperties
<1>14. Orderly(t)
  <2>1. \A k \in 1..Len(s) : s[k].idx = 1
    BY <1>5, <1>6
  <2>2. L = <<>> <=> Len(L) = 0
    BY <1>3, EmptySeq
  <2>3. /\ i.op = "clipboard" => Len(s) = 0 \/ s[Len(s)].op = "end"
        /\ i.op \in {"blob", "end"} => Len(s) # 0 /\ s[Len(s)].op # "end"
        /\ i.op # "img"
    <3>1. Len(L) # 0 => Len(L) \in 1..Len(L) /\ s[Len(s)] = L[Len(L)].inst
      BY <1>3, <1>5
    <3>2. QED
      BY <1>4, <1>5, <2>2, <3>1 DEF Ended
  <2>4. i \in Insts /\ i.idx = 1
    BY <1>4
  <2>5. QED
    BY <1>5, <1>6, <1>12, <2>1, <2>3, <2>4, LoneFits
<1>15. /\ Kept(w, L, t, M, 1, blocked'["paste"])
       /\ log' \in [Dirs -> Seq(Entries)] /\ blocked' \in [Dirs -> SUBSET Indices]
       /\ \A c \in Dirs : c # "paste" => log'[c] = log[c] /\ blocked'[c] = blocked[c]
  <2> DEFINE frame == <<i>>
  <2>1. frame \in Seq(Insts) /\ Len(frame) = 1 /\ frame[1] = i
    BY <1>4
  <2>2. Filter("paste", frame)
    BY <1>1 DEF i
  <2> HIDE DEF frame
  <2>3. Follows(L, t)
    BY <1>5, <1>12 DEF Follows
  <2>4. \A k \in 1..Len(frame) : t[Len(L) + k] = frame[k]
    BY <1>5, <1>12, <2>1
  <2>5. \A k \in 1..(Len(L) + Len(frame)) : FitsAt(t, k)
    BY <1>5, <1>12, <1>14, <2>1 DEF Orderly
  <2>6. /\ Kept(w, L, t, M, Len(frame), blocked'["paste"])
        /\ log' \in [Dirs -> Seq(Entries)] /\ blocked' \in [Dirs -> SUBSET Indices]
        /\ \A c \in Dirs : c # "paste" => log'[c] = log[c] /\ blocked'[c] = blocked[c]
    BY <1>0, <1>2, <1>7, <2>1, <2>2, <2>3, <2>4, <2>5, FilterStep DEF L, M, w, b
  <2>7. QED
    BY <2>1, <2>6
<1>16. log'["copy"] = log["copy"] /\ blocked'["copy"] = blocked["copy"]
  BY <1>2, <1>15
<1>17. Pasting'
  <2>1. InstsOf(M) = t
    <3>1. \A x \in Entries : x.inst \in Insts
      BY EntryType
    <3> DEFINE y == InstsOf(M)
    <3>2. y \in Seq(Insts) /\ Len(y) = Len(M) /\ \A k \in 1..Len(M) : y[k] = M[k].inst
      BY <1>13, <3>1, InstsType
    <3>3. Follows(M, t)
      BY <1>15 DEF Kept
    <3> HIDE DEF y
    <3>4. y = t
      BY <1>5, <1>12, <1>13, <3>2, <3>3, SeqEqual DEF Follows
    <3>5. QED
      BY <3>4 DEF y
  <2>2. Len(M) = Len(L) + 1 /\ M[Len(M)].inst = i /\ M # <<>>
    BY <1>3, <1>9, <1>13, EmptySeq
  <2>3. \A k \in 1..Len(M) : M[k].inst.idx = 1
    <3>1. \A k \in 1..Len(M) : k = Len(M) \/ k \in 1..Len(L)
      BY <1>3, <1>13
    <3>2. QED
      BY <1>4, <1>6, <1>13, <2>2, <3>1
  <2>4. PasteAt(L)'
    <3>1. \/ inbox' = <<>> /\ Ended(M)
          \/ inbox' = <<Inst("blob", 1), Inst("end", 1)>> /\ M # <<>> /\ M[Len(M)].inst.op = "clipboard"
          \/ inbox' = <<Inst("end", 1)>> /\ M # <<>> /\ M[Len(M)].inst.op = "blob"
      BY <1>4, <2>2 DEF Ended
    <3>2. L' = M
      BY DEF L, M
    <3>3. QED
      BY <2>3, <3>1, <3>2 DEF PasteAt, Ended
  <2>5. QED
    BY <1>14, <2>1, <2>4 DEF Pasting, L, M
<1>18. Judging'
  <2>1. Tracked(blocked'["paste"], M) /\ Upright(M)
    BY <1>15 DEF Kept
  <2>2. Tracked(blocked'["copy"], log'["copy"]) /\ Upright(log'["copy"])
    BY <1>0, <1>2, <1>16 DEF Judging
  <2>3. QED
    BY <2>1, <2>2 DEF Judging, Dirs, M
<1>19. RefusalsKept' /\ reply' \in Seq(Indices)
  <2>1. IdxOf(Those(Append(L, e), Refusals)) = acked \o reply' /\ reply' \in Seq(Indices)
    <3> DEFINE r == reply'
    <3>1. L \in Seq(Entries) /\ w \in BOOLEAN /\ b \in SUBSET Indices /\ i \in Insts /\ e \in Entries
      BY <1>3, <1>4, <1>8
    <3>2. Lists(acked, L) /\ acked \in Seq(Indices)
      BY <1>11 DEF Lists
    <3>3. Answers(r, w, i)
      BY <1>8 DEF Answers
    <3>4. Records(e, w, b, i)
      BY <1>9 DEF Records
    <3> HIDE DEF r
    <3>5. Lists(acked \o r, Append(L, e)) /\ r \in Seq(Indices)
      BY <3>1, <3>2, <3>3, <3>4, RefusalStep
    <3>6. QED
      BY <3>5 DEF Lists, r
  <2>2. pump'["paste"] = "write"
    BY <1>0, <1>2, <1>10 DEF Shape
  <2>3. QED
    BY <1>1, <1>8, <2>1, <2>2 DEF RefusalsKept, IdxOf, M
<1>20. Shape'
  <2>1. pump' \in [Dirs -> {"idle", "read", "write", "answer", "done"}]
    BY <1>0, <1>10 DEF Shape
  <2>2. QED
    BY <1>0, <1>1, <1>10, <1>15, <1>19, <2>1 DEF Shape
<1>21. Started'
  BY <1>0, <1>1, <1>2, <1>10 DEF Started
<1>22. Copying'
  BY <1>0, <1>1, <1>16, CopyKept
<1>23. Judges("paste")
  BY <1>0, <1>2, <1>10, <1>15, KeptJudges DEF L, M, w
<1>24. QED
  BY <1>17, <1>18, <1>19, <1>20, <1>21, <1>22, <1>23 DEF IInv

-----------------------------------------------------------------------------
(* The theorems.                                                           *)

\* The browser switches a direction, as far as the grant allows.
Toggled == /\ \E t \in Toggles : want' = [want EXCEPT ![t.dir] = t.on /\ grant[t.dir]]
           /\ UNCHANGED <<grant, log>>

\* Every step keeps the invariant, and leaves the verdicts alone, toggles a
\* direction, or judges more instructions.
LEMMA Steps ==
  ASSUME IInv, [Next]_vars
  PROVE  /\ IInv'
         /\ UNCHANGED <<grant, want, log>> \/ Toggled \/ \E d \in Dirs : Judges(d)
<1>0. "copy" \in Dirs /\ "paste" \in Dirs
  BY DEF Dirs
<1>1. CASE \/ GuacdAnswers \/ PeerLeaves \/ HandshakeStep \/ HandshakeFails \/ PipeCloses \/ PipeReturns
           \/ \E d \in Dirs : ReadEnds(d) \/ WriteFails(d)
           \/ UNCHANGED vars
  <2>1. IInv'
    BY <1>1, QuietSteps
  <2>2. UNCHANGED <<grant, want, log>>
    BY <1>1 DEF GuacdAnswers, PeerLeaves, HandshakeStep, HandshakeFails, PipeCloses, PipeReturns,
       ReadEnds, WriteFails, vars, filterVars
  <2>3. QED
    BY <2>1, <2>2
<1>2. CASE GuacdSends
  <2>1. UNCHANGED <<grant, want, log>>
    BY <1>2 DEF GuacdSends, filterVars
  <2>2. QED
    BY <1>2, <2>1, SendsStep
<1>3. CASE GuacdCorrupts
  <2>1. UNCHANGED <<grant, want, log>>
    BY <1>3 DEF GuacdCorrupts, filterVars
  <2>2. QED
    BY <1>3, <2>1, CorruptsStep
<1>4. CASE BrowserPastes \/ BrowserToggles
  <2>1. UNCHANGED <<grant, want, log>>
    BY <1>4 DEF BrowserPastes, BrowserToggles, filterVars
  <2>2. QED
    BY <1>4, <2>1, BrowserStep
<1>5. CASE ReadGuacd
  <2>1. IInv' /\ (UNCHANGED <<grant, want, log>> \/ Judges("copy"))
    BY <1>5, ReadStep
  <2>2. QED
    BY <1>0, <2>1
<1>6. CASE ReadBrowser
  <2>1. IInv' /\ Judges("paste")
    BY <1>6, PasteRead
  <2>2. QED
    BY <1>0, <2>1
<1>7. CASE HandleControl
  <2>1. IInv' /\ \E t \in Toggles : want' = [want EXCEPT ![t.dir] = t.on /\ grant[t.dir]]
    BY <1>7, ControlStep
  <2>2. UNCHANGED <<grant, log>>
    BY <1>7 DEF HandleControl
  <2>3. QED
    BY <2>1, <2>2 DEF Toggled
<1>8. ASSUME NEW d \in Dirs, Write(d)
      PROVE  IInv' /\ UNCHANGED <<grant, want, log>>
  <2>1. UNCHANGED <<grant, want, log>>
    BY <1>8 DEF Write, filterVars
  <2>2. QED
    BY <1>8, <2>1, WriteStep
<1>9. QED
  BY <1>1, <1>2, <1>3, <1>4, <1>5, <1>6, <1>7, <1>8 DEF Next, Peers, Proxy

\* Nothing guacd sends is lost or reordered between its "ready" and the
\* filter, however its bytes are cut into reads and whatever it sends: for
\* any number of streams and instructions and any size of the Framer's buffer
\* (framing.go Push, handshake.go).
THEOREM FramesComplete == Spec => []NothingLost
<1>1. IInv /\ [Next]_vars => IInv'
  BY Steps
<1>2. IInv => NothingLost
  BY DEF IInv, Copying
<1>3. QED
  BY InitIInv, <1>1, <1>2, PTL DEF Spec

\* Whenever the browser pump waits for its next message, every paste stream it
\* refused has been answered with one error ack, in order, for any number of
\* pastes and toggles (clipboard.go rewriteWithReplies, proxy.go).
THEOREM PastesAnswered == Spec => []RefusalsAnswered
<1>1. IInv /\ [Next]_vars => IInv'
  BY Steps
<1>2. IInv => RefusalsAnswered
  <2> SUFFICES ASSUME IInv, pump["paste"] = "read"
               PROVE  acked = IdxOf(Those(log["paste"], Refusals))
    BY DEF RefusalsAnswered, IdxOf, Refusals
  <2>1. reply = <<>> /\ IdxOf(Those(log["paste"], Refusals)) = acked \o reply
    BY DEF IInv, RefusalsKept, IdxOf
  <2>2. acked \o <<>> = acked
    BY ConcatEmptySeq DEF IInv, Shape
  <2>3. QED
    BY <2>1, <2>2
<1>3. QED
  BY InitIInv, <1>1, <1>2, PTL DEF Spec

-----------------------------------------------------------------------------
(* The refinement.                                                         *)

\* The verdicts of a log.
KeptsOf(L) == [n \in DOMAIN L |-> L[n].kept]

\* The instructions and the verdicts of a log.
LEMMA SeenAs ==
  ASSUME NEW L \in Seq(Entries)
  PROVE  /\ Len(L) \in Nat /\ Len(InstsOf(L)) = Len(L) /\ Len(KeptsOf(L)) = Len(L)
         /\ \A k \in 1..Len(L) : /\ L[k] \in Entries
                                 /\ InstsOf(L)[k] = L[k].inst /\ KeptsOf(L)[k] = L[k].kept
<1>1. Len(L) \in Nat /\ DOMAIN L = 1..Len(L) /\ \A k \in 1..Len(L) : L[k] \in Entries
  BY LenProperties, ElementOfSeq
<1>2. QED
  BY <1>1 DEF InstsOf, KeptsOf

\* What the gate asks of one verdict, case by case.
LEMMA Rightly ==
  ASSUME NEW s, NEW p, NEW k, NEW on,
         s[k].op \in {"clipboard", "img", "blob", "end"},
         s[k].op = "clipboard" => p[k] = on,
         s[k].op = "img" => p[k],
         s[k].op \in {"blob", "end"} => \A j \in 1..(k - 1) : Gate!IsOpening(s, j, k) => p[k] = p[j]
  PROVE  Gate!Right(s, p, k, on)
<1>1. CASE s[k].op = "clipboard"
  BY <1>1 DEF Gate!Right
<1>2. CASE s[k].op = "img"
  BY <1>2 DEF Gate!Right
<1>3. CASE s[k].op \in {"blob", "end"}
  BY <1>3 DEF Gate!Right
<1>4. QED
  BY <1>1, <1>2, <1>3

\* What the filter makes of a stream is what the gate asks for.
LEMMA VerdictsRight ==
  ASSUME NEW L \in Seq(Entries), Upright(L), NEW k \in 1..Len(L), NEW on,
         L[k].inst.op = "clipboard" => L[k].kept = on
  PROVE  Gate!Right(InstsOf(L), KeptsOf(L), k, on)
<1> DEFINE s == InstsOf(L)
           p == KeptsOf(L)
<1>1. /\ Len(L) \in Nat
      /\ \A m \in 1..Len(L) : L[m] \in Entries /\ s[m] = L[m].inst /\ p[m] = L[m].kept
  BY SeenAs
<1> HIDE DEF s, p
<1>2. L[k].inst.op \in {"clipboard", "img", "blob", "end"}
  BY <1>1, EntryType
<1>3. s[k].op = L[k].inst.op /\ p[k] = L[k].kept /\ L[k].kept \in BOOLEAN
  BY <1>1, EntryType
<1>4. s[k].op = "clipboard" => p[k] = on
  BY <1>3
<1>5. s[k].op = "img" => p[k]
  BY <1>3 DEF Upright
<1>6. ASSUME s[k].op \in {"blob", "end"}, NEW j \in 1..(k - 1), Gate!IsOpening(s, j, k)
      PROVE  p[k] = p[j]
  <2>1. j \in 1..Len(L) /\ k \in 1..Len(L) /\ \A m \in (j + 1)..(k - 1) : m \in 1..Len(L)
    BY <1>1
  <2>2. Opening(L, j, k)
    BY <1>1, <1>6, <2>1 DEF Gate!IsOpening, Gate!Opens, Opening
  <2>3. L[k].kept = L[j].kept
    BY <1>3, <1>6, <2>1, <2>2 DEF Upright
  <2>4. QED
    BY <1>1, <2>1, <2>3
<1>7. QED
  <2>1. s[k].op \in {"clipboard", "img", "blob", "end"}
    BY <1>2, <1>3
  <2>2. Gate!Right(s, p, k, on)
    BY <1>4, <1>5, <1>6, <2>1, Rightly
  <2>3. QED
    BY <2>2 DEF s, p

\* A step of the filter is a step of the gate.
LEMMA JudgeStep ==
  ASSUME Shape, Shape', Judging', NEW d \in Dirs, Judges(d)
  PROVE  Gate!Judge(d)
<1> DEFINE S == [c \in Dirs |-> Judged(c)]
           P == [c \in Dirs |-> [n \in DOMAIN log[c] |-> log[c][n].kept]]
           L == log[d]
           M == log'[d]
<1>1. L \in Seq(Entries) /\ M \in Seq(Entries) /\ Upright(M)
  BY DEF Shape, Judging
<1>2. /\ S[d] = InstsOf(L) /\ P[d] = KeptsOf(L) /\ S'[d] = InstsOf(M) /\ P'[d] = KeptsOf(M)
      /\ \A c \in Dirs : c # d => S'[c] = S[c] /\ P'[c] = P[c]
  BY DEF Judges, Judged, InstsOf, KeptsOf
<1>3. S' = [S EXCEPT ![d] = S'[d]] /\ P' = [P EXCEPT ![d] = P'[d]]
  <2>1. /\ S = [c \in Dirs |-> S[c]] /\ S' = [c \in Dirs |-> S'[c]]
        /\ P = [c \in Dirs |-> P[c]] /\ P' = [c \in Dirs |-> P'[c]]
    OBVIOUS
  <2> HIDE DEF S, P
  <2>2. QED
    BY <1>2, <2>1
<1>4. UNCHANGED <<grant, want>> /\ Len(M) >= Len(L) /\ \A k \in 1..Len(L) : M[k] = L[k]
  BY DEF Judges
<1>5. \A k \in (Len(L) + 1)..Len(M) : M[k].inst.op = "clipboard" => M[k].kept = want[d]
  BY DEF Judges
<1> HIDE DEF S, P, L, M
<1>6. /\ Len(L) \in Nat /\ Len(S[d]) = Len(L) /\ Len(P[d]) = Len(L)
      /\ \A k \in 1..Len(L) : S[d][k] = L[k].inst /\ P[d][k] = L[k].kept
  BY <1>1, <1>2, SeenAs
<1>7. /\ Len(M) \in Nat /\ Len(S'[d]) = Len(M) /\ Len(P'[d]) = Len(M)
      /\ \A k \in 1..Len(M) : S'[d][k] = M[k].inst /\ P'[d][k] = M[k].kept
  BY <1>1, <1>2, SeenAs
<1>8. \A k \in 1..Len(S[d]) : S'[d][k] = S[d][k] /\ P'[d][k] = P[d][k]
  <2> SUFFICES ASSUME NEW k \in 1..Len(L) PROVE S'[d][k] = S[d][k] /\ P'[d][k] = P[d][k]
    BY <1>6
  <2>1. k \in 1..Len(M)
    BY <1>4, <1>6, <1>7
  <2>2. QED
    BY <1>4, <1>6, <1>7, <2>1
<1>9. \A k \in (Len(S[d]) + 1)..Len(S'[d]) : Gate!Right(S'[d], P'[d], k, want[d])
  <2> SUFFICES ASSUME NEW k \in (Len(L) + 1)..Len(M)
               PROVE  Gate!Right(InstsOf(M), KeptsOf(M), k, want[d])
    BY <1>2, <1>6, <1>7
  <2>1. k \in 1..Len(M)
    BY <1>6, <1>7
  <2>2. QED
    BY <1>1, <1>5, <2>1, VerdictsRight
<1>10. Len(S'[d]) >= Len(S[d]) /\ Len(P'[d]) = Len(S'[d])
  BY <1>4, <1>6, <1>7
<1>11. QED
  BY <1>3, <1>4, <1>8, <1>9, <1>10 DEF Gate!Judge, S, P

\* A toggle is a toggle of the gate.
LEMMA ToggledStep ==
  ASSUME Shape, Toggled
  PROVE  \E d \in Dirs : Gate!Toggle(d)
<1>1. PICK t \in Toggles : want' = [want EXCEPT ![t.dir] = t.on /\ grant[t.dir]]
  BY DEF Toggled
<1>2. t.dir \in Dirs /\ t.on \in BOOLEAN
  BY DEF Toggles
<1>3. grant[t.dir] \in BOOLEAN
  BY <1>2 DEF Shape
<1>4. (t.on /\ grant[t.dir]) = FALSE \/ (t.on /\ grant[t.dir]) = grant[t.dir]
  BY <1>2, <1>3
<1>5. want' \in {[want EXCEPT ![t.dir] = FALSE], [want EXCEPT ![t.dir] = grant[t.dir]]}
  BY <1>1, <1>4
<1>6. UNCHANGED <<grant, log>>
  BY DEF Toggled
<1>7. Gate!Toggle(t.dir)
  BY <1>5, <1>6 DEF Gate!Toggle, Judged
<1>8. QED
  BY <1>2, <1>7

\* The filter implements the gate: a clipboard stream passes whole exactly
\* when its direction was enabled as it opened, and nothing else is dropped,
\* for any number of streams, any frames and any toggles (clipboard.go).
THEOREM FilterImplementsGate == Spec => ImplementsGate
<1>1. Init => Gate!GateInit
  <2> SUFFICES ASSUME Init PROVE Gate!GateInit
    OBVIOUS
  <2>1. DOMAIN <<>> = {}
    OBVIOUS
  <2>2. \A d \in Dirs : log[d] = <<>>
    BY DEF Init
  <2>3. \A d \in Dirs : Judged(d) = <<>> /\ [n \in DOMAIN log[d] |-> log[d][n].kept] = <<>>
    BY <2>1, <2>2 DEF Judged
  <2>4. QED
    BY <2>3 DEF Init, Gate!GateInit
<1>2. IInv /\ [Next]_vars => IInv'
  BY Steps
<1>3. IInv /\ IInv' /\ [Next]_vars => [Gate!GateNext]_(Gate!gateVars)
  <2> SUFFICES ASSUME IInv, IInv', [Next]_vars
               PROVE  Gate!GateNext \/ UNCHANGED Gate!gateVars
    OBVIOUS
  <2>1. Shape /\ Shape' /\ Judging'
    BY DEF IInv
  <2>2. CASE UNCHANGED <<grant, want, log>>
    BY <2>2 DEF Gate!gateVars, Judged
  <2>3. CASE Toggled
    BY <2>1, <2>3, ToggledStep DEF Gate!GateNext
  <2>4. ASSUME NEW d \in Dirs, Judges(d) PROVE Gate!GateNext
    BY <2>1, <2>4, JudgeStep DEF Gate!GateNext
  <2>5. QED
    BY <2>2, <2>3, <2>4, Steps
<1>4. QED
  BY InitIInv, <1>1, <1>2, <1>3, PTL DEF Spec, ImplementsGate, Gate!GateSpec

-----------------------------------------------------------------------------
(* The types.                                                              *)

MainTypes ==
    /\ main \in {"select", "connect", "relay", "closing", "returned", "refused"}
    /\ answer \in {"none", "args", "ready", "error"}
    /\ peer \in [browser : {"up", "gone"}, guacd : {"up", "mad", "gone"}]
    /\ open \in [browser : BOOLEAN, guacd : BOOLEAN]

\* What a pump has written is gone before it reads again.
Emptied == DOMAIN out = Dirs /\ \A d \in Dirs : pump[d] \in {"idle", "read"} => out[d] = <<>>

\* They hold before the handshake.
LEMMA InitTypes == Init => MainTypes /\ Emptied
  BY DEF Init, MainTypes, Emptied

\* The handshake and the teardown keep them.
LEMMA MainTypesStay == ASSUME MainTypes, [Next]_vars PROVE MainTypes'
<1>1. peer \in [browser : {"up", "gone"}, guacd : {"up", "mad", "gone"}]
      /\ open \in [browser : BOOLEAN, guacd : BOOLEAN] /\ DOMAIN peer = {"browser", "guacd"}
  BY DEF MainTypes
<1>2. CASE UNCHANGED <<main, answer, peer, open>>
  BY <1>2 DEF MainTypes
<1>3. CASE GuacdAnswers \/ HandshakeStep
  BY <1>3 DEF GuacdAnswers, HandshakeStep, MainTypes
<1>4. CASE GuacdCorrupts
  BY <1>1, <1>4 DEF GuacdCorrupts, MainTypes
<1>5. CASE PeerLeaves
  <2>1. peer' = [peer EXCEPT !["browser"] = "gone"] \/ peer' = [peer EXCEPT !["guacd"] = "gone"]
    BY <1>1, <1>5 DEF PeerLeaves
  <2>2. peer' \in [browser : {"up", "gone"}, guacd : {"up", "mad", "gone"}]
    BY <1>1, <2>1
  <2>3. QED
    BY <1>5, <2>2 DEF PeerLeaves, MainTypes
<1>6. CASE HandshakeFails
  <2>1. open' \in [browser : BOOLEAN, guacd : BOOLEAN]
    BY <1>1, <1>6 DEF HandshakeFails
  <2>2. QED
    BY <1>6, <2>1 DEF HandshakeFails, peerVars, MainTypes
<1>7. CASE PipeCloses \/ PipeReturns
  <2>1. open' \in [browser : BOOLEAN, guacd : BOOLEAN]
    <3>1. open' = open \/ open' = [browser |-> FALSE, guacd |-> FALSE]
      BY <1>7 DEF PipeCloses, PipeReturns, CloseBoth
    <3>2. [browser |-> FALSE, guacd |-> FALSE] \in [browser : BOOLEAN, guacd : BOOLEAN]
      OBVIOUS
    <3>3. QED
      BY <1>1, <3>1, <3>2
  <2>2. QED
    BY <1>7, <2>1 DEF PipeCloses, PipeReturns, peerVars, MainTypes
<1>8. CASE GuacdSends \/ BrowserPastes \/ BrowserToggles
  BY <1>2, <1>8 DEF GuacdSends, BrowserPastes, BrowserToggles
<1>9. CASE \/ ReadGuacd \/ ReadBrowser \/ HandleControl
           \/ \E d \in Dirs : ReadEnds(d) \/ Write(d) \/ WriteFails(d)
  BY <1>2, <1>9 DEF ReadGuacd, ReadBrowser, HandleControl, ReadEnds, Write, WriteFails, peerVars
<1>10. CASE UNCHANGED vars
  BY <1>2, <1>10 DEF vars, peerVars
<1>11. QED
  BY <1>3, <1>4, <1>5, <1>6, <1>7, <1>8, <1>9, <1>10 DEF Next, Peers, Proxy

\* A pump reads again only after it has flushed what it judged.
LEMMA EmptiedStays == ASSUME IInv, Emptied, [Next]_vars PROVE Emptied'
<1>1. pump \in [Dirs -> {"idle", "read", "write", "answer", "done"}] /\ DOMAIN out = Dirs
      /\ {"copy", "paste"} = Dirs
  BY DEF IInv, Shape, Emptied, Dirs
<1>2. CASE UNCHANGED <<out, pump>>
  BY <1>2 DEF Emptied
<1>3. CASE HandshakeStep
  <2>1. \A d \in Dirs : out[d] = <<>>
    BY <1>3 DEF HandshakeStep, IInv, Started, Emptied
  <2>2. QED
    BY <1>3, <2>1 DEF HandshakeStep, Emptied
<1>4. ASSUME NEW d \in Dirs, NEW pc \in {"done", "answer"}, out' = out, pump' = [pump EXCEPT ![d] = pc]
      PROVE  Emptied'
  BY <1>1, <1>4 DEF Emptied
<1>5. ASSUME NEW d \in Dirs, NEW frame, Filter(d, frame) PROVE Emptied'
  <2>1. \E o : out' = [out EXCEPT ![d] = o]
    BY <1>5 DEF Filter
  <2>2. pump' = [pump EXCEPT ![d] = "write"]
    BY <1>5 DEF Filter
  <2>3. QED
    BY <1>1, <2>1, <2>2 DEF Emptied
<1>6. CASE ReadGuacd
  <2>1. \/ \E frame : Filter("copy", frame)
        \/ out' = out /\ pump' = [pump EXCEPT !["copy"] = "done"]
        \/ UNCHANGED <<out, pump>>
    BY <1>6 DEF ReadGuacd, Push
  <2>2. QED
    BY <1>1, <1>2, <1>4, <1>5, <2>1
<1>7. CASE ReadBrowser
  BY <1>1, <1>5, <1>7 DEF ReadBrowser
<1>8. CASE HandleControl
  BY <1>1, <1>4, <1>8 DEF HandleControl
<1>9. ASSUME NEW d \in Dirs, ReadEnds(d) \/ WriteFails(d) PROVE Emptied'
  BY <1>4, <1>9 DEF ReadEnds, WriteFails
<1>10. ASSUME NEW d \in Dirs, Write(d) PROVE Emptied'
  <2>1. out' = [out EXCEPT ![d] = <<>>] /\ pump' = [pump EXCEPT ![d] = "read"]
    BY <1>10 DEF Write, Flush
  <2>2. QED
    BY <1>1, <2>1 DEF Emptied
<1>11. CASE \/ Peers \/ HandshakeFails \/ PipeCloses \/ PipeReturns \/ UNCHANGED vars
  BY <1>2, <1>11 DEF Peers, GuacdAnswers, GuacdSends, GuacdCorrupts, BrowserPastes, BrowserToggles,
     PeerLeaves, HandshakeFails, PipeCloses, PipeReturns, vars
<1>12. QED
  BY <1>3, <1>6, <1>7, <1>8, <1>9, <1>10, <1>11 DEF Next, Proxy

\* The types, for any number of streams, instructions, pastes and toggles: in
\* them, that a pump which waits for its next read has written out what it
\* judged and answered what it refused (proxy.go pipe).
THEOREM TypesHold == Spec => []TypeOK
<1>1. IInv /\ [Next]_vars => IInv'
  BY Steps
<1>2. IInv /\ MainTypes /\ Emptied /\ [Next]_vars => MainTypes' /\ Emptied'
  BY MainTypesStay, EmptiedStays
<1>3. IInv /\ MainTypes /\ Emptied => TypeOK
  BY DEF IInv, Shape, RefusalsKept, MainTypes, Emptied, TypeOK, Entries
<1>4. QED
  BY InitIInv, InitTypes, <1>1, <1>2, <1>3, PTL DEF Spec

=============================================================================
