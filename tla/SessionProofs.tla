---------------------------- MODULE SessionProofs ----------------------------
(***************************************************************************)
(* Facts about one engine session that hold for any vocabulary, any target *)
(* model, and any sizes of the context, the prefill chunks and the blocks. *)
(***************************************************************************)
EXTENDS Session, SequenceTheorems, WellFoundedInduction, TLAPS

-----------------------------------------------------------------------------
(* Prefixes. *)

\* What a prefix of a sequence is.
LEMMA PrefixElements ==
    ASSUME NEW S, NEW s \in Seq(S), NEW n \in 0 .. Len(s)
    PROVE  /\ Prefix(s, n) \in Seq(S)
           /\ Len(Prefix(s, n)) = n
           /\ \A i \in 1 .. n : Prefix(s, n)[i] = s[i]
<1>1. Len(s) \in Nat /\ \A i \in 1 .. n : s[i] \in S
  BY LenProperties, ElementOfSeq
<1>2. 1 \in Int /\ n \in Int
  BY <1>1
<1>3. /\ SubSeq(s, 1, n) \in Seq(S)
      /\ Len(SubSeq(s, 1, n)) = IF 1 <= n THEN n - 1 + 1 ELSE 0
      /\ \A i \in 1 .. n - 1 + 1 : SubSeq(s, 1, n)[i] = s[1 + i - 1]
  BY <1>1, <1>2, SubSeqProperties
<1>. QED BY <1>1, <1>3 DEF Prefix

\* The whole sequence is its longest prefix, the empty one its shortest.
LEMMA PrefixEnds ==
    ASSUME NEW S, NEW s \in Seq(S)
    PROVE  Prefix(s, Len(s)) = s /\ Prefix(s, 0) = <<>>
<1>1. Prefix(s, Len(s)) = s
  BY SubSeqFull DEF Prefix
<1>2. Prefix(s, 0) = <<>>
  BY SubSeqEmpty DEF Prefix
<1>. QED BY <1>1, <1>2

LEMMA PrefixOfPrefix ==
    ASSUME NEW S, NEW s \in Seq(S), NEW n \in 0 .. Len(s), NEW i \in 0 .. n
    PROVE  Prefix(Prefix(s, n), i) = Prefix(s, i)
<1>1. Len(s) \in Nat
  BY LenProperties
<1>2. i \in 0 .. Len(s)
  BY <1>1
<1>3. /\ Prefix(s, n) \in Seq(S) /\ Len(Prefix(s, n)) = n
      /\ \A j \in 1 .. n : Prefix(s, n)[j] = s[j]
  BY PrefixElements
<1>4. /\ Prefix(s, i) \in Seq(S) /\ Len(Prefix(s, i)) = i
      /\ \A j \in 1 .. i : Prefix(s, i)[j] = s[j]
  BY <1>2, PrefixElements
<1>5. /\ Prefix(Prefix(s, n), i) \in Seq(S) /\ Len(Prefix(Prefix(s, n), i)) = i
      /\ \A j \in 1 .. i : Prefix(Prefix(s, n), i)[j] = Prefix(s, n)[j]
  BY <1>3, PrefixElements
<1>6. \A j \in 1 .. i : Prefix(Prefix(s, n), i)[j] = Prefix(s, i)[j]
  BY <1>1, <1>3, <1>4, <1>5
<1>. QED BY <1>4, <1>5, <1>6, SeqEqual

\* A prefix of a longer text ends in its first or in its second part.
LEMMA PrefixOfConcat ==
    ASSUME NEW S, NEW s \in Seq(S), NEW t \in Seq(S)
    PROVE  /\ s \o t \in Seq(S) /\ Len(s \o t) = Len(s) + Len(t)
           /\ \A i \in 0 .. Len(s) : Prefix(s \o t, i) = Prefix(s, i)
           /\ \A i \in 0 .. Len(t) : Prefix(s \o t, Len(s) + i) = s \o Prefix(t, i)
<1>1. Len(s) \in Nat /\ Len(t) \in Nat
  BY LenProperties
<1>2. /\ s \o t \in Seq(S) /\ Len(s \o t) = Len(s) + Len(t)
      /\ \A i \in 1 .. Len(s) + Len(t) :
            (s \o t)[i] = IF i <= Len(s) THEN s[i] ELSE t[i - Len(s)]
  BY ConcatProperties
<1>3. ASSUME NEW i \in 0 .. Len(s)
      PROVE  Prefix(s \o t, i) = Prefix(s, i)
  <2>1. /\ Prefix(s, i) \in Seq(S) /\ Len(Prefix(s, i)) = i
        /\ \A j \in 1 .. i : Prefix(s, i)[j] = s[j]
    BY PrefixElements
  <2>2. i \in 0 .. Len(s \o t)
    BY <1>1, <1>2
  <2>3. /\ Prefix(s \o t, i) \in Seq(S) /\ Len(Prefix(s \o t, i)) = i
        /\ \A j \in 1 .. i : Prefix(s \o t, i)[j] = (s \o t)[j]
    BY <1>2, <2>2, PrefixElements
  <2>4. \A j \in 1 .. i : Prefix(s \o t, i)[j] = Prefix(s, i)[j]
    BY <1>1, <1>2, <2>1, <2>3
  <2>. QED BY <2>1, <2>3, <2>4, SeqEqual
<1>4. ASSUME NEW i \in 0 .. Len(t)
      PROVE  Prefix(s \o t, Len(s) + i) = s \o Prefix(t, i)
  <2>1. /\ Prefix(t, i) \in Seq(S) /\ Len(Prefix(t, i)) = i
        /\ \A j \in 1 .. i : Prefix(t, i)[j] = t[j]
    BY PrefixElements
  <2>2. /\ s \o Prefix(t, i) \in Seq(S) /\ Len(s \o Prefix(t, i)) = Len(s) + i
        /\ \A j \in 1 .. Len(s) + i : (s \o Prefix(t, i))[j] =
              IF j <= Len(s) THEN s[j] ELSE Prefix(t, i)[j - Len(s)]
    <3>1. /\ s \o Prefix(t, i) \in Seq(S)
          /\ Len(s \o Prefix(t, i)) = Len(s) + Len(Prefix(t, i))
          /\ \A j \in 1 .. Len(s) + Len(Prefix(t, i)) : (s \o Prefix(t, i))[j] =
                IF j <= Len(s) THEN s[j] ELSE Prefix(t, i)[j - Len(s)]
      BY ONLY <2>1, s \in Seq(S), ConcatProperties
    <3>. QED BY <2>1, <3>1
  <2>3. Len(s) + i \in 0 .. Len(s \o t)
    BY <1>1, <1>2
  <2>4. /\ Prefix(s \o t, Len(s) + i) \in Seq(S)
        /\ Len(Prefix(s \o t, Len(s) + i)) = Len(s) + i
        /\ \A j \in 1 .. Len(s) + i : Prefix(s \o t, Len(s) + i)[j] = (s \o t)[j]
    BY <1>2, <2>3, PrefixElements
  <2>5. ASSUME NEW j \in 1 .. Len(s) + i
        PROVE  Prefix(s \o t, Len(s) + i)[j] = (s \o Prefix(t, i))[j]
    <3>1. (s \o t)[j] = IF j <= Len(s) THEN s[j] ELSE t[j - Len(s)]
      BY <1>1, <1>2
    <3>2. j > Len(s) => Prefix(t, i)[j - Len(s)] = t[j - Len(s)]
      BY <1>1, <2>1
    <3>. QED BY <2>2, <2>4, <3>1, <3>2, <1>1
  <2>. QED BY <2>2, <2>4, <2>5, SeqEqual
<1>. QED BY <1>2, <1>3, <1>4

\* The next token makes the next prefix.
LEMMA PrefixGrows ==
    ASSUME NEW S, NEW s \in Seq(S), NEW i \in 1 .. Len(s)
    PROVE  Append(Prefix(s, i - 1), s[i]) = Prefix(s, i)
<1>1. Len(s) \in Nat /\ s[i] \in S
  BY LenProperties, ElementOfSeq
<1>2. i - 1 \in 0 .. Len(s) /\ i \in 0 .. Len(s)
  BY <1>1
<1>3. /\ Prefix(s, i - 1) \in Seq(S) /\ Len(Prefix(s, i - 1)) = i - 1
      /\ \A j \in 1 .. i - 1 : Prefix(s, i - 1)[j] = s[j]
  BY <1>2, PrefixElements
<1>4. /\ Prefix(s, i) \in Seq(S) /\ Len(Prefix(s, i)) = i
      /\ \A j \in 1 .. i : Prefix(s, i)[j] = s[j]
  BY <1>2, PrefixElements
<1>5. /\ Append(Prefix(s, i - 1), s[i]) \in Seq(S)
      /\ Len(Append(Prefix(s, i - 1), s[i])) = i
      /\ \A j \in 1 .. i - 1 : Append(Prefix(s, i - 1), s[i])[j] = Prefix(s, i - 1)[j]
      /\ Append(Prefix(s, i - 1), s[i])[i] = s[i]
  BY <1>1, <1>3, AppendProperties
<1>6. \A j \in 1 .. i : Append(Prefix(s, i - 1), s[i])[j] = Prefix(s, i)[j]
  BY <1>2, <1>3, <1>4, <1>5
<1>. QED BY <1>4, <1>5, <1>6, SeqEqual

-----------------------------------------------------------------------------
(* Rows. *)

Texts == Seq(Tokens \cup {Torn})

\* rows has one row for every token of t, each made from the text up to it.
Lined(rows, t) == Len(t) <= Len(rows) /\ \A i \in DOMAIN t : rows[i] = Prefix(t, i)

\* A recurrent state made from t.
Whole(t) == [conv |-> t, state |-> t]

LEMMA TextTypes ==
    /\ TornText \in Texts /\ <<>> \in Texts /\ NoRow \notin Texts
    /\ \A t \in Seq(Tokens) : t \in Texts
<1>1. Torn \in Tokens \cup {Torn}
  OBVIOUS
<1>2. \A t \in Seq(Tokens) : t \in Texts
  BY SeqMonotonic DEF Texts
<1>3. <<>> \in Texts /\ TornText \in Texts
  BY <1>1, EmptySeq DEF Texts, TornText
<1>. QED BY <1>2, <1>3, NoRowAssumption DEF Texts

\* What writing rows from position p on leaves and makes.
LEMMA WriteRows ==
    ASSUME NEW rows \in Seq(Texts), NEW new \in Seq(Texts), NEW p \in Nat
    PROVE  /\ Write(rows, p, new) \in Seq(Texts)
           /\ Len(Write(rows, p, new)) = p + Len(new)
           /\ \A i \in 1 .. p :
                 i <= Len(rows) => Write(rows, p, new)[i] = rows[i]
           /\ \A i \in 1 .. Len(new) : Write(rows, p, new)[p + i] = new[i]
<1>. DEFINE low == [i \in 1 .. p |-> IF i <= Len(rows) THEN rows[i] ELSE TornText]
<1>1. Len(rows) \in Nat /\ Len(new) \in Nat
  BY LenProperties
<1>2. \A i \in 1 .. p : (IF i <= Len(rows) THEN rows[i] ELSE TornText) \in Texts
  BY <1>1, ElementOfSeq, TextTypes
<1>3. low \in [1 .. p -> Texts]
  BY <1>2
<1>4. low \in Seq(Texts) /\ Len(low) = p
  BY <1>3
<1>5. \A i \in 1 .. p : i <= Len(rows) => low[i] = rows[i]
  OBVIOUS
<1>6. Write(rows, p, new) = low \o new
  BY DEF Write
<1>. HIDE DEF low
<1>7. /\ low \o new \in Seq(Texts) /\ Len(low \o new) = Len(low) + Len(new)
      /\ \A i \in 1 .. Len(low) + Len(new) : (low \o new)[i] =
            IF i <= Len(low) THEN low[i] ELSE new[i - Len(low)]
  BY <1>4, ConcatProperties
<1>8. ASSUME NEW i \in 1 .. p, i <= Len(rows)
      PROVE  (low \o new)[i] = rows[i]
  BY <1>1, <1>4, <1>5, <1>7, <1>8
<1>9. ASSUME NEW i \in 1 .. Len(new)
      PROVE  (low \o new)[p + i] = new[i]
  BY <1>1, <1>4, <1>7
<1>. QED BY <1>4, <1>6, <1>7, <1>8, <1>9

\* Writing behind a text leaves its rows.
LEMMA LinedKept ==
    ASSUME NEW rows \in Seq(Texts), NEW new \in Seq(Texts), NEW p \in Nat,
           NEW t \in Texts, Len(t) <= p, Lined(rows, t)
    PROVE  Lined(Write(rows, p, new), t)
<1>1. Len(t) \in Nat /\ Len(rows) \in Nat /\ Len(new) \in Nat /\ DOMAIN t = 1 .. Len(t)
  BY LenProperties DEF Texts
<1>2. ASSUME NEW i \in DOMAIN t
      PROVE  Write(rows, p, new)[i] = Prefix(t, i)
  <2>1. i \in 1 .. p /\ i <= Len(rows)
    BY <1>1 DEF Lined
  <2>2. Write(rows, p, new)[i] = rows[i]
    BY <2>1, WriteRows
  <2>. QED BY <2>2 DEF Lined
<1>3. Len(Write(rows, p, new)) = p + Len(new)
  BY WriteRows
<1>. QED BY <1>1, <1>2, <1>3 DEF Lined

\* Writing the rows of a text's continuation lines them up with both.
LEMMA LinedGrows ==
    ASSUME NEW rows \in Seq(Texts), NEW new \in Seq(Texts),
           NEW t \in Texts, NEW toks \in Texts, Lined(rows, t),
           Len(new) = Len(toks),
           \A i \in 1 .. Len(toks) : new[i] = t \o Prefix(toks, i)
    PROVE  Lined(Write(rows, Len(t), new), t \o toks)
<1>1. /\ Len(t) \in Nat /\ Len(rows) \in Nat /\ Len(new) \in Nat /\ Len(toks) \in Nat
      /\ DOMAIN t = 1 .. Len(t)
  BY LenProperties DEF Texts
<1>2. /\ t \o toks \in Texts /\ Len(t \o toks) = Len(t) + Len(toks)
      /\ \A i \in 0 .. Len(t) : Prefix(t \o toks, i) = Prefix(t, i)
      /\ \A i \in 0 .. Len(toks) : Prefix(t \o toks, Len(t) + i) = t \o Prefix(toks, i)
  BY PrefixOfConcat DEF Texts
<1>3. DOMAIN (t \o toks) = 1 .. Len(t) + Len(toks)
  BY <1>2, LenProperties DEF Texts
<1>4. /\ Len(Write(rows, Len(t), new)) = Len(t) + Len(new)
      /\ \A i \in 1 .. Len(t) : i <= Len(rows) => Write(rows, Len(t), new)[i] = rows[i]
      /\ \A i \in 1 .. Len(new) : Write(rows, Len(t), new)[Len(t) + i] = new[i]
  BY <1>1, WriteRows
<1>5. ASSUME NEW i \in 1 .. Len(t) + Len(toks)
      PROVE  Write(rows, Len(t), new)[i] = Prefix(t \o toks, i)
  <2>1. CASE i <= Len(t)
    <3>1. i \in 1 .. Len(t) /\ i \in 0 .. Len(t) /\ i <= Len(rows)
      BY <1>1, <2>1 DEF Lined
    <3>2. rows[i] = Prefix(t, i)
      BY <1>1, <3>1 DEF Lined
    <3>. QED BY <1>2, <1>4, <3>1, <3>2
  <2>2. CASE i > Len(t)
    <3>1. PICK j \in 1 .. Len(toks) : i = Len(t) + j
      <4>1. i - Len(t) \in 1 .. Len(toks) /\ i = Len(t) + (i - Len(t))
        BY <1>1, <2>2
      <4>. QED BY <4>1
    <3>2. Write(rows, Len(t), new)[Len(t) + j] = t \o Prefix(toks, j)
      BY <1>4
    <3>3. j \in 0 .. Len(toks)
      BY <1>1
    <3>. QED BY <1>2, <3>1, <3>2, <3>3
  <2>. QED BY <1>1, <2>1, <2>2
<1>. QED BY <1>1, <1>2, <1>3, <1>4, <1>5 DEF Lined

\* The rows a forward pass makes.
LEMMA RowsTypes ==
    ASSUME NEW t \in Texts, NEW toks \in Texts
    PROVE  /\ Rows(t, toks) \in Seq(Texts) /\ Len(Rows(t, toks)) = Len(toks)
           /\ \A i \in 1 .. Len(toks) : Rows(t, toks)[i] = t \o Prefix(toks, i)
<1>1. Len(toks) \in Nat /\ DOMAIN toks = 1 .. Len(toks)
  BY LenProperties DEF Texts
<1>2. \A i \in 1 .. Len(toks) : t \o Prefix(toks, i) \in Texts
  <2>. TAKE i \in 1 .. Len(toks)
  <2>1. i \in 0 .. Len(toks)
    BY <1>1
  <2>2. Prefix(toks, i) \in Texts
    BY <2>1, PrefixElements DEF Texts
  <2>. QED BY <2>2, ConcatProperties DEF Texts
<1>3. Rows(t, toks) \in [1 .. Len(toks) -> Texts]
  BY <1>1, <1>2 DEF Rows
<1>4. Rows(t, toks) \in Seq(Texts) /\ Len(Rows(t, toks)) = Len(toks)
  BY <1>1, <1>3
<1>. QED BY <1>1, <1>4 DEF Rows

\* The rows the head makes from the target's hidden states are lined up with
\* the text as well.
LEMMA MtpRowsTypes ==
    ASSUME NEW t \in Texts, NEW toks \in Seq(Tokens)
    PROVE  LET new == MtpRows(t, Rows(t, toks), toks)
           IN  /\ new \in Seq(Texts) /\ Len(new) = Len(toks)
               /\ \A i \in 1 .. Len(toks) : new[i] = t \o Prefix(toks, i)
<1>. DEFINE new == MtpRows(t, Rows(t, toks), toks)
<1>1. toks \in Texts /\ Len(toks) \in Nat /\ DOMAIN toks = 1 .. Len(toks)
  BY LenProperties, TextTypes
<1>2. /\ Rows(t, toks) \in Seq(Texts) /\ Len(Rows(t, toks)) = Len(toks)
      /\ \A i \in 1 .. Len(toks) : Rows(t, toks)[i] = t \o Prefix(toks, i)
  BY <1>1, RowsTypes
<1>3. ASSUME NEW i \in 1 .. Len(toks)
      PROVE  /\ Append(IF i = 1 THEN t ELSE Rows(t, toks)[i - 1], toks[i]) = t \o Prefix(toks, i)
             /\ t \o Prefix(toks, i) \in Texts
  <2>1. i \in 0 .. Len(toks) /\ i - 1 \in 0 .. Len(toks) /\ toks[i] \in Tokens \cup {Torn}
    BY <1>1, ElementOfSeq
  <2>2. Prefix(toks, i - 1) \in Texts /\ Prefix(toks, i) \in Texts
    BY <1>1, <2>1, PrefixElements DEF Texts
  <2>3. t \o Prefix(toks, i - 1) = IF i = 1 THEN t ELSE Rows(t, toks)[i - 1]
    <3>1. CASE i = 1
      <4>1. Prefix(toks, i - 1) = <<>>
        BY <3>1, PrefixEnds
      <4>. QED BY <3>1, <4>1, ConcatEmptySeq DEF Texts
    <3>2. CASE i # 1
      <4>1. i - 1 \in 1 .. Len(toks)
        BY <1>1, <3>2
      <4>. QED BY <1>2, <3>2, <4>1
    <3>. QED BY <3>1, <3>2
  <2>4. Append(t \o Prefix(toks, i - 1), toks[i]) = t \o Append(Prefix(toks, i - 1), toks[i])
    <3>. DEFINE u == Prefix(toks, i - 1)
                e == toks[i]
    <3>1. u \in Texts /\ e \in Tokens \cup {Torn} /\ <<e>> \in Texts
      BY <2>1, <2>2 DEF Texts
    <3>. HIDE DEF u, e
    <3>2. Append(u, e) = u \o <<e>>
      BY <3>1, AppendIsConcat DEF Texts
    <3>3. t \o u \in Texts
      BY <3>1, ConcatProperties DEF Texts
    <3>4. Append(t \o u, e) = (t \o u) \o <<e>>
      BY <3>1, <3>3, AppendIsConcat DEF Texts
    <3>5. (t \o u) \o <<e>> = t \o (u \o <<e>>)
      BY <3>1, ConcatAssociative DEF Texts
    <3>6. Append(t \o u, e) = t \o Append(u, e)
      BY <3>2, <3>4, <3>5
    <3>. QED BY <3>6 DEF u, e
  <2>5. Append(Prefix(toks, i - 1), toks[i]) = Prefix(toks, i)
    BY PrefixGrows
  <2>6. t \o Prefix(toks, i) \in Texts
    BY <2>2, ConcatProperties DEF Texts
  <2>. QED BY <2>3, <2>4, <2>5, <2>6
<1>4. new = [i \in 1 .. Len(toks) |->
                Append(IF i = 1 THEN t ELSE Rows(t, toks)[i - 1], toks[i])]
  BY <1>1 DEF MtpRows
<1>5. new \in [1 .. Len(toks) -> Texts]
  <2>1. \A i \in 1 .. Len(toks) :
          Append(IF i = 1 THEN t ELSE Rows(t, toks)[i - 1], toks[i]) \in Texts
    BY <1>3
  <2>2. [i \in 1 .. Len(toks) |->
            Append(IF i = 1 THEN t ELSE Rows(t, toks)[i - 1], toks[i])]
          \in [1 .. Len(toks) -> Texts]
    BY <2>1
  <2>. QED BY ONLY <1>4, <2>2
<1>6. new \in Seq(Texts) /\ Len(new) = Len(toks)
  BY <1>1, <1>5
<1>7. \A i \in 1 .. Len(toks) : new[i] = t \o Prefix(toks, i)
  BY <1>3, <1>4
<1>. HIDE DEF new
<1>8. /\ new \in Seq(Texts) /\ Len(new) = Len(toks)
      /\ \A i \in 1 .. Len(toks) : new[i] = t \o Prefix(toks, i)
  BY <1>6, <1>7
<1>. QED BY <1>8 DEF new


-----------------------------------------------------------------------------
(* The invariant: what every session keeps, and what one keeps whose tensors *)
(* no error has set apart from its checkpoint. *)

TextOK == checkpoint \in Seq(Tokens) /\ Len(checkpoint) <= CtxSize /\ valid \in BOOLEAN

TensorsOK ==
    /\ kv \in Seq(Texts) /\ mtp \in Seq(Texts)
    /\ recurrent \in [conv : Texts, state : Texts]
    /\ lastH \in Texts

ReadoutsOK ==
    logits \in Texts /\ host \in Texts \cup {NoRow} /\ top2 \in Texts \cup {NoRow}

ControlOK ==
    /\ build \in [serial : BOOLEAN, batched : BOOLEAN]
    /\ pc \in {"idle", "prefill", "draft", "snapshot", "verify", "commit"}
    /\ last \in Outcomes

HistoryOK == skew \in BOOLEAN /\ projected \in BOOLEAN

\* A row was written for every token, rightly or not.
Reach == Len(checkpoint) <= Len(kv) /\ (MtpOn => Len(checkpoint) <= Len(mtp))

PrefillOK ==
    /\ op \in [kind : {"sync", "rewrite", "rewind"}, prompt : Seq(Tokens), moved : BOOLEAN]
    /\ op.prompt # <<>> /\ Len(op.prompt) <= CtxSize

Blocks ==
    [kind : {"block"}, block : Seq(Tokens), stopAt : {Eos, NoToken},
     excluded : {Eos, NoToken}, frontier : [conv : Texts, state : Texts],
     rows : Seq(Texts), norm : Seq(Texts)]

\* A block fits the context, and once drafted the head has read a token.
BlockOK ==
    /\ op \in Blocks /\ op.block # <<>>
    /\ Len(checkpoint) + Len(op.block) <= CtxSize
    /\ pc = "draft" => Len(op.block) < HeadCap
    /\ pc # "draft" => Len(checkpoint) < Len(mtp)

\* The verifier has made a row for every token of the block.
RowsOK ==
    /\ Len(op.rows) = Len(op.block) /\ op.norm # <<>>
    /\ Len(checkpoint) + Len(op.block) <= Len(kv)

InBlock == {"draft", "snapshot", "verify", "commit"}

CallOK ==
    /\ pc = "idle" => op = NoOp
    /\ pc = "prefill" => PrefillOK
    /\ pc \in InBlock => BlockOK
    /\ pc = "commit" => RowsOK

SavedOK ==
    saved # NoPayload =>
        /\ saved.tokens \in Seq(Tokens) /\ Len(saved.tokens) <= CtxSize
        /\ saved.kv \in Seq(Texts) /\ Len(saved.tokens) <= Len(saved.kv)
        /\ saved.recurrent \in [conv : Texts, state : Texts]
        /\ MtpOn => /\ saved.mtp \in Seq(Texts) /\ Len(saved.tokens) <= Len(saved.mtp)
                    /\ saved.lastH \in Texts
        /\ saved.logits \in Texts
        /\ saved.skew \in BOOLEAN /\ saved.projected \in BOOLEAN

\* What holds of every session, skewed ones as well.
Standing ==
    TextOK /\ TensorsOK /\ ReadoutsOK /\ ControlOK /\ HistoryOK /\ Reach /\ CallOK /\ SavedOK

ReadoutsFollow == Argmax = checkpoint /\ LogitsToSave = checkpoint

\* The logits of the last token, once computed, are found by every reader.
Readable == projected => valid /\ ReadoutsFollow /\ (MtpOn => logits = checkpoint)

\* Between calls.  A turn that failed with nothing in its checkpoint may be
\* rewritten, so its tensors must be those of an empty text.
Idle ==
    /\ last \in {"moved", "kept"} => valid /\ checkpoint # <<>>
    /\ valid => Follows(checkpoint)
    /\ checkpoint = <<>> /\ last # "none" => Follows(checkpoint)
    /\ last = "moved" => projected
    /\ Readable

\* In a prefill the tensors follow what has been read so far, also before the
\* checkpoint is declared valid again.
Reading ==
    /\ Follows(checkpoint)
    /\ valid \/ checkpoint = <<>>
    /\ op.moved /\ LeftToRead = <<>> => projected
    /\ Readable

\* In a block the checkpoint can be gone back to: its rows are below what the
\* head and the target write, and the recurrent state is kept apart.
Speculating ==
    /\ valid /\ MtpOn
    /\ op.frontier = Whole(checkpoint)
    /\ lastH = checkpoint /\ Lined(mtp, checkpoint) /\ Lined(kv, checkpoint)
    /\ pc \in {"draft", "snapshot"} => recurrent = Whole(checkpoint) /\ Readable
    /\ pc # "draft" \/ Len(op.block) > 1 =>
          Len(checkpoint) < Len(mtp)
          /\ mtp[Len(checkpoint) + 1] = Append(checkpoint, op.block[1])
    /\ projected => logits = checkpoint

\* After the verification the target has read the whole block.
Verified ==
    /\ op.rows = Rows(checkpoint, op.block)
    /\ op.norm = IF build.serial THEN <<Last(op.rows)>> ELSE op.rows
    /\ recurrent = Whole(checkpoint \o op.block)
    /\ Lined(kv, checkpoint \o op.block)

CallInv ==
    /\ pc = "idle" => Idle
    /\ pc = "prefill" => Reading
    /\ pc \in InBlock => Speculating
    /\ pc = "commit" => Verified

\* A payload is a session that followed its text.
SavedFollows ==
    saved # NoPayload /\ ~saved.skew =>
        /\ Lined(saved.kv, saved.tokens)
        /\ saved.recurrent = Whole(saved.tokens)
        /\ MtpOn => Lined(saved.mtp, saved.tokens) /\ saved.lastH = saved.tokens
        /\ saved.projected => saved.logits = saved.tokens

SessionInv == Standing /\ SavedFollows /\ (~skew => CallInv)

LEMMA SessionInvInit == Init => SessionInv
<1>. SUFFICES ASSUME Init PROVE SessionInv
  OBVIOUS
<1>1. <<>> \in Texts /\ <<>> \in Seq(Texts) /\ <<>> \in Seq(Tokens) /\ TornText \in Texts
  BY TextTypes, EmptySeq
<1>2. Len(<<>>) = 0 /\ CtxSize \in Nat
  BY CapsAssumption
<1>3. checkpoint = <<>> /\ valid = FALSE /\ kv = <<>> /\ mtp = <<>>
  BY DEF Init
<1>4. TextOK
  <2>1. Len(checkpoint) <= CtxSize
    BY <1>2, <1>3
  <2>. QED BY <1>1, <1>3, <2>1 DEF TextOK
<1>5. TensorsOK
  BY <1>1 DEF Init, TensorsOK, Fresh
<1>6. ReadoutsOK /\ ControlOK /\ HistoryOK
  BY <1>1 DEF Init, ReadoutsOK, ControlOK, HistoryOK, Outcomes
<1>7. Reach
  BY <1>2, <1>3 DEF Reach
<1>8. CallOK /\ SavedOK /\ SavedFollows
  BY DEF Init, CallOK, SavedOK, SavedFollows, InBlock
<1>9. CallInv
  BY DEF Init, CallInv, Idle, InBlock, Readable
<1>. QED BY <1>4, <1>5, <1>6, <1>7, <1>8, <1>9 DEF SessionInv, Standing

LEMMA StandingTypes == Standing => TypeOK
<1>. SUFFICES ASSUME Standing PROVE TypeOK
  OBVIOUS
<1>1. op.kind \in {"none", "sync", "rewrite", "rewind", "block"}
  BY DEF Standing, CallOK, ControlOK, NoOp, PrefillOK, BlockOK, Blocks, InBlock
<1>2. saved = NoPayload \/ saved.tokens \in Seq(Tokens)
  BY DEF Standing, SavedOK
<1>. QED BY <1>1, <1>2 DEF Standing, TextOK, TensorsOK, ReadoutsOK, ControlOK, HistoryOK,
                           TypeOK, Texts

\* Where a caller or a callback looks, the tensors follow a valid checkpoint.
LEMMA SessionInvFollows == SessionInv => FrontierExact
<1>. SUFFICES ASSUME SessionInv, ~skew PROVE FrontierExact
  BY DEF FrontierExact
<1>1. valid /\ pc \in {"idle", "prefill", "draft"} => Follows(checkpoint)
  BY DEF SessionInv, CallInv, Idle, Reading, Speculating, InBlock, Follows, Lined, Whole
<1>2. LogitsFollow
  BY DEF SessionInv, CallInv, Idle, Readable, LogitsFollow, ReadoutsFollow
<1>. QED BY <1>1, <1>2 DEF FrontierExact

-----------------------------------------------------------------------------
(* Forward passes. *)

\* A pass sees a text of the vocabulary, or nothing that follows one.
LEMMA SeenTypes ==
    ASSUME NEW p \in Nat, NEW rec \in [conv : Texts, state : Texts]
    PROVE  Seen(p, rec) \in Texts
BY TextTypes DEF Seen

\* What it sees when the tensors follow a text.
LEMMA SeenWhole ==
    ASSUME NEW t \in Texts, Lined(kv, t)
    PROVE  Seen(Len(t), Whole(t)) = t
<1>1. Len(t) \in Nat /\ DOMAIN t = 1 .. Len(t)
  BY LenProperties DEF Texts
<1>2. Whole(t).conv = t /\ Whole(t).state = t
  BY DEF Whole
<1>3. Len(t) <= Len(kv) /\ \A i \in 1 .. Len(t) : kv[i] = Prefix(t, i)
  BY <1>1 DEF Lined
<1>. QED BY <1>2, <1>3 DEF Seen

\* One row published is what every reader of logits gets.
LEMMA PublishedRow ==
    ASSUME NEW row \in Texts, Publish(row)
    PROVE  ReadoutsOK' /\ Argmax' = row /\ LogitsToSave' = row
BY DEF Publish, ReadoutsOK, Argmax, LogitsToSave

\* A session that has read some tokens more follows the longer text.
LEMMA ReadTokensFollows ==
    ASSUME TextOK, TensorsOK, Follows(checkpoint),
           NEW toks \in Seq(Tokens), toks # <<>>,
           ReadTokens(toks, Len(checkpoint)),
           checkpoint' = checkpoint \o toks, UNCHANGED build
    PROVE  /\ Seen(Len(checkpoint), recurrent) = checkpoint
           /\ TensorsOK' /\ Follows(checkpoint)'
<1>. DEFINE t == checkpoint
            n == Len(toks)
<1>1. /\ t \in Texts /\ toks \in Texts /\ n \in Nat \ {0} /\ Len(t) \in Nat
      /\ checkpoint' \in Texts
  <2>1. checkpoint \o toks \in Seq(Tokens)
    BY ConcatProperties DEF TextOK
  <2>2. Len(toks) \in Nat \ {0} /\ Len(checkpoint) \in Nat
    BY EmptySeq, LenProperties DEF TextOK
  <2>. QED BY <2>1, <2>2, TextTypes DEF TextOK
<1>2. Lined(kv, t) /\ recurrent = Whole(t) /\ (MtpOn => lastH = t /\ Lined(mtp, t))
  BY DEF Follows, Lined, Whole
<1>3. Seen(Len(t), recurrent) = t
  BY <1>1, <1>2, SeenWhole
<1>4. /\ kv' = Write(kv, Len(t), Rows(t, toks))
      /\ recurrent' = [conv |-> t \o toks, state |-> t \o toks]
      /\ IF MtpOn THEN Catchup(toks, Len(t), Rows(t, toks))
                  ELSE lastH' = Rows(t, toks)[n] /\ UNCHANGED mtp
  BY <1>3 DEF ReadTokens
<1>5. /\ Rows(t, toks) \in Seq(Texts) /\ Len(Rows(t, toks)) = n
      /\ \A i \in 1 .. n : Rows(t, toks)[i] = t \o Prefix(toks, i)
  BY <1>1, RowsTypes
<1>6. Rows(t, toks)[n] = t \o toks
  <2>1. Prefix(toks, n) = toks
    BY PrefixEnds
  <2>2. n \in 1 .. n
    BY <1>1
  <2>3. Rows(t, toks)[n] = t \o Prefix(toks, n)
    BY <1>5, <2>2
  <2>. QED BY <2>1, <2>3
<1>7. lastH' = t \o toks
  BY <1>4, <1>6 DEF Catchup
<1>. HIDE DEF t, n
<1>8. kv' \in Seq(Texts) /\ Lined(kv', t \o toks)
  <2>1. Write(kv, Len(t), Rows(t, toks)) \in Seq(Texts)
    BY <1>1, <1>5, WriteRows DEF TensorsOK
  <2>2. Lined(Write(kv, Len(t), Rows(t, toks)), t \o toks)
    BY <1>1, <1>2, <1>5, LinedGrows DEF TensorsOK, n
  <2>. QED BY <1>4, <2>1, <2>2
<1>9. mtp' \in Seq(Texts) /\ (MtpOn => Lined(mtp', t \o toks))
  <2>1. CASE ~MtpOn
    BY <1>4, <2>1 DEF TensorsOK
  <2>2. CASE MtpOn
    <3>. DEFINE new == MtpRows(t, Rows(t, toks), toks)
    <3>1. /\ new \in Seq(Texts) /\ Len(new) = Len(toks)
          /\ \A i \in 1 .. Len(toks) : new[i] = t \o Prefix(toks, i)
      BY <1>1, MtpRowsTypes
    <3>2. mtp' = Write(mtp, Len(t), new)
      BY <1>2, <1>4, <2>2 DEF Catchup
    <3>. HIDE DEF new
    <3>3. Write(mtp, Len(t), new) \in Seq(Texts)
      BY <1>1, <3>1, WriteRows DEF TensorsOK
    <3>4. Lined(Write(mtp, Len(t), new), t \o toks)
      BY <1>1, <1>2, <2>2, <3>1, LinedGrows DEF TensorsOK
    <3>. QED BY <3>2, <3>3, <3>4
  <2>. QED BY <2>1, <2>2
<1>10. checkpoint' = t \o toks /\ t \o toks \in Texts
  BY <1>1 DEF t
<1>11. TensorsOK'
  BY <1>4, <1>7, <1>8, <1>9, <1>10 DEF TensorsOK
<1>12. MtpOn' = MtpOn
  BY DEF MtpOn
<1>13. Follows(checkpoint)'
  BY <1>4, <1>7, <1>8, <1>9, <1>10, <1>12 DEF Follows, Lined
<1>. QED BY <1>3, <1>11, <1>13 DEF t

\* The rows of the head are texts whatever it was given.
LEMMA CatchupTypes ==
    ASSUME TensorsOK, NEW toks \in Seq(Tokens), toks # <<>>, NEW p \in Nat,
           NEW hs \in Seq(Texts), Len(hs) = Len(toks), Catchup(toks, p, hs)
    PROVE  mtp' \in Seq(Texts) /\ Len(mtp') = p + Len(toks) /\ lastH' \in Texts
<1>. DEFINE new == MtpRows(lastH, hs, toks)
<1>1. /\ Len(toks) \in Nat \ {0} /\ DOMAIN toks = 1 .. Len(toks)
      /\ mtp \in Seq(Texts) /\ lastH \in Texts
  BY LenProperties, EmptySeq DEF TensorsOK
<1>2. \A i \in 1 .. Len(toks) : hs[i] \in Texts /\ toks[i] \in Tokens \cup {Torn}
  BY ElementOfSeq
<1>3. ASSUME NEW i \in 1 .. Len(toks)
      PROVE  Append(IF i = 1 THEN lastH ELSE hs[i - 1], toks[i]) \in Texts
  <2>. DEFINE h == IF i = 1 THEN lastH ELSE hs[i - 1]
  <2>1. i # 1 => i - 1 \in 1 .. Len(toks)
    BY <1>1
  <2>2. h \in Texts
    BY <1>1, <1>2, <2>1
  <2>. HIDE DEF h
  <2>3. Append(h, toks[i]) \in Texts
    BY <1>2, <2>2, AppendProperties DEF Texts
  <2>. QED BY <2>3 DEF h
<1>4. new = [i \in 1 .. Len(toks) |-> Append(IF i = 1 THEN lastH ELSE hs[i - 1], toks[i])]
  BY <1>1 DEF MtpRows
<1>5. new \in [1 .. Len(toks) -> Texts]
  <2>1. [i \in 1 .. Len(toks) |-> Append(IF i = 1 THEN lastH ELSE hs[i - 1], toks[i])]
          \in [1 .. Len(toks) -> Texts]
    BY <1>3
  <2>. QED BY ONLY <1>4, <2>1
<1>6. new \in Seq(Texts) /\ Len(new) = Len(toks)
  BY <1>1, <1>5
<1>7. mtp' = Write(mtp, p, new) /\ lastH' = hs[Len(toks)]
  BY DEF Catchup
<1>. HIDE DEF new
<1>8. Write(mtp, p, new) \in Seq(Texts) /\ Len(Write(mtp, p, new)) = p + Len(toks)
  <2>1. Len(Write(mtp, p, new)) = p + Len(new) /\ Write(mtp, p, new) \in Seq(Texts)
    BY ONLY <1>1, <1>6, p \in Nat, WriteRows
  <2>. QED BY <1>6, <2>1
<1>9. Len(toks) \in 1 .. Len(toks)
  BY <1>1
<1>. QED BY <1>2, <1>7, <1>8, <1>9

\* So are the tensors of a pass, and there is a row for every token.
LEMMA ReadTokensTypes ==
    ASSUME TextOK, TensorsOK, Reach, NEW toks \in Seq(Tokens), toks # <<>>,
           ReadTokens(toks, Len(checkpoint)),
           Len(checkpoint') = Len(checkpoint) + Len(toks), UNCHANGED build
    PROVE  TensorsOK' /\ Reach' /\ Seen(Len(checkpoint), recurrent) \o toks \in Texts
<1>. DEFINE p == Len(checkpoint)
            t == Seen(p, recurrent)
            rows == Rows(t, toks)
<1>1. p \in Nat /\ toks \in Texts /\ Len(toks) \in Nat \ {0}
  BY LenProperties, EmptySeq, TextTypes DEF TextOK
<1>2. t \in Texts
  BY <1>1, SeenTypes DEF TensorsOK
<1>3. /\ kv' = Write(kv, p, rows)
      /\ recurrent' = [conv |-> t \o toks, state |-> t \o toks]
      /\ IF MtpOn THEN Catchup(toks, p, rows)
                  ELSE lastH' = rows[Len(toks)] /\ UNCHANGED mtp
  BY DEF ReadTokens
<1>. HIDE DEF p, t
<1>4. t \o toks \in Texts
  BY <1>1, <1>2, ConcatProperties DEF Texts
<1>5. rows \in Seq(Texts) /\ Len(rows) = Len(toks)
  BY <1>1, <1>2, RowsTypes
<1>. HIDE DEF rows
<1>6. kv' \in Seq(Texts) /\ Len(kv') = p + Len(toks)
  <2>1. Len(Write(kv, p, rows)) = p + Len(rows) /\ Write(kv, p, rows) \in Seq(Texts)
    BY <1>1, <1>5, WriteRows DEF TensorsOK
  <2>. QED BY <1>3, <1>5, <2>1
<1>7. mtp' \in Seq(Texts) /\ lastH' \in Texts /\ (MtpOn => Len(mtp') = p + Len(toks))
  <2>1. CASE MtpOn
    BY <1>1, <1>3, <1>5, <2>1, CatchupTypes
  <2>2. CASE ~MtpOn
    <3>1. Len(toks) \in 1 .. Len(rows)
      BY <1>1, <1>5
    <3>2. rows[Len(toks)] \in Texts
      BY <1>5, <3>1, ElementOfSeq
    <3>. QED BY <1>3, <2>2, <3>2 DEF TensorsOK
  <2>. QED BY <2>1, <2>2
<1>8. TensorsOK'
  BY <1>3, <1>4, <1>6, <1>7 DEF TensorsOK
<1>9. Reach'
  <2>1. MtpOn' = MtpOn /\ Len(checkpoint') = p + Len(toks)
    BY DEF MtpOn, p
  <2>2. p + Len(toks) <= p + Len(toks)
    BY <1>1
  <2>. QED BY <1>6, <1>7, <2>1, <2>2 DEF Reach
<1>. QED BY <1>4, <1>8, <1>9 DEF t, p

-----------------------------------------------------------------------------
(* The ends of a call. *)

LEMMA SavedKept ==
    ASSUME UNCHANGED <<build, saved>>
    PROVE  (SavedOK => SavedOK') /\ (SavedFollows => SavedFollows')
<1>1. MtpOn' = MtpOn
  BY DEF MtpOn
<1>. QED BY <1>1 DEF SavedOK, SavedFollows

\* A call that returns leaves nothing of its own behind.
LEMMA ReturnStands ==
    ASSUME SessionInv, NEW outcome \in Outcomes, Return(outcome), UNCHANGED <<build, saved>>,
           TextOK', TensorsOK', ReadoutsOK', HistoryOK', Reach'
    PROVE  /\ Standing' /\ SavedFollows'
           /\ pc' = "idle" /\ op' = NoOp /\ last' = outcome
<1>1. ControlOK' /\ pc' = "idle" /\ op' = NoOp /\ last' = outcome
  BY DEF SessionInv, Standing, ControlOK, Return
<1>2. CallOK'
  BY <1>1 DEF CallOK, InBlock
<1>3. SavedOK' /\ SavedFollows'
  BY SavedKept DEF SessionInv, Standing
<1>. QED BY <1>1, <1>2, <1>3 DEF Standing

LEMMA EmptyFollows == Len(<<>>) = 0 /\ DOMAIN <<>> = {}
BY EmptySeq

\* An invalidated session stands on the empty text, and follows it if its
\* runtime could be reset.
LEMMA InvalidatedState ==
    ASSUME ReadoutsOK, Invalidated
    PROVE  /\ TextOK' /\ TensorsOK' /\ ReadoutsOK' /\ HistoryOK' /\ Reach'
           /\ checkpoint' = <<>> /\ valid' = FALSE /\ projected' = FALSE
           /\ ~skew' => Follows(checkpoint)'
<1>1. /\ <<>> \in Texts /\ <<>> \in Seq(Texts) /\ <<>> \in Seq(Tokens) /\ TornText \in Texts
      /\ Len(<<>>) <= CtxSize /\ Len(<<>>) <= Len(<<>>)
  BY TextTypes, EmptySeq, CapsAssumption
<1>2. checkpoint' = <<>> /\ valid' = FALSE
  BY DEF Invalidated
<1>3. /\ kv' = <<>> /\ mtp' = <<>> /\ projected' = FALSE
      /\ host' = NoRow /\ top2' = NoRow /\ logits' = logits
  BY DEF Invalidated, ResetRuntime
<1>4. \/ recurrent' = [conv |-> <<>>, state |-> <<>>] /\ lastH' = <<>> /\ skew' = FALSE
      \/ recurrent' = [conv |-> TornText, state |-> TornText]
         /\ lastH' \in {TornText, <<>>} /\ skew' = TRUE
  BY DEF Invalidated, ResetRuntime, ResetTensors, Fresh, TornState
<1>5. TextOK'
  BY <1>1, <1>2 DEF TextOK
<1>6. TensorsOK'
  BY <1>1, <1>3, <1>4 DEF TensorsOK
<1>7. ReadoutsOK' /\ HistoryOK' /\ Reach'
  BY <1>1, <1>2, <1>3, <1>4 DEF ReadoutsOK, HistoryOK, Reach
<1>8. ~skew' => Follows(checkpoint)'
  BY <1>2, <1>3, <1>4, EmptyFollows DEF Follows
<1>. QED BY <1>2, <1>3, <1>5, <1>6, <1>7, <1>8

\* So does a call that fails by invalidating.
LEMMA InvalidatingKeepsInv ==
    ASSUME SessionInv, Invalidated, NEW outcome \in {"failed", "none"}, Return(outcome),
           UNCHANGED <<build, saved>>
    PROVE  SessionInv'
<1>1. /\ TextOK' /\ TensorsOK' /\ ReadoutsOK' /\ HistoryOK' /\ Reach'
      /\ checkpoint' = <<>> /\ valid' = FALSE /\ projected' = FALSE
      /\ ~skew' => Follows(checkpoint)'
  BY InvalidatedState DEF SessionInv, Standing
<1>2. Standing' /\ SavedFollows' /\ pc' = "idle" /\ op' = NoOp /\ last' = outcome
  BY <1>1, ReturnStands DEF Outcomes
<1>3. ~skew' => CallInv'
  BY <1>1, <1>2 DEF CallInv, Idle, InBlock, Readable
<1>. QED BY <1>2, <1>3 DEF SessionInv

\* What a failed call leaves unread is neither valid nor empty text that a
\* rewrite could start from.
LEMMA FailingKeepsInv ==
    ASSUME SessionInv, ForwardFails(Len(checkpoint)), valid' = FALSE, UNCHANGED checkpoint,
           NEW outcome \in {"failed", "none"}, Return(outcome),
           ~skew => checkpoint # <<>> \/ outcome = "none", UNCHANGED <<build, saved>>
    PROVE  SessionInv'
<1>1. TextOK /\ TensorsOK /\ ReadoutsOK /\ HistoryOK
  BY DEF SessionInv, Standing
<1>2. Len(checkpoint) \in Nat /\ <<>> \in Seq(Texts) /\ TornText \in Texts /\ Len(<<>>) = 0
  BY <1>1, LenProperties, EmptySeq, TextTypes DEF TextOK
<1>3. /\ Write(kv, Len(checkpoint), <<>>) \in Seq(Texts)
      /\ Len(Write(kv, Len(checkpoint), <<>>)) = Len(checkpoint)
      /\ Write(mtp, Len(checkpoint), <<>>) \in Seq(Texts)
      /\ Len(Write(mtp, Len(checkpoint), <<>>)) = Len(checkpoint)
  <2>1. kv \in Seq(Texts) /\ mtp \in Seq(Texts)
    BY <1>1 DEF TensorsOK
  <2>2. Len(checkpoint) + Len(<<>>) = Len(checkpoint)
    BY <1>2
  <2>. QED BY <1>2, <2>1, <2>2, WriteRows
<1>4. /\ kv' = Write(kv, Len(checkpoint), <<>>) /\ mtp' = Write(mtp, Len(checkpoint), <<>>)
      /\ recurrent' = [conv |-> TornText, state |-> TornText] /\ lastH' = TornText
      /\ logits' = TornText /\ projected' = FALSE
      /\ UNCHANGED <<host, top2, skew>>
  BY DEF ForwardFails, TornState
<1>5. TextOK' /\ TensorsOK' /\ ReadoutsOK' /\ HistoryOK'
  BY <1>1, <1>2, <1>3, <1>4 DEF TextOK, TensorsOK, ReadoutsOK, HistoryOK
<1>6. Reach'
  BY <1>2, <1>3, <1>4 DEF Reach
<1>7. Standing' /\ SavedFollows' /\ pc' = "idle" /\ op' = NoOp /\ last' = outcome
  BY <1>5, <1>6, ReturnStands DEF Outcomes
<1>8. ~skew' => CallInv'
  BY <1>4, <1>7 DEF CallInv, Idle, InBlock, Readable
<1>. QED BY <1>7, <1>8 DEF SessionInv

\* Everything a state is judged by, apart from the call under way.
StateSame == UNCHANGED <<build, text, tensors, readouts, saved, history>>

LEMMA StateSameKeeps ==
    ASSUME SessionInv, StateSame
    PROVE  /\ TextOK' /\ TensorsOK' /\ ReadoutsOK' /\ HistoryOK' /\ Reach'
           /\ SavedOK' /\ SavedFollows'
           /\ Follows(checkpoint)' <=> Follows(checkpoint)
           /\ Readable' <=> Readable
           /\ UNCHANGED <<checkpoint, valid, build, saved, skew, projected>>
<1>1. UNCHANGED <<build, checkpoint, valid, kv, recurrent, lastH, mtp, logits, host, top2,
                  saved, skew, projected>>
  BY DEF StateSame, text, tensors, readouts, history
<1>2. SavedOK' /\ SavedFollows'
  BY <1>1, SavedKept DEF SessionInv, Standing
<1>3. MtpOn' = MtpOn
  BY <1>1 DEF MtpOn
<1>4. TextOK' /\ TensorsOK' /\ ReadoutsOK' /\ HistoryOK' /\ Reach'
  BY <1>1, <1>3 DEF SessionInv, Standing, TextOK, TensorsOK, ReadoutsOK, HistoryOK, Reach
<1>5. Follows(checkpoint)' <=> Follows(checkpoint)
  BY <1>1 DEF Follows, MtpOn
<1>6. Readable' <=> Readable
  BY <1>1, <1>3 DEF Readable, ReadoutsFollow, Argmax, LogitsToSave
<1>. QED BY <1>1, <1>2, <1>4, <1>5, <1>6

\* A call that ends without touching the session.
LEMMA LeavingKeepsInv ==
    ASSUME SessionInv, StateSame, NEW outcome \in Outcomes, Return(outcome),
           ~skew => /\ Follows(checkpoint) /\ Readable
                    /\ outcome \in {"moved", "kept"} => valid /\ checkpoint # <<>>
                    /\ outcome = "moved" => projected
    PROVE  SessionInv'
<1>1. /\ TextOK' /\ TensorsOK' /\ ReadoutsOK' /\ HistoryOK' /\ Reach'
      /\ Follows(checkpoint)' <=> Follows(checkpoint)
      /\ Readable' <=> Readable
      /\ UNCHANGED <<checkpoint, valid, build, saved, skew, projected>>
  BY StateSameKeeps
<1>2. Standing' /\ SavedFollows' /\ pc' = "idle" /\ op' = NoOp /\ last' = outcome
  BY <1>1, ReturnStands
<1>3. ~skew' => CallInv'
  BY <1>1, <1>2 DEF CallInv, Idle, InBlock
<1>. QED BY <1>2, <1>3 DEF SessionInv

-----------------------------------------------------------------------------
(* Prefill. *)

\* A prefill begins on tensors that follow the checkpoint, unless a reset has
\* failed.
LEMMA PrefillKeepsInv ==
    ASSUME SessionInv, NEW kind \in {"sync", "rewrite", "rewind"}, NEW p \in Seq(Tokens),
           p # <<>>, Len(p) <= CtxSize, Prefill(kind, p),
           TextOK', TensorsOK', ReadoutsOK', HistoryOK', Reach',
           ~skew' => Follows(checkpoint)' /\ Readable' /\ (valid' \/ checkpoint' = <<>>)
    PROVE  SessionInv'
<1>1. /\ pc' = "prefill" /\ op' = [kind |-> kind, prompt |-> p, moved |-> FALSE]
      /\ UNCHANGED <<build, last, saved>>
  BY DEF Prefill
<1>2. ControlOK' /\ SavedOK' /\ SavedFollows'
  BY <1>1, SavedKept DEF SessionInv, Standing, ControlOK
<1>3. PrefillOK'
  BY <1>1 DEF PrefillOK
<1>4. CallOK'
  BY <1>1, <1>3 DEF CallOK, InBlock
<1>5. ~skew' => CallInv'
  BY <1>1 DEF Reading, CallInv, InBlock
<1>. QED BY <1>2, <1>4, <1>5 DEF SessionInv, Standing

LEMMA PromptTypes ==
    ASSUME NEW p \in Prompts
    PROVE  p \in Seq(Tokens) /\ p # <<>> /\ Len(p) <= CtxSize
<1>1. p \in Seq(Tokens) /\ p # <<>> /\ Len(p) < CtxSize
  BY PromptsAssumption
<1>2. Len(p) \in Nat /\ CtxSize \in Nat
  BY <1>1, LenProperties, CapsAssumption
<1>. QED BY <1>1, <1>2

LEMMA SyncKeepsInv ==
    ASSUME SessionInv, NEW p \in Prompts, SyncExtends(p) \/ SyncRestarts(p)
    PROVE  SessionInv'
<1>1. p \in Seq(Tokens) /\ p # <<>> /\ Len(p) <= CtxSize
  BY PromptTypes
<1>2. CASE SyncExtends(p)
  <2>1. valid /\ Prefill("sync", p) /\ StateSame
    BY <1>2 DEF SyncExtends, Extends, Prefill, StateSame
  <2>2. ~skew => Follows(checkpoint) /\ Readable
    BY <1>2, <2>1 DEF SyncExtends, SessionInv, CallInv, Idle
  <2>3. /\ TextOK' /\ TensorsOK' /\ ReadoutsOK' /\ HistoryOK' /\ Reach'
        /\ valid' /\ (~skew' => Follows(checkpoint)' /\ Readable')
    BY <2>1, <2>2, StateSameKeeps
  <2>. QED BY <1>1, <2>1, <2>3, PrefillKeepsInv
<1>3. CASE SyncRestarts(p)
  <2>1. Invalidated /\ Prefill("sync", p)
    BY <1>3 DEF SyncRestarts
  <2>2. /\ TextOK' /\ TensorsOK' /\ ReadoutsOK' /\ HistoryOK' /\ Reach'
        /\ (~skew' => Follows(checkpoint)') /\ checkpoint' = <<>> /\ projected' = FALSE
    BY <2>1, InvalidatedState DEF SessionInv, Standing
  <2>3. Readable'
    BY <2>2 DEF Readable
  <2>. QED BY <1>1, <2>1, <2>2, <2>3, PrefillKeepsInv
<1>. QED BY <1>2, <1>3

\* A rewrite declares the checkpoint valid: an invalid one has no common
\* prefix with anything, so it must be empty, and then the tensors are, too.
LEMMA RewriteKeepsInv ==
    ASSUME SessionInv, NEW p \in Prompts, Rewrite(p)
    PROVE  SessionInv'
<1>1. p \in Seq(Tokens) /\ p # <<>> /\ Len(p) <= CtxSize
  BY PromptTypes
<1>2. /\ pc = "idle" /\ last # "none" /\ Common(p) = Len(checkpoint)
      /\ valid' = TRUE /\ UNCHANGED checkpoint
      /\ Prefill("rewrite", p) /\ UNCHANGED <<tensors, readouts, history, build>>
  BY DEF Rewrite, Prefill
<1>3. UNCHANGED <<checkpoint, kv, recurrent, lastH, mtp, logits, host, top2,
                  skew, projected, build>>
  BY <1>2 DEF tensors, readouts, history
<1>4. MtpOn' = MtpOn
  BY <1>3 DEF MtpOn
<1>5. TextOK' /\ TensorsOK' /\ ReadoutsOK' /\ HistoryOK' /\ Reach'
  BY <1>2, <1>3, <1>4
     DEF SessionInv, Standing, TextOK, TensorsOK, ReadoutsOK, HistoryOK, Reach
<1>6. ~skew => Follows(checkpoint) /\ Readable
  <2>. SUFFICES ASSUME ~skew PROVE Follows(checkpoint) /\ Readable
    OBVIOUS
  <2>1. Idle /\ TextOK
    BY <1>2 DEF SessionInv, Standing, CallInv
  <2>2. CASE valid
    BY <2>1, <2>2 DEF Idle
  <2>3. CASE ~valid
    <3>1. Len(checkpoint) = 0
      BY <1>2, <2>3 DEF Common
    <3>2. checkpoint = <<>>
      BY <2>1, <3>1, EmptySeq DEF TextOK
    <3>. QED BY <1>2, <2>1, <3>2 DEF Idle
  <2>. QED BY <2>2, <2>3
<1>7. ~skew' => Follows(checkpoint)' /\ Readable'
  <2>1. Follows(checkpoint)' <=> Follows(checkpoint)
    BY <1>3, <1>4 DEF Follows
  <2>2. Readable => Readable'
    BY <1>2, <1>3, <1>4 DEF Readable, ReadoutsFollow, Argmax, LogitsToSave
  <2>. QED BY <1>3, <1>6, <2>1, <2>2
<1>. QED BY <1>1, <1>2, <1>5, <1>7, PrefillKeepsInv

LEMMA RewindKeepsInv ==
    ASSUME SessionInv, NEW n \in 1 .. CtxSize, Rewind(n)
    PROVE  SessionInv'
<1>1. n \in 1 .. Len(checkpoint) - 1 /\ Invalidated /\ Prefill("rewind", Prefix(checkpoint, n))
  BY DEF Rewind
<1>2. checkpoint \in Seq(Tokens) /\ Len(checkpoint) \in Nat /\ Len(checkpoint) <= CtxSize
  BY LenProperties DEF SessionInv, Standing, TextOK
<1>3. n \in 0 .. Len(checkpoint) /\ CtxSize \in Nat
  BY <1>1, <1>2, CapsAssumption
<1>4. Prefix(checkpoint, n) \in Seq(Tokens) /\ Len(Prefix(checkpoint, n)) = n
  BY <1>2, <1>3, PrefixElements
<1>5. Prefix(checkpoint, n) # <<>> /\ Len(Prefix(checkpoint, n)) <= CtxSize
  BY <1>1, <1>4, EmptySeq
<1>6. /\ TextOK' /\ TensorsOK' /\ ReadoutsOK' /\ HistoryOK' /\ Reach'
      /\ (~skew' => Follows(checkpoint)') /\ checkpoint' = <<>> /\ projected' = FALSE
  BY <1>1, InvalidatedState DEF SessionInv, Standing
<1>7. Readable'
  BY <1>6 DEF Readable
<1>. QED BY <1>1, <1>4, <1>5, <1>6, <1>7, PrefillKeepsInv

\* A chunk is what is left to read, or leaves something.
LEMMA ChunkFacts ==
    ASSUME TextOK, PrefillOK, LeftToRead # <<>>
    PROVE  /\ NextChunk \in Seq(Tokens) /\ NextChunk # <<>>
           /\ Len(checkpoint) + Len(NextChunk) <= Len(op.prompt)
           /\ NextChunk # LeftToRead => Len(checkpoint) + Len(NextChunk) < Len(op.prompt)
<1>. DEFINE left == LeftToRead
            size == IF Len(left) < Chunk THEN Len(left) ELSE Chunk
            m == Len(checkpoint) + 1
            n == Len(op.prompt)
<1>1. /\ op.prompt \in Seq(Tokens) /\ n \in Nat /\ Len(checkpoint) \in Nat
      /\ Chunk \in Nat \ {0}
  BY LenProperties, CapsAssumption DEF TextOK, PrefillOK
<1>2. m \in Int /\ n \in Int /\ \A i \in m .. n : op.prompt[i] \in Tokens
  BY <1>1, ElementOfSeq
<1>3. SubSeq(op.prompt, m, n) \in Seq(Tokens)
      /\ Len(SubSeq(op.prompt, m, n)) = IF m <= n THEN n - m + 1 ELSE 0
  BY ONLY <1>2, SubSeqProperties
<1>4. left \in Seq(Tokens) /\ Len(left) = IF m <= n THEN n - m + 1 ELSE 0
  BY <1>3 DEF LeftToRead
<1>5. Len(left) \in Nat \ {0}
  BY <1>4, EmptySeq
<1>6. Len(left) = n - Len(checkpoint)
  BY <1>1, <1>4, <1>5
<1>7. size \in 1 .. Len(left) /\ size \in 0 .. Len(left)
  BY <1>1, <1>5
<1>8. NextChunk = Prefix(left, size)
  BY DEF NextChunk
<1>. HIDE DEF left, size, m, n
<1>9. Prefix(left, size) \in Seq(Tokens) /\ Len(Prefix(left, size)) = size
  BY <1>4, <1>7, PrefixElements
<1>10. NextChunk # <<>>
  BY <1>7, <1>8, <1>9, EmptySeq
<1>11. size = Len(left) => NextChunk = left
  BY <1>4, <1>8, PrefixEnds
<1>. QED BY <1>1, <1>6, <1>7, <1>8, <1>9, <1>10, <1>11 DEF left, n

\* After the last chunk the readouts follow the whole prompt, however many
\* chunks before it were not projected.
LEMMA ChunkKeepsInv ==
    ASSUME SessionInv, PrefillChunk
    PROVE  SessionInv'
<1>1. /\ pc = "prefill" /\ pc' = "prefill" /\ LeftToRead # <<>>
      /\ Forward(NextChunk, Len(checkpoint), NextChunk = LeftToRead)
      /\ checkpoint' = checkpoint \o NextChunk /\ valid' = TRUE
      /\ op' = [op EXCEPT !.moved = TRUE]
      /\ projected' = (NextChunk = LeftToRead)
      /\ UNCHANGED <<build, last, saved, skew>>
  BY DEF PrefillChunk
<1>2. /\ TextOK /\ TensorsOK /\ ReadoutsOK /\ ControlOK /\ HistoryOK /\ Reach
      /\ PrefillOK /\ SavedOK /\ SavedFollows
  BY <1>1 DEF SessionInv, Standing, CallOK
<1>3. /\ NextChunk \in Seq(Tokens) /\ NextChunk # <<>>
      /\ Len(checkpoint) + Len(NextChunk) <= Len(op.prompt)
      /\ NextChunk # LeftToRead => Len(checkpoint) + Len(NextChunk) < Len(op.prompt)
  BY <1>1, <1>2, ChunkFacts
<1>4. checkpoint' \in Seq(Tokens) /\ Len(checkpoint') = Len(checkpoint) + Len(NextChunk)
  BY <1>1, <1>2, <1>3, ConcatProperties DEF TextOK
<1>5. Len(checkpoint') \in Nat /\ Len(op.prompt) \in Nat /\ CtxSize \in Nat
      /\ Len(op.prompt) <= CtxSize
  BY <1>2, <1>4, LenProperties, CapsAssumption DEF PrefillOK
<1>6. TextOK'
  BY <1>1, <1>3, <1>4, <1>5 DEF TextOK
<1>7. ReadTokens(NextChunk, Len(checkpoint))
  BY <1>1 DEF Forward
<1>8. TensorsOK' /\ Reach' /\ Seen(Len(checkpoint), recurrent) \o NextChunk \in Texts
  BY <1>1, <1>2, <1>3, <1>4, <1>7, ReadTokensTypes
<1>9. ReadoutsOK'
  <2>1. CASE NextChunk = LeftToRead
    BY <1>1, <1>8, <2>1, PublishedRow DEF Forward
  <2>2. CASE NextChunk # LeftToRead
    <3>1. UNCHANGED readouts
      BY <1>1, <2>2 DEF Forward
    <3>. QED BY <1>2, <3>1 DEF readouts, ReadoutsOK
  <2>. QED BY <2>1, <2>2
<1>10. /\ op' \in [kind : {"sync", "rewrite", "rewind"}, prompt : Seq(Tokens), moved : BOOLEAN]
       /\ op'.prompt = op.prompt /\ op.prompt # <<>>
  BY <1>1, <1>2 DEF PrefillOK
<1>11. LeftToRead' = <<>> => NextChunk = LeftToRead
  <2>. SUFFICES ASSUME NextChunk # LeftToRead PROVE LeftToRead' # <<>>
    OBVIOUS
  <2>. DEFINE m == Len(checkpoint') + 1
              n == Len(op.prompt)
  <2>1. m \in Int /\ n \in Int /\ m <= n
    BY <1>3, <1>4, <1>5
  <2>2. \A i \in m .. n : op.prompt[i] \in Tokens
    BY <1>2, <1>5, ElementOfSeq DEF PrefillOK
  <2>3. LeftToRead' = SubSeq(op.prompt, m, n)
    BY <1>10 DEF LeftToRead
  <2>. HIDE DEF m, n
  <2>4. Len(SubSeq(op.prompt, m, n)) = n - m + 1
    BY <2>1, <2>2, SubSeqProperties
  <2>5. Len(LeftToRead') # 0
    BY <2>1, <2>3, <2>4
  <2>. QED BY <2>5, EmptyFollows
<1>12. Standing'
  <2>1. PrefillOK'
    BY <1>5, <1>10 DEF PrefillOK
  <2>2. CallOK'
    BY <1>1, <2>1 DEF CallOK, InBlock
  <2>3. ControlOK' /\ HistoryOK' /\ SavedOK'
    BY <1>1, <1>2, SavedKept DEF ControlOK, HistoryOK
  <2>. QED BY <1>6, <1>8, <1>9, <2>2, <2>3 DEF Standing
<1>13. ASSUME ~skew' PROVE CallInv'
  <2>1. Follows(checkpoint)
    BY <1>1, <1>13 DEF SessionInv, CallInv, Reading
  <2>2. Seen(Len(checkpoint), recurrent) = checkpoint /\ Follows(checkpoint)'
    BY <1>1, <1>2, <1>3, <1>7, <2>1, ReadTokensFollows
  <2>3. Readable'
    <3>. SUFFICES ASSUME projected' PROVE valid' /\ ReadoutsFollow' /\ logits' = checkpoint'
      BY DEF Readable
    <3>1. Publish(checkpoint')
      BY <1>1, <2>2 DEF Forward
    <3>2. checkpoint' \in Texts
      BY <1>4, TextTypes
    <3>. QED BY <1>1, <3>1, <3>2, PublishedRow DEF Publish, ReadoutsFollow
  <2>4. Reading'
    BY <1>1, <1>11, <2>2, <2>3 DEF Reading
  <2>. QED BY <1>1, <2>4 DEF CallInv, InBlock
<1>14. SavedFollows'
  BY <1>1, <1>2, SavedKept
<1>. QED BY <1>12, <1>13, <1>14 DEF SessionInv

\* How a prefill ends.
LEMMA PrefillEndKeepsInv ==
    ASSUME SessionInv, PrefillFails \/ PrefillStops \/ PrefillDone
    PROVE  SessionInv'
<1>1. pc = "prefill" /\ UNCHANGED <<build, saved>>
  BY DEF PrefillFails, PrefillStops, PrefillDone
<1>2. PrefillOK /\ (~skew => Reading)
  BY <1>1 DEF SessionInv, Standing, CallOK, CallInv
<1>3. op.kind \in {"sync", "rewrite", "rewind"}
  BY <1>2 DEF PrefillOK
<1>4. CASE Invalidated /\ (PrefillFails \/ PrefillStops)
  <2>1. PICK outcome \in {"failed", "none"} : Return(outcome)
    BY <1>3, <1>4 DEF PrefillFails, PrefillStops, PrefillReturns
  <2>. QED BY <1>1, <1>4, <2>1, InvalidatingKeepsInv
<1>5. CASE ~Invalidated /\ PrefillFails
  <2>1. /\ ForwardFails(Len(checkpoint)) /\ valid' = FALSE /\ UNCHANGED checkpoint
        /\ op.kind # "rewind"
    BY <1>5 DEF PrefillFails
  <2>2. Return("none")
    BY <1>3, <1>5, <2>1 DEF PrefillFails, PrefillReturns
  <2>. QED BY <1>1, <2>1, <2>2, FailingKeepsInv
<1>6. CASE ~Invalidated /\ PrefillStops
  <2>1. StateSame /\ op.kind # "rewind"
    BY <1>1, <1>6 DEF PrefillStops, StateSame
  <2>2. Return("none")
    BY <1>3, <1>6, <2>1 DEF PrefillStops, PrefillReturns
  <2>3. ~skew => Follows(checkpoint) /\ Readable
    BY <1>2 DEF Reading
  <2>. QED BY <2>1, <2>2, <2>3, LeavingKeepsInv DEF Outcomes
<1>7. CASE PrefillDone
  <2>1. StateSame /\ LeftToRead = <<>>
    BY <1>1, <1>7 DEF PrefillDone, StateSame
  <2>2. ~skew => valid /\ checkpoint # <<>>
    <3>. SUFFICES ASSUME ~skew, checkpoint = <<>> PROVE FALSE
      BY <1>2 DEF Reading
    <3>1. checkpoint = <<>> /\ op.prompt # <<>> /\ op.prompt \in Seq(Tokens)
      BY <1>2 DEF PrefillOK
    <3>2. SubSeq(op.prompt, 1, Len(op.prompt)) = <<>>
      BY <2>1, <3>1, EmptySeq DEF LeftToRead
    <3>. QED BY <3>1, <3>2, SubSeqFull
  <2>3. PICK outcome \in Outcomes :
           Return(outcome) /\ (outcome = "moved" => op.moved)
    <3>1. op.moved \in BOOLEAN
      BY <1>2 DEF PrefillOK
    <3>2. \/ Return("none") \/ Return("failed") \/ Return("kept")
          \/ Return("moved") /\ op.moved
      BY <1>3, <1>7, <3>1 DEF PrefillDone, PrefillReturns
    <3>. QED BY <3>2 DEF Outcomes
  <2>4. ~skew => Follows(checkpoint) /\ Readable /\ (outcome = "moved" => projected)
    BY <1>2, <2>1, <2>3 DEF Reading
  <2>. QED BY <2>1, <2>2, <2>3, <2>4, LeavingKeepsInv
<1>. QED BY <1>4, <1>5, <1>6, <1>7

-----------------------------------------------------------------------------
(* Decode. *)

\* A caller that may decode has room for a token and a valid session.
LEMMA DecodingState ==
    ASSUME SessionInv, CanDecode
    PROVE  /\ pc = "idle" /\ Len(checkpoint) \in Nat /\ Len(checkpoint) < CtxSize
           /\ ~skew => /\ Idle /\ valid /\ checkpoint # <<>> /\ Follows(checkpoint)
                       /\ Readable
<1>1. pc = "idle" /\ last \in {"moved", "kept"} /\ CtxSize - Len(checkpoint) > 0
  BY DEF CanDecode, Room
<1>2. Len(checkpoint) \in Nat /\ CtxSize \in Nat
  BY LenProperties, CapsAssumption DEF SessionInv, Standing, TextOK
<1>3. ~skew => Idle
  BY <1>1 DEF SessionInv, CallInv
<1>. QED BY <1>1, <1>2, <1>3 DEF Idle

\* One token more.
LEMMA AppendedText ==
    ASSUME TextOK, Len(checkpoint) < CtxSize, NEW token \in Tokens,
           checkpoint' = Append(checkpoint, token), valid' = TRUE
    PROVE  /\ TextOK' /\ checkpoint' \in Texts /\ checkpoint' # <<>>
           /\ <<token>> \in Seq(Tokens) /\ <<token>> # <<>>
           /\ checkpoint' = checkpoint \o <<token>>
<1>1. /\ checkpoint' \in Seq(Tokens) /\ Len(checkpoint') = Len(checkpoint) + 1
      /\ checkpoint' # <<>> /\ checkpoint' = checkpoint \o <<token>>
  BY AppendProperties, AppendIsConcat DEF TextOK
<1>2. Len(checkpoint) \in Nat /\ CtxSize \in Nat
  BY LenProperties, CapsAssumption DEF TextOK
<1>3. TextOK'
  BY <1>1, <1>2 DEF TextOK
<1>4. <<token>> \in Seq(Tokens) /\ <<token>> # <<>>
  OBVIOUS
<1>. QED BY <1>1, <1>3, <1>4, TextTypes

\* A token read alone or in a batch: where its logits lie differs.
LEMMA EvalKeepsInv ==
    ASSUME SessionInv, NEW token \in Tokens, Eval(token) \/ EvalInBatch(token)
    PROVE  SessionInv'
<1>1. /\ CanDecode /\ ReadTokens(<<token>>, Len(checkpoint))
      /\ checkpoint' = Append(checkpoint, token) /\ valid' = TRUE /\ projected' = TRUE
      /\ Return("moved") /\ UNCHANGED <<build, saved, skew>>
  BY DEF Eval, EvalInBatch, Forward
<1>2. TextOK /\ TensorsOK /\ ReadoutsOK /\ HistoryOK /\ Reach
  BY DEF SessionInv, Standing
<1>3. Len(checkpoint) \in Nat /\ Len(checkpoint) < CtxSize
  BY <1>1, DecodingState
<1>4. /\ TextOK' /\ checkpoint' \in Texts /\ checkpoint' # <<>>
      /\ <<token>> \in Seq(Tokens) /\ <<token>> # <<>>
      /\ checkpoint' = checkpoint \o <<token>>
  BY <1>1, <1>2, <1>3, AppendedText
<1>. DEFINE seen == Seen(Len(checkpoint), recurrent)
            row == Append(seen, token)
<1>5. TensorsOK' /\ Reach' /\ seen \o <<token>> \in Texts
  <2>1. Len(checkpoint') = Len(checkpoint) + Len(<<token>>)
    BY <1>1, <1>2, AppendProperties DEF TextOK
  <2>. QED BY <1>1, <1>2, <1>4, <2>1, ReadTokensTypes
<1>6. row \in Texts
  <2>1. seen \in Texts
    BY <1>2, <1>3, SeenTypes DEF TensorsOK
  <2>. HIDE DEF seen
  <2>. QED BY <2>1, AppendProperties DEF Texts
<1>7. ReadoutsOK'
  <2>1. CASE Eval(token)
    BY <1>5, <2>1, PublishedRow DEF Eval, Forward
  <2>2. CASE EvalInBatch(token)
    <3>1. host' = row /\ top2' = NoRow /\ logits' = logits
      BY <2>2 DEF EvalInBatch
    <3>. QED BY <1>2, <1>6, <3>1 DEF ReadoutsOK
  <2>. QED BY <2>1, <2>2
<1>8. HistoryOK'
  BY <1>1, <1>2 DEF HistoryOK
<1>9. Standing' /\ SavedFollows' /\ pc' = "idle" /\ op' = NoOp /\ last' = "moved"
  BY <1>1, <1>4, <1>5, <1>7, <1>8, ReturnStands DEF Outcomes
<1>10. ASSUME ~skew' PROVE CallInv'
  <2>1. Follows(checkpoint)
    BY <1>1, <1>10, DecodingState
  <2>2. seen = checkpoint /\ Follows(checkpoint)'
    BY <1>1, <1>2, <1>4, <2>1, ReadTokensFollows
  <2>3. ReadoutsFollow' /\ (MtpOn' => logits' = checkpoint')
    <3>1. CASE Eval(token)
      <4>1. Publish(checkpoint')
        BY <1>4, <2>2, <3>1 DEF Eval, Forward
      <4>. QED BY <1>4, <4>1, PublishedRow DEF Publish, ReadoutsFollow
    <3>2. CASE EvalInBatch(token)
      <4>1. host' = checkpoint' /\ top2' = NoRow /\ logits' = logits /\ ~MtpOn'
        BY <1>1, <2>2, <3>2 DEF EvalInBatch, MtpOn
      <4>2. checkpoint' # NoRow
        BY <1>4, TextTypes
      <4>. QED BY <4>1, <4>2 DEF ReadoutsFollow, Argmax, LogitsToSave
    <3>. QED BY <3>1, <3>2
  <2>. QED BY <1>1, <1>4, <1>9, <2>2, <2>3 DEF CallInv, Idle, InBlock, Readable
<1>. QED BY <1>9, <1>10 DEF SessionInv

\* Only an invalidation empties a checkpoint that has been decoded from.
LEMMA DecodeFailKeepsInv ==
    ASSUME SessionInv, EvalFails \/ Invalidate
    PROVE  SessionInv'
<1>1. CASE Invalidate
  BY <1>1, InvalidatingKeepsInv DEF Invalidate
<1>2. CASE EvalFails
  <2>1. CanDecode /\ Return("failed") /\ UNCHANGED <<build, saved>>
    BY <1>2 DEF EvalFails
  <2>2. ~skew => valid /\ checkpoint # <<>> /\ Follows(checkpoint) /\ Readable
    BY <2>1, DecodingState
  <2>3. CASE UNCHANGED <<text, tensors, readouts, history>>
    BY <2>1, <2>2, <2>3, LeavingKeepsInv DEF StateSame, Outcomes
  <2>4. CASE ForwardFails(Len(checkpoint)) /\ valid' = FALSE /\ UNCHANGED checkpoint
    BY <2>1, <2>2, <2>4, FailingKeepsInv
  <2>. QED BY <1>2, <2>3, <2>4 DEF EvalFails
<1>. QED BY <1>1, <1>2

LEMMA ReadLogitsKeepsInv ==
    ASSUME SessionInv, ReadLogits
    PROVE  SessionInv'
<1>1. /\ pc = "idle" /\ host = NoRow /\ host' = logits
      /\ UNCHANGED <<build, checkpoint, valid, kv, recurrent, lastH, mtp, logits, top2,
                     pc, op, last, saved, skew, projected>>
  BY DEF ReadLogits, text, tensors, history
<1>2. MtpOn' = MtpOn
  BY <1>1 DEF MtpOn
<1>3. Standing'
  <2>1. TextOK' /\ TensorsOK' /\ ReadoutsOK' /\ ControlOK' /\ HistoryOK' /\ Reach'
    BY <1>1, <1>2 DEF SessionInv, Standing, TextOK, TensorsOK, ReadoutsOK, ControlOK,
                      HistoryOK, Reach
  <2>2. CallOK' /\ SavedOK'
    BY <1>1, SavedKept DEF SessionInv, Standing, CallOK, InBlock
  <2>. QED BY <2>1, <2>2 DEF Standing
<1>4. Follows(checkpoint)' <=> Follows(checkpoint)
  BY <1>1, <1>2 DEF Follows
<1>5. LogitsToSave' = LogitsToSave /\ Argmax' = Argmax
  BY <1>1 DEF LogitsToSave, Argmax
<1>6. Readable' <=> Readable
  BY <1>1, <1>2, <1>5 DEF Readable, ReadoutsFollow
<1>7. ~skew' => CallInv'
  BY <1>1, <1>4, <1>6 DEF SessionInv, CallInv, Idle, InBlock
<1>8. SavedFollows'
  BY <1>1, SavedKept DEF SessionInv
<1>. QED BY <1>3, <1>7, <1>8 DEF SessionInv

-----------------------------------------------------------------------------
(* Saved payloads. *)

\* The rows of a payload are the first of the session's.
LEMMA SavedRows ==
    ASSUME TextOK, NEW rows \in Seq(Texts), Len(checkpoint) <= Len(rows)
    PROVE  /\ Prefix(rows, Len(checkpoint)) \in Seq(Texts)
           /\ Len(Prefix(rows, Len(checkpoint))) = Len(checkpoint)
           /\ Lined(rows, checkpoint) => Lined(Prefix(rows, Len(checkpoint)), checkpoint)
<1>1. /\ Len(checkpoint) \in Nat /\ DOMAIN checkpoint = 1 .. Len(checkpoint)
      /\ Len(rows) \in Nat
  BY LenProperties DEF TextOK
<1>2. Len(checkpoint) \in 0 .. Len(rows)
  BY <1>1
<1>3. /\ Prefix(rows, Len(checkpoint)) \in Seq(Texts)
      /\ Len(Prefix(rows, Len(checkpoint))) = Len(checkpoint)
      /\ \A i \in 1 .. Len(checkpoint) : Prefix(rows, Len(checkpoint))[i] = rows[i]
  BY <1>2, PrefixElements
<1>4. ASSUME Lined(rows, checkpoint)
      PROVE  Lined(Prefix(rows, Len(checkpoint)), checkpoint)
  <2>1. \A i \in 1 .. Len(checkpoint) : rows[i] = Prefix(checkpoint, i)
    BY <1>1, <1>4 DEF Lined
  <2>2. \A i \in DOMAIN checkpoint :
          Prefix(rows, Len(checkpoint))[i] = Prefix(checkpoint, i)
    BY <1>1, <1>3, <2>1
  <2>. QED BY <1>1, <1>3, <2>2 DEF Lined
<1>. QED BY <1>3, <1>4

LEMMA SaveKeepsInv ==
    ASSUME SessionInv, SavePayload
    PROVE  SessionInv'
<1>1. /\ valid
      /\ \/ pc = "idle"
         \/ pc = "prefill" /\ op.kind = "sync" /\ op.moved
      /\ saved' = [tokens |-> checkpoint, logits |-> LogitsToSave,
                   kv |-> Prefix(kv, Len(checkpoint)), recurrent |-> recurrent,
                   mtp |-> IF MtpOn THEN Prefix(mtp, Len(checkpoint)) ELSE <<>>,
                   lastH |-> lastH, skew |-> skew, projected |-> projected]
      /\ UNCHANGED <<build, text, tensors, readouts, pc, op, last, history>>
  BY DEF SavePayload
<1>2. UNCHANGED <<checkpoint, valid, kv, recurrent, lastH, mtp, logits, host, top2,
                  skew, projected>>
  BY <1>1 DEF text, tensors, readouts, history
<1>3. TextOK /\ TensorsOK /\ ReadoutsOK /\ ControlOK /\ HistoryOK /\ Reach /\ CallOK
  BY DEF SessionInv, Standing
<1>4. MtpOn' = MtpOn
  BY <1>1 DEF MtpOn
<1>5. /\ saved'.tokens = checkpoint /\ saved'.logits = LogitsToSave
      /\ saved'.kv = Prefix(kv, Len(checkpoint)) /\ saved'.recurrent = recurrent
      /\ MtpOn => saved'.mtp = Prefix(mtp, Len(checkpoint))
      /\ saved'.lastH = lastH /\ saved'.skew = skew /\ saved'.projected = projected
  BY <1>1
<1>6. /\ Prefix(kv, Len(checkpoint)) \in Seq(Texts)
      /\ Len(Prefix(kv, Len(checkpoint))) = Len(checkpoint)
      /\ Lined(kv, checkpoint) => Lined(Prefix(kv, Len(checkpoint)), checkpoint)
  BY <1>3, SavedRows DEF TensorsOK, Reach
<1>7. MtpOn => /\ Prefix(mtp, Len(checkpoint)) \in Seq(Texts)
               /\ Len(Prefix(mtp, Len(checkpoint))) = Len(checkpoint)
               /\ Lined(mtp, checkpoint) => Lined(Prefix(mtp, Len(checkpoint)), checkpoint)
  BY <1>3, SavedRows DEF TensorsOK, Reach
<1>8. Standing'
  <2>1. LogitsToSave \in Texts /\ Len(checkpoint) <= Len(checkpoint)
    BY <1>3, LenProperties DEF LogitsToSave, ReadoutsOK, TextOK
  <2>2. SavedOK'
    BY <1>3, <1>4, <1>5, <1>6, <1>7, <2>1
       DEF SavedOK, TextOK, TensorsOK, HistoryOK
  <2>3. TextOK' /\ TensorsOK' /\ ReadoutsOK' /\ ControlOK' /\ HistoryOK' /\ Reach'
    BY <1>1, <1>2, <1>3, <1>4 DEF TextOK, TensorsOK, ReadoutsOK, ControlOK, HistoryOK, Reach
  <2>4. CallOK'
    <3>1. PrefillOK' <=> PrefillOK
      BY <1>1 DEF PrefillOK
    <3>. QED BY <1>1, <1>3, <3>1 DEF CallOK, InBlock
  <2>. QED BY <2>2, <2>3, <2>4 DEF Standing
<1>9. ~skew => Follows(checkpoint) /\ Readable
  BY <1>1 DEF SessionInv, CallInv, Idle, Reading
<1>10. SavedFollows'
  <2>. SUFFICES ASSUME ~skew PROVE SavedFollows'
    BY <1>5 DEF SavedFollows
  <2>1. /\ Lined(kv, checkpoint) /\ recurrent = Whole(checkpoint)
        /\ MtpOn => lastH = checkpoint /\ Lined(mtp, checkpoint)
    BY <1>9 DEF Follows, Lined, Whole
  <2>2. projected => LogitsToSave = checkpoint
    BY <1>9 DEF Readable, ReadoutsFollow
  <2>. QED BY <1>4, <1>5, <1>6, <1>7, <2>1, <2>2 DEF SavedFollows
<1>11. ~skew' => CallInv'
  <2>1. Follows(checkpoint)' <=> Follows(checkpoint)
    BY <1>2, <1>4 DEF Follows
  <2>2. Readable' <=> Readable
    BY <1>2, <1>4 DEF Readable, ReadoutsFollow, Argmax, LogitsToSave
  <2>3. LeftToRead' = LeftToRead
    BY <1>1, <1>2 DEF LeftToRead
  <2>. QED BY <1>1, <1>2, <2>1, <2>2, <2>3 DEF SessionInv, CallInv, Idle, Reading, InBlock
<1>. QED BY <1>8, <1>10, <1>11 DEF SessionInv

LEMMA LoadKeepsInv ==
    ASSUME SessionInv, LoadPayload \/ LoadFails
    PROVE  SessionInv'
<1>1. CASE LoadFails
  BY <1>1, InvalidatingKeepsInv DEF LoadFails
<1>2. CASE LoadPayload
  <2>1. /\ saved # NoPayload
        /\ checkpoint' = saved.tokens /\ valid' = TRUE
        /\ kv' = saved.kv /\ recurrent' = saved.recurrent
        /\ IF MtpOn THEN mtp' = saved.mtp /\ lastH' = saved.lastH
                    ELSE lastH' = <<>> /\ UNCHANGED mtp
        /\ logits' = saved.logits /\ host' = NoRow /\ top2' = NoRow
        /\ skew' = saved.skew /\ projected' = saved.projected
        /\ Return("none") /\ UNCHANGED <<build, saved>>
    BY <1>2 DEF LoadPayload
  <2>2. /\ saved.tokens \in Seq(Tokens) /\ Len(saved.tokens) <= CtxSize
        /\ saved.kv \in Seq(Texts) /\ Len(saved.tokens) <= Len(saved.kv)
        /\ saved.recurrent \in [conv : Texts, state : Texts]
        /\ MtpOn => /\ saved.mtp \in Seq(Texts) /\ Len(saved.tokens) <= Len(saved.mtp)
                    /\ saved.lastH \in Texts
        /\ saved.logits \in Texts
        /\ saved.skew \in BOOLEAN /\ saved.projected \in BOOLEAN
    BY <2>1 DEF SessionInv, Standing, SavedOK
  <2>3. MtpOn' = MtpOn
    BY <2>1 DEF MtpOn
  <2>4. TextOK' /\ ReadoutsOK' /\ HistoryOK' /\ Reach'
    BY <2>1, <2>2, <2>3 DEF TextOK, ReadoutsOK, HistoryOK, Reach
  <2>5. TensorsOK'
    <3>1. mtp' \in Seq(Texts) /\ lastH' \in Texts
      BY <2>1, <2>2, TextTypes DEF SessionInv, Standing, TensorsOK
    <3>. QED BY <2>1, <2>2, <3>1 DEF TensorsOK
  <2>6. Standing' /\ SavedFollows' /\ pc' = "idle" /\ op' = NoOp /\ last' = "none"
    BY <2>1, <2>4, <2>5, ReturnStands DEF Outcomes
  <2>7. ASSUME ~skew' PROVE CallInv'
    <3>1. /\ Lined(saved.kv, saved.tokens)
          /\ saved.recurrent = Whole(saved.tokens)
          /\ MtpOn => Lined(saved.mtp, saved.tokens) /\ saved.lastH = saved.tokens
          /\ saved.projected => saved.logits = saved.tokens
      BY <2>1, <2>7 DEF SessionInv, SavedFollows
    <3>2. Follows(checkpoint)'
      BY <2>1, <2>3, <3>1 DEF Follows, Lined, Whole
    <3>3. Readable'
      BY <2>1, <3>1 DEF Readable, ReadoutsFollow, Argmax, LogitsToSave
    <3>. QED BY <2>1, <2>6, <3>2, <3>3 DEF CallInv, Idle, InBlock
  <2>. QED BY <2>6, <2>7 DEF SessionInv
<1>. QED BY <1>1, <1>2

-----------------------------------------------------------------------------
(* Drafting a block. *)

LEMMA MinOfTwo ==
    ASSUME NEW a \in Int, NEW b \in Int
    PROVE  /\ Min({a, b}) \in Int /\ Min({a, b}) <= a /\ Min({a, b}) <= b
           /\ Min({a, b}) \in {a, b}
<1>1. \E x \in {a, b} : \A y \in {a, b} : x =< y
  <2>1. CASE a =< b
    BY <2>1
  <2>2. CASE b =< a
    BY <2>2
  <2>. QED BY <2>1, <2>2
<1>2. Min({a, b}) \in {a, b} /\ \A y \in {a, b} : Min({a, b}) =< y
  BY <1>1 DEF Min
<1>. QED BY <1>2

LEMMA MinOfThree ==
    ASSUME NEW a \in Int, NEW b \in Int, NEW c \in Int
    PROVE  /\ Min({a, b, c}) \in Int
           /\ Min({a, b, c}) <= a /\ Min({a, b, c}) <= b /\ Min({a, b, c}) <= c
<1>1. \E x \in {a, b, c} : \A y \in {a, b, c} : x =< y
  <2>1. CASE a =< b /\ a =< c
    BY <2>1
  <2>2. CASE b =< a /\ b =< c
    BY <2>2
  <2>3. CASE c =< a /\ c =< b
    BY <2>3
  <2>. QED BY <2>1, <2>2, <2>3
<1>2. Min({a, b, c}) \in {a, b, c} /\ \A y \in {a, b, c} : Min({a, b, c}) =< y
  BY <1>1 DEF Min
<1>. QED BY <1>2

\* A block never outgrows the context.
LEMMA CapFacts ==
    ASSUME TextOK
    PROVE  /\ Len(checkpoint) \in Nat /\ CtxSize \in Nat
           /\ BlockCap \in Int /\ Len(checkpoint) + BlockCap <= CtxSize
           /\ HeadCap \in Int /\ Len(checkpoint) + HeadCap <= CtxSize
           /\ BlockCap > 1 => HeadCap > 1
<1>1. /\ Len(checkpoint) \in Nat /\ CtxSize \in Nat /\ DraftCap \in Nat /\ Chunk \in Nat
      /\ MtpCap \in Nat /\ MtpCap > 1 /\ Room \in Int
  BY LenProperties, CapsAssumption DEF TextOK, Room
<1>2. BlockCap \in Int /\ BlockCap <= Room
  <2>1. DraftCap \in Int /\ Chunk \in Int /\ Room \in Int
    BY <1>1
  <2>2. Min({DraftCap, Chunk, Room}) \in Int /\ Min({DraftCap, Chunk, Room}) <= Room
    BY ONLY <2>1, MinOfThree
  <2>. QED BY ONLY <2>2 DEF BlockCap
<1>3. /\ HeadCap \in Int /\ HeadCap <= BlockCap /\ (HeadCap = MtpCap \/ HeadCap = BlockCap)
  <2>1. MtpCap \in Int
    BY <1>1
  <2>2. /\ Min({MtpCap, BlockCap}) \in Int /\ Min({MtpCap, BlockCap}) <= BlockCap
        /\ Min({MtpCap, BlockCap}) \in {MtpCap, BlockCap}
    BY ONLY <1>2, <2>1, MinOfTwo
  <2>. QED BY ONLY <2>2 DEF HeadCap
<1>. QED BY <1>1, <1>2, <1>3 DEF Room

\* A block begins with the frontier it can go back to.
LEMMA BeginKeepsInv ==
    ASSUME SessionInv, NEW first \in Tokens,
           NEW stopAt \in {Eos, NoToken}, NEW excluded \in {Eos, NoToken},
           Begin(first, stopAt, excluded)
    PROVE  SessionInv'
<1>1. /\ CanDecode /\ MtpOn /\ BlockCap > 1 /\ pc' = "draft"
      /\ op' = [kind |-> "block", block |-> <<first>>, stopAt |-> stopAt,
                excluded |-> excluded, frontier |-> recurrent, rows |-> <<>>, norm |-> <<>>]
      /\ StateSame /\ UNCHANGED last
  BY DEF Begin, StateSame
<1>2. Len(checkpoint) \in Nat /\ Len(checkpoint) < CtxSize
  BY <1>1, DecodingState
<1>3. TextOK /\ TensorsOK /\ ControlOK
  BY DEF SessionInv, Standing
<1>4. UNCHANGED <<build, checkpoint, valid, kv, recurrent, lastH, mtp, logits, host, top2,
                  skew, projected>>
  BY <1>1 DEF StateSame, text, tensors, readouts, history
<1>5. /\ TextOK' /\ TensorsOK' /\ ReadoutsOK' /\ HistoryOK' /\ Reach' /\ SavedOK'
      /\ SavedFollows' /\ (Readable' <=> Readable)
  BY <1>1, StateSameKeeps
<1>6. op' \in Blocks /\ op'.block = <<first>> /\ op'.frontier = recurrent
  <2>1. <<first>> \in Seq(Tokens) /\ <<>> \in Seq(Texts)
    OBVIOUS
  <2>. QED BY <1>1, <1>3, <2>1 DEF Blocks, TensorsOK
<1>7. <<first>> # <<>> /\ Len(<<first>>) = 1
  OBVIOUS
<1>8. 1 < HeadCap /\ CtxSize \in Nat
  BY <1>1, <1>3, CapFacts
<1>9. HeadCap' = HeadCap /\ MtpOn' = MtpOn
  BY <1>4 DEF HeadCap, BlockCap, Room, MtpOn
<1>10. Standing'
  <2>1. BlockOK'
    BY <1>1, <1>2, <1>4, <1>6, <1>7, <1>8, <1>9 DEF BlockOK
  <2>2. ControlOK' /\ CallOK'
    BY <1>1, <1>3, <1>4, <2>1 DEF ControlOK, CallOK
  <2>. QED BY <1>5, <2>2 DEF Standing
<1>11. ASSUME ~skew' PROVE CallInv'
  <2>1. valid /\ Follows(checkpoint) /\ Readable
    BY <1>1, <1>4, <1>11, DecodingState
  <2>2. /\ Lined(kv, checkpoint) /\ recurrent = Whole(checkpoint)
        /\ lastH = checkpoint /\ Lined(mtp, checkpoint)
        /\ projected => logits = checkpoint
    BY <1>1, <2>1 DEF Follows, Lined, Whole, Readable
  <2>3. Speculating'
    BY <1>1, <1>4, <1>5, <1>6, <1>7, <1>9, <2>1, <2>2 DEF Speculating
  <2>. QED BY <1>1, <2>3 DEF CallInv
<1>. QED BY <1>5, <1>10, <1>11 DEF SessionInv

\* The head writes behind the checkpoint.
LEMMA HeadRowTypes ==
    ASSUME TextOK, TensorsOK, BlockOK, Reach, HeadReads, UNCHANGED <<build, checkpoint>>
    PROVE  /\ TensorsOK' /\ Reach' /\ Len(checkpoint) < Len(mtp')
           /\ UNCHANGED <<kv, recurrent, lastH>>
<1>. DEFINE n == Len(op.block)
            h == IF n = 1 THEN lastH ELSE TornText
            row == Append(h, Last(op.block))
            p == Len(checkpoint) + n - 1
<1>1. op.block \in Seq(Tokens) /\ op.block # <<>>
  BY DEF BlockOK, Blocks
<1>2. /\ n \in Nat \ {0} /\ Len(checkpoint) \in Nat /\ op.block[n] \in Tokens
  BY <1>1, EmptySeq, LenProperties, ElementOfSeq DEF TextOK
<1>3. h \in Texts /\ p \in Nat /\ p = Len(checkpoint) + n - 1
  BY <1>2, TextTypes DEF TensorsOK
<1>4. row \in Texts
  BY <1>2, <1>3, AppendProperties DEF Last, Texts
<1>5. mtp' = Write(mtp, p, <<row>>) /\ UNCHANGED <<kv, recurrent, lastH>>
  BY DEF HeadReads, Start
<1>. HIDE DEF row, h, p, n
<1>6. <<row>> \in Seq(Texts) /\ Len(<<row>>) = 1
  BY <1>4
<1>7. Write(mtp, p, <<row>>) \in Seq(Texts) /\ Len(Write(mtp, p, <<row>>)) = p + 1
  <2>1. /\ Write(mtp, p, <<row>>) \in Seq(Texts)
        /\ Len(Write(mtp, p, <<row>>)) = p + Len(<<row>>)
    BY <1>3, <1>6, WriteRows DEF TensorsOK
  <2>. QED BY <1>6, <2>1
<1>8. Len(checkpoint) < Len(mtp') /\ Len(checkpoint) <= Len(mtp')
  BY <1>2, <1>3, <1>5, <1>7
<1>9. TensorsOK' /\ Reach'
  BY <1>5, <1>7, <1>8 DEF TensorsOK, Reach, MtpOn
<1>. QED BY <1>5, <1>8, <1>9

\* Its first row is made from the target's hidden state.
LEMMA HeadRow ==
    ASSUME TextOK, TensorsOK, BlockOK, Speculating, HeadReads, pc = "draft"
    PROVE  /\ Lined(mtp', checkpoint)
           /\ mtp'[Len(checkpoint) + 1] = Append(checkpoint, op.block[1])
<1>. DEFINE n == Len(op.block)
            h == IF n = 1 THEN lastH ELSE TornText
            row == Append(h, Last(op.block))
            p == Len(checkpoint) + n - 1
<1>1. op.block \in Seq(Tokens) /\ op.block # <<>>
  BY DEF BlockOK, Blocks
<1>2. /\ n \in Nat \ {0} /\ Len(checkpoint) \in Nat /\ Len(mtp) \in Nat
      /\ checkpoint \in Texts /\ op.block[n] \in Tokens
  BY <1>1, EmptySeq, LenProperties, ElementOfSeq, TextTypes DEF TextOK, TensorsOK
<1>3. h \in Texts /\ p \in Nat
  BY <1>2, TextTypes DEF TensorsOK
<1>4. row \in Texts
  BY <1>2, <1>3, AppendProperties DEF Last, Texts
<1>5. mtp' = Write(mtp, p, <<row>>)
  BY DEF HeadReads, Start
<1>6. lastH = checkpoint /\ Lined(mtp, checkpoint)
      /\ (n > 1 => /\ Len(checkpoint) < Len(mtp)
                   /\ mtp[Len(checkpoint) + 1] = Append(checkpoint, op.block[1]))
  BY DEF Speculating
<1>7. n = 1 => row = Append(checkpoint, op.block[1])
  BY <1>6 DEF Last
<1>. HIDE DEF row, h, p, n
<1>8. <<row>> \in Seq(Texts) /\ Len(<<row>>) = 1 /\ <<row>>[1] = row
  BY <1>4
<1>9. /\ \A i \in 1 .. p : i <= Len(mtp) => Write(mtp, p, <<row>>)[i] = mtp[i]
      /\ Write(mtp, p, <<row>>)[p + 1] = row
  <2>1. \A i \in 1 .. Len(<<row>>) : Write(mtp, p, <<row>>)[p + i] = <<row>>[i]
    BY <1>3, <1>8, WriteRows DEF TensorsOK
  <2>2. 1 \in 1 .. Len(<<row>>)
    BY <1>8
  <2>3. \A i \in 1 .. p : i <= Len(mtp) => Write(mtp, p, <<row>>)[i] = mtp[i]
    BY <1>3, <1>8, WriteRows DEF TensorsOK
  <2>. QED BY <1>8, <2>1, <2>2, <2>3
<1>10. p = Len(checkpoint) + n - 1
  BY DEF p
<1>11. Lined(Write(mtp, p, <<row>>), checkpoint)
  <2>1. mtp \in Seq(Texts) /\ Len(checkpoint) <= p /\ Lined(mtp, checkpoint)
    BY <1>2, <1>6, <1>10 DEF TensorsOK
  <2>. QED BY ONLY <1>2, <1>3, <1>8, <2>1, LinedKept
<1>12. Write(mtp, p, <<row>>)[Len(checkpoint) + 1] = Append(checkpoint, op.block[1])
  <2>1. CASE n = 1
    BY <1>2, <1>7, <1>9, <1>10, <2>1
  <2>2. CASE n > 1
    <3>1. Len(checkpoint) + 1 \in 1 .. p /\ Len(checkpoint) + 1 <= Len(mtp)
      BY <1>2, <1>6, <1>10, <2>2
    <3>. QED BY <1>6, <1>9, <2>2, <3>1
  <2>. QED BY <1>2, <2>1, <2>2
<1>. QED BY <1>5, <1>11, <1>12

\* Whatever is put behind the first token of a block that still fits.
LEMMA BlockGrows ==
    ASSUME SessionInv, pc = "draft", HeadReads,
           UNCHANGED <<build, text, readouts, last, saved, history>>,
           NEW b \in Seq(Tokens), b # <<>>, b[1] = op.block[1],
           Len(checkpoint) + Len(b) <= CtxSize,
           op' = [op EXCEPT !.block = b],
           pc' \in {"draft", "snapshot"}, pc' = "draft" => Len(b) < HeadCap
    PROVE  SessionInv'
<1>1. TextOK /\ TensorsOK /\ ReadoutsOK /\ ControlOK /\ HistoryOK /\ Reach /\ BlockOK
  BY DEF SessionInv, Standing, CallOK, InBlock
<1>2. UNCHANGED <<checkpoint, valid, logits, host, top2, build, last, saved, skew, projected>>
  BY DEF text, readouts, history
<1>3. /\ TensorsOK' /\ Reach' /\ Len(checkpoint) < Len(mtp')
      /\ UNCHANGED <<kv, recurrent, lastH>>
  BY <1>1, <1>2, HeadRowTypes
<1>4. op' \in Blocks /\ op'.block = b /\ op'.frontier = op.frontier
  BY <1>1 DEF BlockOK, Blocks
<1>5. HeadCap' = HeadCap /\ MtpOn' = MtpOn
  BY <1>2 DEF HeadCap, BlockCap, Room, MtpOn
<1>6. Standing'
  <2>1. BlockOK'
    BY <1>2, <1>3, <1>4, <1>5 DEF BlockOK
  <2>2. CallOK'
    BY <2>1 DEF CallOK
  <2>3. TextOK' /\ ReadoutsOK' /\ ControlOK' /\ HistoryOK' /\ SavedOK'
    BY <1>1, <1>2, SavedKept
       DEF SessionInv, Standing, TextOK, ReadoutsOK, ControlOK, HistoryOK
  <2>. QED BY <1>3, <2>2, <2>3 DEF Standing
<1>7. ASSUME ~skew' PROVE CallInv'
  <2>1. Speculating
    BY <1>2, <1>7 DEF SessionInv, CallInv, InBlock
  <2>2. Lined(mtp', checkpoint) /\ mtp'[Len(checkpoint) + 1] = Append(checkpoint, op.block[1])
    BY <1>1, <2>1, HeadRow
  <2>3. Readable /\ (Readable' <=> Readable)
    BY <1>2, <1>5, <2>1 DEF Speculating, Readable, ReadoutsFollow, Argmax, LogitsToSave
  <2>4. Speculating'
    BY <1>2, <1>3, <1>4, <1>5, <2>1, <2>2, <2>3 DEF Speculating
  <2>. QED BY <2>4 DEF CallInv
<1>8. SavedFollows'
  BY <1>2, SavedKept DEF SessionInv
<1>. QED BY <1>6, <1>7, <1>8 DEF SessionInv

LEMMA DraftKeepsInv ==
    ASSUME SessionInv, NEW token \in Tokens, NEW keep \in BOOLEAN, NEW stop \in BOOLEAN,
           Draft(token, keep, stop)
    PROVE  SessionInv'
<1>. DEFINE b == IF keep THEN Append(op.block, token) ELSE op.block
<1>1. /\ pc = "draft" /\ HeadReads
      /\ UNCHANGED <<build, text, readouts, last, saved, history>>
      /\ op' = [op EXCEPT !.block = b]
      /\ pc' = IF stop \/ Drafted(b) THEN "snapshot" ELSE "draft"
  BY DEF Draft
<1>2. TextOK /\ BlockOK
  BY <1>1 DEF SessionInv, Standing, CallOK, InBlock
<1>3. /\ op.block \in Seq(Tokens) /\ op.block # <<>>
      /\ Len(checkpoint) + Len(op.block) <= CtxSize /\ Len(op.block) < HeadCap
  BY <1>1, <1>2 DEF BlockOK, Blocks
<1>4. Len(op.block) \in Nat \ {0}
  BY <1>3, EmptySeq
<1>5. /\ Append(op.block, token) \in Seq(Tokens) /\ Append(op.block, token) # <<>>
      /\ Len(Append(op.block, token)) = Len(op.block) + 1
      /\ Append(op.block, token)[1] = op.block[1]
  BY <1>3, <1>4, AppendProperties
<1>6. /\ Len(checkpoint) \in Nat /\ CtxSize \in Nat
      /\ HeadCap \in Int /\ Len(checkpoint) + HeadCap <= CtxSize
  BY <1>2, CapFacts
<1>7. /\ b \in Seq(Tokens) /\ b # <<>> /\ b[1] = op.block[1] /\ Len(b) \in Nat
      /\ Len(checkpoint) + Len(b) <= CtxSize
  BY <1>3, <1>4, <1>5, <1>6
<1>. HIDE DEF b
<1>8. pc' \in {"draft", "snapshot"} /\ (pc' = "draft" => Len(b) < HeadCap)
  BY <1>1, <1>6, <1>7 DEF Drafted
<1>. QED BY <1>1, <1>7, <1>8, BlockGrows

LEMMA CopyKeepsInv ==
    ASSUME SessionInv, NEW token \in Tokens, NEW n \in 1 .. DraftCap,
           NEW tail \in [1 .. n -> Tokens], DraftCopied(token, tail)
    PROVE  SessionInv'
<1>. DEFINE b == <<Head(op.block), token>> \o tail
<1>1. /\ pc = "draft" /\ HeadReads /\ 2 + Len(tail) <= BlockCap
      /\ UNCHANGED <<build, text, readouts, last, saved, history>>
      /\ op' = [op EXCEPT !.block = b]
      /\ pc' = "snapshot"
  BY DEF DraftCopied
<1>2. TextOK /\ BlockOK
  BY <1>1 DEF SessionInv, Standing, CallOK, InBlock
<1>3. op.block \in Seq(Tokens) /\ op.block # <<>>
  BY <1>2 DEF BlockOK, Blocks
<1>4. Head(op.block) = op.block[1] /\ Head(op.block) \in Tokens
  <2>1. Head(op.block) \in Tokens
    BY <1>3, HeadTailProperties
  <2>2. Head(op.block) = op.block[1]
    BY <1>3
  <2>. QED BY <2>1, <2>2
<1>5. tail \in Seq(Tokens) /\ Len(tail) \in Nat
  <2>1. n \in Nat
    BY CapsAssumption
  <2>. QED BY <2>1
<1>6. /\ <<Head(op.block), token>> \in Seq(Tokens) /\ Len(<<Head(op.block), token>>) = 2
      /\ <<Head(op.block), token>>[1] = op.block[1]
  BY <1>4
<1>7. /\ b \in Seq(Tokens) /\ Len(b) = 2 + Len(tail) /\ b[1] = op.block[1]
  <2>. DEFINE two == <<Head(op.block), token>>
  <2>1. two \in Seq(Tokens) /\ Len(two) = 2 /\ two[1] = op.block[1]
    BY <1>6
  <2>. HIDE DEF two
  <2>2. /\ two \o tail \in Seq(Tokens) /\ Len(two \o tail) = Len(two) + Len(tail)
        /\ \A i \in 1 .. Len(two) + Len(tail) : (two \o tail)[i] =
              IF i <= Len(two) THEN two[i] ELSE tail[i - Len(two)]
    BY <1>5, <2>1, ConcatProperties
  <2>3. 1 \in 1 .. Len(two) + Len(tail) /\ 1 <= Len(two)
    BY <1>5, <2>1
  <2>4. /\ two \o tail \in Seq(Tokens) /\ Len(two \o tail) = 2 + Len(tail)
        /\ (two \o tail)[1] = op.block[1]
    BY <2>1, <2>2, <2>3
  <2>. QED BY <2>4 DEF two
<1>. HIDE DEF b
<1>8. /\ Len(checkpoint) \in Nat /\ CtxSize \in Nat
      /\ BlockCap \in Int /\ Len(checkpoint) + BlockCap <= CtxSize
  BY <1>2, CapFacts
<1>9. b # <<>> /\ Len(checkpoint) + Len(b) <= CtxSize
  BY <1>1, <1>5, <1>7, <1>8, EmptyFollows
<1>. QED BY <1>1, <1>7, <1>9, BlockGrows

\* The recurrent state is put apart; what is left of it is read no more.
LEMMA SnapshotKeepsInv ==
    ASSUME SessionInv, Snapshot
    PROVE  SessionInv'
<1>1. /\ pc = "snapshot" /\ pc' = "verify" /\ op' = [op EXCEPT !.frontier = recurrent]
      /\ recurrent' \in {recurrent, [recurrent EXCEPT !.state = TornText]}
      /\ UNCHANGED <<build, checkpoint, valid, kv, lastH, mtp, logits, host, top2, last, saved,
                     skew, projected>>
  BY DEF Snapshot, text, readouts, history
<1>2. TextOK /\ TensorsOK /\ ReadoutsOK /\ ControlOK /\ HistoryOK /\ Reach /\ BlockOK
  BY <1>1 DEF SessionInv, Standing, CallOK, InBlock
<1>3. MtpOn' = MtpOn
  BY <1>1 DEF MtpOn
<1>4. op' \in Blocks /\ op'.block = op.block /\ op'.frontier = recurrent
  BY <1>1, <1>2 DEF BlockOK, Blocks, TensorsOK
<1>5. Standing'
  <2>1. BlockOK'
    BY <1>1, <1>2, <1>4 DEF BlockOK
  <2>2. CallOK'
    BY <1>1, <2>1 DEF CallOK
  <2>3. TextOK' /\ ReadoutsOK' /\ ControlOK' /\ HistoryOK' /\ Reach' /\ SavedOK'
    BY <1>1, <1>2, <1>3, SavedKept
       DEF SessionInv, Standing, TextOK, ReadoutsOK, ControlOK, HistoryOK, Reach
  <2>4. TensorsOK'
    BY <1>1, <1>2, TextTypes DEF TensorsOK
  <2>. QED BY <2>2, <2>3, <2>4 DEF Standing
<1>6. ASSUME ~skew' PROVE CallInv'
  <2>1. Speculating /\ recurrent = Whole(checkpoint)
    BY <1>1, <1>6 DEF SessionInv, CallInv, InBlock, Speculating
  <2>2. Speculating'
    BY <1>1, <1>3, <1>4, <2>1 DEF Speculating
  <2>. QED BY <1>1, <2>2 DEF CallInv, InBlock
<1>7. SavedFollows'
  BY <1>1, SavedKept DEF SessionInv
<1>. QED BY <1>5, <1>6, <1>7 DEF SessionInv

\* A block that cannot be kept apart is given up where it began.
LEMMA SnapshotFailsKeepsInv ==
    ASSUME SessionInv, SnapshotFails
    PROVE  SessionInv'
<1>1. pc = "snapshot" /\ Return("failed") /\ StateSame
  BY DEF SnapshotFails, StateSame
<1>2. ~skew => Speculating
  BY <1>1 DEF SessionInv, CallInv, InBlock
<1>3. ~skew => Follows(checkpoint) /\ Readable
  BY <1>1, <1>2 DEF Speculating, Follows, Lined, Whole
<1>. QED BY <1>1, <1>3, LeavingKeepsInv DEF Outcomes

-----------------------------------------------------------------------------
(* Verifying a block. *)

\* The target reads the block from the checkpoint's own frontier.
LEMMA FrontierSeen ==
    ASSUME TextOK, Speculating
    PROVE  Seen(Start, op.frontier) = checkpoint
<1>1. checkpoint \in Texts /\ Lined(kv, checkpoint) /\ op.frontier = Whole(checkpoint)
  BY TextTypes DEF TextOK, Speculating
<1>. QED BY <1>1, SeenWhole DEF Start

LEMMA VerifyKeepsInv ==
    ASSUME SessionInv, Verify
    PROVE  SessionInv'
<1>. DEFINE t == Seen(Start, op.frontier)
            b == op.block
            rows == Rows(t, b)
<1>1. /\ kv' = Write(kv, Len(checkpoint), rows)
      /\ recurrent' = Whole(t \o b)
      /\ op' = [op EXCEPT !.rows = rows,
                          !.norm = IF build.serial THEN <<Last(rows)>> ELSE rows]
      /\ host' \in IF host = NoRow THEN {NoRow} ELSE {host, Last(rows)}
      /\ pc = "verify" /\ pc' = "commit"
      /\ UNCHANGED <<build, checkpoint, valid, lastH, mtp, logits, top2, last, saved,
                     skew, projected>>
  BY DEF Verify, Start, Whole, text, history
<1>2. TextOK /\ TensorsOK /\ ReadoutsOK /\ ControlOK /\ HistoryOK /\ Reach /\ BlockOK
  BY <1>1 DEF SessionInv, Standing, CallOK, InBlock
<1>3. op \in Blocks /\ Len(checkpoint) \in Nat
  BY <1>2, LenProperties DEF TextOK, BlockOK
<1>4. t \in Texts
  BY <1>3, SeenTypes DEF Blocks, Start
<1>5. /\ b \in Seq(Tokens) /\ b # <<>> /\ b \in Texts /\ Len(b) \in Nat \ {0}
  <2>1. b \in Seq(Tokens) /\ b # <<>>
    BY <1>2, <1>3 DEF BlockOK, Blocks
  <2>. QED BY <2>1, TextTypes, EmptySeq, LenProperties
<1>. HIDE DEF t, b
<1>6. /\ rows \in Seq(Texts) /\ Len(rows) = Len(b)
      /\ \A i \in 1 .. Len(b) : rows[i] = t \o Prefix(b, i)
  BY <1>4, <1>5, RowsTypes
<1>7. Last(rows) \in Texts /\ <<Last(rows)>> \in Seq(Texts)
  <2>1. rows[Len(b)] \in Texts
    <3>. HIDE DEF rows
    <3>1. Len(b) \in 1 .. Len(rows)
      BY <1>5, <1>6
    <3>. QED BY <1>6, <3>1, ElementOfSeq
  <2>2. Last(rows) = rows[Len(b)]
    BY <1>6 DEF Last
  <2>. QED BY <2>1, <2>2
<1>. HIDE DEF rows
<1>8. kv' \in Seq(Texts) /\ Len(kv') = Len(checkpoint) + Len(b)
  <2>1. /\ Write(kv, Len(checkpoint), rows) \in Seq(Texts)
        /\ Len(Write(kv, Len(checkpoint), rows)) = Len(checkpoint) + Len(rows)
    BY <1>2, <1>3, <1>6, WriteRows DEF TensorsOK
  <2>. QED BY <1>1, <1>6, <2>1
<1>9. Whole(t \o b) \in [conv : Texts, state : Texts]
  <2>1. t \o b \in Texts
    BY <1>4, <1>5, ConcatProperties DEF Texts
  <2>. QED BY <2>1 DEF Whole
<1>10. /\ op' \in Blocks /\ op'.block = op.block /\ op'.frontier = op.frontier
       /\ op'.rows = rows
       /\ op'.norm = IF build.serial THEN <<Last(rows)>> ELSE rows
  BY <1>1, <1>3, <1>6, <1>7 DEF Blocks
<1>11. MtpOn' = MtpOn
  BY <1>1 DEF MtpOn
<1>12. Standing'
  <2>1. BlockOK'
    BY <1>1, <1>2, <1>10 DEF BlockOK
  <2>2. RowsOK'
    <3>1. rows # <<>> /\ <<Last(rows)>> # <<>>
      BY <1>5, <1>6, EmptyFollows
    <3>2. Len(checkpoint) + Len(b) <= Len(checkpoint) + Len(b)
      BY <1>3, <1>5
    <3>. QED BY <1>1, <1>6, <1>8, <1>10, <3>1, <3>2 DEF RowsOK, b
  <2>3. CallOK'
    BY <1>1, <2>1, <2>2 DEF CallOK
  <2>4. TensorsOK'
    BY <1>1, <1>2, <1>8, <1>9 DEF TensorsOK
  <2>5. Reach'
    BY <1>1, <1>2, <1>3, <1>5, <1>8, <1>11 DEF Reach
  <2>6. TextOK' /\ ReadoutsOK' /\ ControlOK' /\ HistoryOK' /\ SavedOK'
    BY <1>1, <1>2, <1>7, SavedKept
       DEF SessionInv, Standing, TextOK, ReadoutsOK, ControlOK, HistoryOK
  <2>. QED BY <2>3, <2>4, <2>5, <2>6 DEF Standing
<1>13. ASSUME ~skew' PROVE CallInv'
  <2>1. Speculating
    BY <1>1, <1>13 DEF SessionInv, CallInv, InBlock
  <2>2. t = checkpoint
    BY <1>2, <2>1, FrontierSeen DEF t
  <2>3. kv \in Seq(Texts) /\ Lined(kv, t) /\ Len(t) \in Nat /\ Len(t) <= Len(t)
    BY <1>2, <1>3, <2>1, <2>2 DEF TensorsOK, Speculating
  <2>4. Lined(Write(kv, Len(t), rows), t \o b)
    BY ONLY <1>4, <1>5, <1>6, <2>3, LinedGrows
  <2>5. Lined(Write(kv, Len(t), rows), t)
    BY ONLY <1>4, <1>6, <2>3, LinedKept
  <2>6. Lined(kv', t \o b) /\ Lined(kv', t)
    BY <1>1, <2>2, <2>4, <2>5
  <2>7. Speculating'
    BY <1>1, <1>10, <1>11, <2>1, <2>2, <2>6 DEF Speculating
  <2>8. Verified'
    BY <1>1, <1>10, <2>2, <2>6 DEF Verified, rows, b
  <2>. QED BY <1>1, <2>7, <2>8 DEF CallInv, InBlock
<1>14. SavedFollows'
  BY <1>1, SavedKept DEF SessionInv
<1>. QED BY <1>12, <1>13, <1>14 DEF SessionInv

\* The kept state comes back and the rows of the block are dead.
LEMMA VerifyFailsKeepsInv ==
    ASSUME SessionInv, VerifyFails
    PROVE  SessionInv'
<1>1. CASE Invalidated
  BY <1>1, InvalidatingKeepsInv DEF VerifyFails
<1>2. CASE /\ recurrent' = op.frontier
           /\ kv' = Write(kv, Start, <<>>)
           /\ host' = NoRow /\ top2' = NoRow
           /\ UNCHANGED <<text, lastH, mtp, logits, history>>
  <2>1. /\ pc = "verify" /\ Return("failed")
        /\ UNCHANGED <<build, saved, checkpoint, valid, skew, projected>>
    BY <1>2 DEF VerifyFails, text, history
  <2>2. TextOK /\ TensorsOK /\ ReadoutsOK /\ HistoryOK /\ Reach /\ BlockOK
    BY <2>1 DEF SessionInv, Standing, CallOK, InBlock
  <2>3. /\ checkpoint \in Texts /\ Len(checkpoint) \in Nat /\ <<>> \in Seq(Texts)
        /\ Len(checkpoint) <= Len(checkpoint) /\ kv \in Seq(Texts)
    BY <2>2, TextTypes, EmptySeq, LenProperties DEF TextOK, TensorsOK
  <2>4. kv' = Write(kv, Len(checkpoint), <<>>)
    BY <1>2 DEF Start
  <2>5. kv' \in Seq(Texts) /\ Len(kv') = Len(checkpoint)
    <3>1. /\ Write(kv, Len(checkpoint), <<>>) \in Seq(Texts)
          /\ Len(Write(kv, Len(checkpoint), <<>>)) = Len(checkpoint) + Len(<<>>)
      BY ONLY <2>3, WriteRows
    <3>. QED BY <2>3, <2>4, <3>1, EmptyFollows
  <2>6. op.frontier \in [conv : Texts, state : Texts]
    BY <2>2 DEF BlockOK, Blocks
  <2>7. MtpOn' = MtpOn
    BY <2>1 DEF MtpOn
  <2>8. TextOK' /\ TensorsOK' /\ ReadoutsOK' /\ HistoryOK' /\ Reach'
    BY <1>2, <2>1, <2>2, <2>3, <2>5, <2>6, <2>7
       DEF TextOK, TensorsOK, ReadoutsOK, HistoryOK, Reach
  <2>9. Standing' /\ SavedFollows' /\ pc' = "idle" /\ op' = NoOp /\ last' = "failed"
    BY <2>1, <2>8, ReturnStands DEF Outcomes
  <2>10. ASSUME ~skew' PROVE CallInv'
    <3>1. Speculating
      BY <2>1, <2>10 DEF SessionInv, CallInv, InBlock
    <3>2. Lined(kv, checkpoint)
      BY <3>1 DEF Speculating
    <3>3. Lined(Write(kv, Len(checkpoint), <<>>), checkpoint)
      BY ONLY <2>3, <3>2, LinedKept
    <3>4. Follows(checkpoint)'
      BY <1>2, <2>1, <2>4, <2>7, <3>1, <3>3 DEF Speculating, Follows, Lined, Whole
    <3>5. Readable'
      BY <1>2, <2>1, <3>1 DEF Speculating, Readable, ReadoutsFollow, Argmax, LogitsToSave
    <3>. QED BY <2>9, <3>4, <3>5 DEF CallInv, Idle, InBlock
  <2>. QED BY <2>9, <2>10 DEF SessionInv
<1>. QED BY <1>1, <1>2 DEF VerifyFails

-----------------------------------------------------------------------------
(* The end of a block. *)

LEMMA HasLargest ==
    ASSUME NEW n \in Nat, NEW G \in SUBSET (1 .. n), G # {}
    PROVE  \E m \in G : \A k \in G : k <= m
<1>. DEFINE R == OpToRel(<, Nat)
            T == {n - g : g \in G}
<1>1. IsWellFoundedOn(R, Nat)
  BY NatLessThanWellFounded
<1>2. T \subseteq Nat /\ T # {}
  <2>1. \A g \in G : n - g \in Nat
    OBVIOUS
  <2>2. T \subseteq Nat
    BY <2>1
  <2>. QED BY <2>2
<1>3. \A x, y \in Nat : x < y => <<x, y>> \in R
  BY DEF OpToRel
<1>. HIDE DEF R
<1>4. PICK x \in T : \A y \in T : ~ (<<y, x>> \in R)
  BY <1>1, <1>2, WFMin
<1>5. PICK m \in G : x = n - m
  BY <1>4
<1>6. \A k \in G : k <= m
  <2>. TAKE k \in G
  <2>1. n - k \in T /\ n - k \in Nat /\ x \in Nat
    BY <1>2, <1>4
  <2>2. ~ (n - k < x)
    BY <1>3, <1>4, <2>1
  <2>. QED BY <1>5, <2>2
<1>. QED BY <1>6

\* There is a number of tokens to accept, and they are the target's own.
LEMMA AcceptedTokens ==
    ASSUME NEW block \in Seq(Tokens), block # <<>>, NEW rows, NEW stopAt, NEW excluded
    PROVE  LET n == Accepted(block, rows, stopAt, excluded)
           IN  /\ n \in 1 .. Len(block)
               /\ \A i \in 2 .. n : /\ block[i] = Choice(rows[i - 1], excluded)
                                    /\ block[i - 1] # stopAt
<1>. DEFINE Good(n) == \A i \in 2 .. n : /\ block[i] = Choice(rows[i - 1], excluded)
                                         /\ block[i - 1] # stopAt
            Ends(n) == \/ block[n] = stopAt \/ n = Len(block)
                       \/ block[n + 1] # Choice(rows[n], excluded)
            G == {n \in 1 .. Len(block) : Good(n)}
<1>1. Len(block) \in Nat \ {0} /\ DOMAIN block = 1 .. Len(block)
  BY EmptySeq, LenProperties
<1>2. 1 \in G
  BY <1>1
<1>3. PICK m \in G : \A k \in G : k <= m
  <2>1. G \in SUBSET (1 .. Len(block)) /\ G # {}
    BY <1>2
  <2>. HIDE DEF G
  <2>. QED BY <1>1, <2>1, HasLargest
<1>4. m \in 1 .. Len(block) /\ Good(m)
  BY <1>3
<1>5. Ends(m)
  <2>. SUFFICES ASSUME block[m] # stopAt, m # Len(block),
                       block[m + 1] = Choice(rows[m], excluded)
                PROVE  FALSE
    OBVIOUS
  <2>1. m + 1 \in 1 .. Len(block)
    <3>1. m \in 1 .. Len(block) /\ m # Len(block) /\ Len(block) \in Nat
      BY <1>1, <1>4
    <3>. QED BY ONLY <3>1
  <2>2. Good(m + 1)
    <3>. TAKE i \in 2 .. m + 1
    <3>1. CASE i = m + 1
      <4>1. i - 1 = m
        BY <1>4, <3>1
      <4>. QED BY <3>1, <4>1
    <3>2. CASE i # m + 1
      <4>1. i \in 2 .. m
        BY <1>4, <3>2
      <4>. QED BY <1>4, <4>1
    <3>. QED BY <3>1, <3>2
  <2>3. m + 1 \in G
    BY <2>1, <2>2
  <2>4. m + 1 <= m
    BY <1>3, <2>3
  <2>. QED BY <1>4, <2>4
<1>6. \E n \in DOMAIN block : Good(n) /\ Ends(n)
  BY <1>1, <1>4, <1>5
<1>7. Accepted(block, rows, stopAt, excluded)
        = CHOOSE n \in DOMAIN block : Good(n) /\ Ends(n)
  BY DEF Accepted
<1>. HIDE DEF Good, Ends
<1>8. /\ Accepted(block, rows, stopAt, excluded) \in DOMAIN block
      /\ Good(Accepted(block, rows, stopAt, excluded))
  BY <1>6, <1>7
<1>. QED BY <1>1, <1>8 DEF Good

\* Rows of a text are rows of its prefixes.
LEMMA LinedShorter ==
    ASSUME NEW rows, NEW t \in Texts, NEW k \in 0 .. Len(t), Lined(rows, t), Len(rows) \in Nat
    PROVE  Lined(rows, Prefix(t, k))
<1>1. Len(t) \in Nat /\ DOMAIN t = 1 .. Len(t)
  BY LenProperties DEF Texts
<1>2. Prefix(t, k) \in Texts /\ Len(Prefix(t, k)) = k
  BY PrefixElements DEF Texts
<1>3. DOMAIN Prefix(t, k) = 1 .. k
  BY <1>2, LenProperties DEF Texts
<1>4. \A i \in 1 .. k : rows[i] = Prefix(Prefix(t, k), i)
  <2>. TAKE i \in 1 .. k
  <2>1. i \in DOMAIN t /\ i \in 0 .. k
    BY <1>1
  <2>2. Prefix(Prefix(t, k), i) = Prefix(t, i)
    BY <2>1, PrefixOfPrefix DEF Texts
  <2>. QED BY <2>1, <2>2 DEF Lined
<1>5. k <= Len(rows)
  BY <1>1 DEF Lined
<1>. QED BY <1>2, <1>3, <1>4, <1>5 DEF Lined

\* The rows of a shorter block are the first rows of the block.
LEMMA RowsShorter ==
    ASSUME NEW t \in Texts, NEW toks \in Texts, NEW n \in 0 .. Len(toks)
    PROVE  Prefix(Rows(t, toks), n) = Rows(t, Prefix(toks, n))
<1>1. Len(toks) \in Nat
  BY LenProperties DEF Texts
<1>2. /\ Rows(t, toks) \in Seq(Texts) /\ Len(Rows(t, toks)) = Len(toks)
      /\ \A i \in 1 .. Len(toks) : Rows(t, toks)[i] = t \o Prefix(toks, i)
  BY RowsTypes
<1>3. Prefix(toks, n) \in Texts /\ Len(Prefix(toks, n)) = n
  BY PrefixElements DEF Texts
<1>4. /\ Rows(t, Prefix(toks, n)) \in Seq(Texts)
      /\ Len(Rows(t, Prefix(toks, n))) = n
      /\ \A i \in 1 .. n : Rows(t, Prefix(toks, n))[i] = t \o Prefix(Prefix(toks, n), i)
  <2>. DEFINE u == Prefix(toks, n)
  <2>1. u \in Texts /\ Len(u) = n
    BY <1>3
  <2>. HIDE DEF u
  <2>2. /\ Rows(t, u) \in Seq(Texts) /\ Len(Rows(t, u)) = Len(u)
        /\ \A i \in 1 .. Len(u) : Rows(t, u)[i] = t \o Prefix(u, i)
    BY <2>1, RowsTypes
  <2>. QED BY <2>1, <2>2 DEF u
<1>5. /\ Prefix(Rows(t, toks), n) \in Seq(Texts)
      /\ Len(Prefix(Rows(t, toks), n)) = n
      /\ \A i \in 1 .. n : Prefix(Rows(t, toks), n)[i] = Rows(t, toks)[i]
  <2>1. n \in 0 .. Len(Rows(t, toks))
    BY <1>2
  <2>. QED BY <1>2, <2>1, PrefixElements
<1>6. \A i \in 1 .. n : Prefix(Rows(t, toks), n)[i] = Rows(t, Prefix(toks, n))[i]
  <2>. TAKE i \in 1 .. n
  <2>1. i \in 1 .. Len(toks) /\ i \in 0 .. n
    BY <1>1
  <2>2. Prefix(Prefix(toks, n), i) = Prefix(toks, i)
    BY <2>1, PrefixOfPrefix DEF Texts
  <2>. QED BY <1>2, <1>4, <1>5, <2>1, <2>2
<1>. QED BY ONLY <1>4, <1>5, <1>6, SeqEqual

\* What the adoption of a frontier makes of any block.
LEMMA AdoptedTypes ==
    ASSUME Standing, pc = "commit", NEW n \in 1 .. Len(op.block),
           recurrent' = Replayed(n), Adopt(n), UNCHANGED <<build, kv>>
    PROVE  /\ TensorsOK' /\ op.rows[n] \in Texts
           /\ Len(checkpoint) + n <= Len(kv') /\ Len(checkpoint) + n <= Len(mtp')
<1>1. TextOK /\ TensorsOK /\ BlockOK /\ RowsOK
  BY DEF Standing, CallOK, InBlock
<1>2. /\ op \in Blocks /\ op.block \in Seq(Tokens) /\ op.rows \in Seq(Texts)
      /\ op.norm \in Seq(Texts) /\ op.norm # <<>>
      /\ Len(op.rows) = Len(op.block) /\ Len(op.block) \in Nat
      /\ Len(checkpoint) \in Nat /\ Len(checkpoint) < Len(mtp) /\ Len(mtp) \in Nat
      /\ Len(checkpoint) + Len(op.block) <= Len(kv) /\ Len(kv) \in Nat
  BY <1>1, LenProperties DEF BlockOK, Blocks, RowsOK, TextOK, TensorsOK
<1>3. n \in 0 .. Len(op.block) /\ n \in 0 .. Len(op.rows) /\ n \in 1 .. Len(op.rows) /\ n \in Nat
  BY <1>2
<1>4. op.rows[n] \in Texts
  BY <1>2, <1>3, ElementOfSeq
<1>5. /\ Prefix(op.block, n) \in Seq(Tokens) /\ Len(Prefix(op.block, n)) = n
      /\ Prefix(op.block, n) # <<>>
  <2>1. Prefix(op.block, n) \in Seq(Tokens) /\ Len(Prefix(op.block, n)) = n
    BY <1>2, <1>3, PrefixElements
  <2>. QED BY <2>1, EmptyFollows
<1>6. recurrent' \in [conv : Texts, state : Texts]
  <2>1. CASE n = Len(op.block)
    BY <1>1, <2>1 DEF Replayed, TensorsOK
  <2>2. CASE n # Len(op.block)
    <3>. DEFINE t == Seen(Start, op.frontier)
                u == Prefix(op.block, n)
    <3>1. t \in Texts
      BY <1>2, SeenTypes DEF Blocks, Start
    <3>2. u \in Texts
      BY <1>5, TextTypes
    <3>3. recurrent' = [conv |-> t \o u, state |-> t \o u]
      BY <2>2 DEF Replayed
    <3>. HIDE DEF t, u
    <3>4. t \o u \in Texts
      BY <3>1, <3>2, ConcatProperties DEF Texts
    <3>. QED BY <3>3, <3>4
  <2>. QED BY <2>1, <2>2
<1>7. lastH' \in Texts /\ mtp' \in Seq(Texts) /\ Len(checkpoint) + n <= Len(mtp')
  <2>1. CASE n = 1 /\ ~build.serial
    <3>1. 1 \in 1 .. Len(op.norm)
      BY <1>2, EmptySeq, LenProperties
    <3>2. op.norm[1] \in Texts
      BY <1>2, <3>1, ElementOfSeq
    <3>3. lastH' = op.norm[1] /\ mtp' = mtp
      BY <2>1 DEF Adopt
    <3>. QED BY <1>1, <1>2, <2>1, <3>2, <3>3 DEF TensorsOK
  <2>2. CASE ~ (n = 1 /\ ~build.serial)
    <3>1. Catchup(Prefix(op.block, n), Len(checkpoint), Prefix(op.rows, n))
      BY <2>2 DEF Adopt, Start
    <3>2. Prefix(op.rows, n) \in Seq(Texts) /\ Len(Prefix(op.rows, n)) = n
      BY <1>2, <1>3, PrefixElements
    <3>3. /\ mtp' \in Seq(Texts) /\ lastH' \in Texts
          /\ Len(mtp') = Len(checkpoint) + Len(Prefix(op.block, n))
      BY <1>1, <1>2, <1>5, <3>1, <3>2, CatchupTypes
    <3>. QED BY <1>2, <1>3, <1>5, <3>3
  <2>. QED BY <2>1, <2>2
<1>8. TensorsOK'
  BY <1>1, <1>6, <1>7 DEF TensorsOK
<1>9. Len(checkpoint) + n <= Len(kv')
  BY <1>2, <1>3
<1>. QED BY <1>4, <1>7, <1>8, <1>9

\* What a commit adds to the checkpoint fits it.
LEMMA CommitText ==
    ASSUME Standing, pc = "commit"
    PROVE  LET n == Accepted(op.block, op.rows, op.stopAt, op.excluded)
           IN  /\ n \in 1 .. Len(op.block) /\ n \in Nat \ {0} /\ Len(checkpoint) \in Nat
               /\ checkpoint \o Prefix(op.block, n) \in Seq(Tokens)
               /\ Len(checkpoint \o Prefix(op.block, n)) = Len(checkpoint) + n
               /\ Len(checkpoint) + n <= CtxSize
<1>. DEFINE n == Accepted(op.block, op.rows, op.stopAt, op.excluded)
<1>1. TextOK /\ BlockOK
  BY DEF Standing, CallOK, InBlock
<1>2. /\ op.block \in Seq(Tokens) /\ op.block # <<>> /\ Len(op.block) \in Nat
      /\ checkpoint \in Seq(Tokens) /\ Len(checkpoint) \in Nat /\ CtxSize \in Nat
      /\ Len(checkpoint) + Len(op.block) <= CtxSize
  BY <1>1, LenProperties, CapsAssumption DEF BlockOK, Blocks, TextOK
<1>3. n \in 1 .. Len(op.block)
  BY <1>2, AcceptedTokens
<1>. HIDE DEF n
<1>4. n \in Nat \ {0} /\ n \in 0 .. Len(op.block) /\ Len(checkpoint) + n <= CtxSize
  BY <1>2, <1>3
<1>5. Prefix(op.block, n) \in Seq(Tokens) /\ Len(Prefix(op.block, n)) = n
  BY <1>2, <1>4, PrefixElements
<1>6. /\ checkpoint \o Prefix(op.block, n) \in Seq(Tokens)
      /\ Len(checkpoint \o Prefix(op.block, n)) = Len(checkpoint) + n
  BY <1>2, <1>5, ConcatProperties
<1>. QED BY <1>2, <1>3, <1>4, <1>6 DEF n

\* What the commit of a verified block adds to the checkpoint.
LEMMA CommitFacts ==
    ASSUME SessionInv, ~skew, Commit
    PROVE  LET n == Accepted(op.block, op.rows, op.stopAt, op.excluded)
           IN  /\ TextOK /\ BlockOK /\ Speculating /\ Verified
               /\ n \in 1 .. Len(op.block)
               /\ checkpoint' = checkpoint \o Prefix(op.block, n)
               /\ checkpoint' \in Seq(Tokens)
               /\ Len(checkpoint') = Len(checkpoint) + n
               /\ \A i \in 2 .. n :
                     /\ op.block[i] = Choice(Prefix(checkpoint', Len(checkpoint) + i - 1),
                                             op.excluded)
                     /\ op.block[i - 1] # op.stopAt
<1>. DEFINE t == checkpoint
            b == op.block
            n == Accepted(b, op.rows, op.stopAt, op.excluded)
<1>1. TextOK /\ TensorsOK /\ BlockOK /\ Speculating /\ Verified
  BY DEF Commit, SessionInv, Standing, CallOK, CallInv, InBlock
<1>2. /\ t \in Seq(Tokens) /\ b \in Seq(Tokens) /\ b # <<>> /\ t \in Texts /\ b \in Texts
      /\ Len(b) \in Nat \ {0} /\ Len(t) \in Nat
  <2>1. t \in Seq(Tokens) /\ b \in Seq(Tokens) /\ b # <<>>
    BY <1>1 DEF TextOK, BlockOK, Blocks
  <2>. QED BY <2>1, TextTypes, EmptySeq, LenProperties
<1>3. /\ n \in 1 .. Len(b)
      /\ \A i \in 2 .. n : /\ b[i] = Choice(op.rows[i - 1], op.excluded)
                           /\ b[i - 1] # op.stopAt
  BY <1>2, AcceptedTokens
<1>4. checkpoint' = t \o Prefix(b, n)
  BY DEF Commit
<1>5. \A i \in 1 .. Len(b) : op.rows[i] = t \o Prefix(b, i)
  <2>1. op.rows = Rows(t, b)
    BY <1>1 DEF Verified
  <2>. HIDE DEF t, b
  <2>. QED BY <1>2, <2>1, RowsTypes
<1>. HIDE DEF t, b, n
<1>6. /\ Prefix(b, n) \in Seq(Tokens) /\ Len(Prefix(b, n)) = n
      /\ n \in Nat /\ n \in 0 .. Len(b)
  <2>1. n \in 0 .. Len(b)
    BY <1>2, <1>3
  <2>. QED BY <1>2, <2>1, PrefixElements
<1>7. /\ t \o Prefix(b, n) \in Seq(Tokens)
      /\ Len(t \o Prefix(b, n)) = Len(t) + n
      /\ \A i \in 0 .. n : Prefix(t \o Prefix(b, n), Len(t) + i) = t \o Prefix(b, i)
  <2>. DEFINE u == Prefix(b, n)
  <2>1. u \in Seq(Tokens) /\ Len(u) = n
    BY <1>6
  <2>2. \A i \in 0 .. n : Prefix(u, i) = Prefix(b, i)
    BY <1>2, <1>6, PrefixOfPrefix
  <2>. HIDE DEF u
  <2>3. /\ t \o u \in Seq(Tokens) /\ Len(t \o u) = Len(t) + Len(u)
        /\ \A i \in 0 .. Len(u) : Prefix(t \o u, Len(t) + i) = t \o Prefix(u, i)
    <3>1. t \in Seq(Tokens) /\ u \in Seq(Tokens)
      BY <1>2, <2>1
    <3>. QED BY ONLY <3>1, PrefixOfConcat
  <2>4. /\ t \o u \in Seq(Tokens) /\ Len(t \o u) = Len(t) + n
        /\ \A i \in 0 .. n : Prefix(t \o u, Len(t) + i) = t \o Prefix(b, i)
    BY <2>1, <2>2, <2>3
  <2>. QED BY <2>4 DEF u
<1>8. ASSUME NEW i \in 2 .. n
      PROVE  /\ b[i] = Choice(Prefix(checkpoint', Len(t) + i - 1), op.excluded)
             /\ b[i - 1] # op.stopAt
  <2>1. i - 1 \in 1 .. Len(b) /\ i - 1 \in 0 .. n /\ Len(t) + (i - 1) = Len(t) + i - 1
    BY <1>2, <1>3
  <2>2. Prefix(checkpoint', Len(t) + i - 1) = t \o Prefix(b, i - 1)
    BY <1>4, <1>7, <2>1
  <2>3. op.rows[i - 1] = t \o Prefix(b, i - 1)
    BY <1>5, <2>1
  <2>. QED BY <1>3, <2>2, <2>3
<1>. QED BY <1>1, <1>3, <1>4, <1>7, <1>8 DEF t, b, n

\* The tensors follow the checkpoint with the accepted tokens.
LEMMA CommitFollows ==
    ASSUME SessionInv, ~skew, Commit
    PROVE  Follows(checkpoint)' /\ ReadoutsFollow' /\ logits' = checkpoint'
<1>. DEFINE t == checkpoint
            b == op.block
            n == Accepted(b, op.rows, op.stopAt, op.excluded)
            new == Prefix(b, n)
<1>1. /\ TensorsOK /\ TextOK /\ BlockOK /\ Speculating /\ Verified
      /\ n \in 1 .. Len(b)
      /\ checkpoint' = t \o new
      /\ checkpoint' \in Seq(Tokens)
      /\ Len(checkpoint') = Len(t) + n
  BY CommitFacts DEF SessionInv, Standing
<1>2. /\ recurrent' = Replayed(n) /\ Adopt(n) /\ Publish(op.rows[n])
      /\ UNCHANGED <<build, kv>>
  BY DEF Commit
<1>3. /\ t \in Seq(Tokens) /\ b \in Seq(Tokens) /\ t \in Texts /\ b \in Texts
      /\ Len(b) \in Nat /\ Len(t) \in Nat /\ n \in Nat /\ n \in 0 .. Len(b)
      /\ t \o new \in Texts
  <2>1. t \in Seq(Tokens) /\ b \in Seq(Tokens)
    BY <1>1 DEF TextOK, BlockOK, Blocks
  <2>2. Len(b) \in Nat /\ Len(t) \in Nat /\ t \in Texts /\ b \in Texts
    BY <2>1, TextTypes, LenProperties
  <2>3. t \o new \in Texts
    BY <1>1, TextTypes
  <2>. QED BY <1>1, <2>1, <2>2, <2>3
<1>4. /\ op.rows = Rows(t, b) /\ recurrent = Whole(t \o b) /\ Lined(kv, t \o b)
      /\ op.norm = IF build.serial THEN <<Last(op.rows)>> ELSE op.rows
      /\ op.frontier = Whole(t) /\ lastH = t /\ Lined(mtp, t) /\ MtpOn
      /\ Len(t) < Len(mtp) /\ mtp[Len(t) + 1] = Append(t, b[1])
  BY <1>1 DEF Verified, Speculating, Commit
<1>5. \A i \in 1 .. Len(b) : op.rows[i] = t \o Prefix(b, i)
  <2>1. t \in Texts /\ b \in Texts /\ op.rows = Rows(t, b)
    BY <1>3, <1>4
  <2>. HIDE DEF t, b
  <2>. QED BY <2>1, RowsTypes
<1>6. kv \in Seq(Texts) /\ mtp \in Seq(Texts) /\ Len(kv) \in Nat /\ Len(mtp) \in Nat
  BY <1>1, LenProperties DEF TensorsOK
<1>. USE DEF new
<1>. HIDE DEF t, b, n
<1>7. new \in Seq(Tokens) /\ Len(new) = n /\ (n = Len(b) => new = b)
  BY <1>3, PrefixElements, PrefixEnds
<1>8. op.rows[n] = t \o new
  BY <1>1, <1>5
<1>9. recurrent' = Whole(t \o new)
  <2>1. CASE n = Len(b)
    BY <1>2, <1>4, <1>7, <2>1 DEF Replayed, b
  <2>2. CASE n # Len(b)
    <3>1. Seen(Start, op.frontier) = t
      BY <1>1, FrontierSeen DEF t
    <3>. QED BY <1>2, <2>2, <3>1 DEF Replayed, Whole, b
  <2>. QED BY <2>1, <2>2
<1>10. Lined(kv, t \o new)
  <2>1. /\ t \o b \in Texts /\ Len(t \o b) = Len(t) + Len(b)
        /\ \A i \in 0 .. Len(b) : Prefix(t \o b, Len(t) + i) = t \o Prefix(b, i)
    <3>1. t \in Texts /\ b \in Texts
      BY <1>3
    <3>. QED BY ONLY <3>1, PrefixOfConcat DEF Texts
  <2>2. Len(t) + n \in 0 .. Len(t \o b)
    BY <1>3, <2>1
  <2>3. Lined(kv, Prefix(t \o b, Len(t) + n))
    BY <1>4, <1>6, <2>1, <2>2, LinedShorter
  <2>. QED BY <1>3, <2>1, <2>3
<1>11. lastH' = t \o new /\ mtp' \in Seq(Texts) /\ Lined(mtp', t \o new)
  <2>1. CASE n = 1 /\ ~build.serial
    <3>1. lastH' = op.rows[n] /\ mtp' = mtp
      BY <1>2, <1>4, <2>1 DEF Adopt
    <3>2. Append(t, b[1]) = t \o new
      <4>1. new = <<b[1]>>
        <5>1. 1 \in 1 .. Len(b)
          BY <1>1, <2>1
        <5>2. Len(new) = 1 /\ new \in Seq(Tokens) /\ new[1] = b[1]
          BY <1>3, <1>7, <2>1, <5>1, PrefixElements
        <5>. HIDE DEF new
        <5>. QED BY ONLY <5>2
      <4>2. b[1] \in Tokens
        BY <1>1, <1>3, <2>1, ElementOfSeq
      <4>. QED BY <1>3, <4>1, <4>2, AppendIsConcat
    <3>3. Lined(mtp, t \o new)
      <4>1. /\ DOMAIN (t \o new) = 1 .. Len(t) + 1
            /\ Len(t \o new) = Len(t) + 1
            /\ \A i \in 0 .. Len(t) : Prefix(t \o new, i) = Prefix(t, i)
            /\ Prefix(t \o new, Len(t) + 1) = t \o new
        <5>1. /\ t \o new \in Seq(Tokens) /\ Len(t \o new) = Len(t) + Len(new)
              /\ \A i \in 0 .. Len(t) : Prefix(t \o new, i) = Prefix(t, i)
          BY <1>3, <1>7, PrefixOfConcat
        <5>2. Prefix(t \o new, Len(t \o new)) = t \o new
          BY <5>1, PrefixEnds
        <5>3. Len(t \o new) = Len(t) + 1
          BY <1>7, <2>1, <5>1
        <5>. QED BY <5>1, <5>2, <5>3, LenProperties
      <4>2. ASSUME NEW i \in 1 .. Len(t) + 1
            PROVE  mtp[i] = Prefix(t \o new, i)
        <5>1. CASE i = Len(t) + 1
          BY <1>4, <3>2, <4>1, <5>1
        <5>2. CASE i # Len(t) + 1
          <6>1. i \in 1 .. Len(t) /\ i \in 0 .. Len(t) /\ DOMAIN t = 1 .. Len(t)
            BY <1>3, <5>2, LenProperties
          <6>. QED BY <1>4, <4>1, <6>1 DEF Lined
        <5>. QED BY <5>1, <5>2
      <4>3. Len(t) + 1 <= Len(mtp)
        BY <1>3, <1>4, <1>6
      <4>. QED BY <4>1, <4>2, <4>3 DEF Lined
    <3>. QED BY <1>6, <1>8, <3>1, <3>3
  <2>2. CASE ~ (n = 1 /\ ~build.serial)
    <3>. DEFINE rows == Rows(t, new)
                heads == MtpRows(t, rows, new)
    <3>1. Prefix(op.rows, n) = rows
      BY <1>3, <1>4, RowsShorter
    <3>2. Adopt(n) => Catchup(new, Start, Prefix(op.rows, n))
      BY <2>2 DEF Adopt, b
    <3>3. Catchup(new, Len(t), rows)
      BY <1>2, <3>1, <3>2 DEF Start, t
    <3>4. mtp' = Write(mtp, Len(t), heads) /\ lastH' = rows[n]
      BY <1>4, <1>7, <3>3 DEF Catchup
    <3>5. /\ heads \in Seq(Texts) /\ Len(heads) = Len(new)
          /\ \A i \in 1 .. Len(new) : heads[i] = t \o Prefix(new, i)
      BY <1>3, <1>7, MtpRowsTypes
    <3>6. rows[n] = t \o new
      <4>1. op.rows \in Seq(Texts) /\ n \in 0 .. Len(op.rows) /\ n \in 1 .. n
        BY <1>1, <1>3, <1>4, RowsTypes
      <4>2. Prefix(op.rows, n)[n] = op.rows[n]
        BY <4>1, PrefixElements
      <4>. QED BY <1>8, <3>1, <4>2
    <3>7. new \in Texts
      BY <1>7, TextTypes
    <3>. HIDE DEF heads, rows, new
    <3>8. Write(mtp, Len(t), heads) \in Seq(Texts)
      BY ONLY <1>3, <1>6, <3>5, WriteRows
    <3>9. Lined(Write(mtp, Len(t), heads), t \o new)
      BY ONLY <1>3, <1>4, <1>6, <3>5, <3>7, LinedGrows
    <3>. QED BY <3>4, <3>6, <3>8, <3>9
  <2>. QED BY <2>1, <2>2
<1>12. checkpoint' = t \o new /\ MtpOn' = MtpOn
  BY <1>1, <1>2 DEF MtpOn
<1>13. Follows(checkpoint)'
  BY <1>2, <1>9, <1>10, <1>11, <1>12 DEF Follows, Lined, Whole
<1>14. ReadoutsFollow' /\ logits' = checkpoint'
  BY <1>2, <1>3, <1>8, <1>12, PublishedRow DEF Publish, ReadoutsFollow
<1>. QED BY <1>13, <1>14

\* A commit stands, and a session that is not skewed follows its new text.
LEMMA CommitKeepsInv ==
    ASSUME SessionInv, Commit
    PROVE  SessionInv'
<1>. DEFINE n == Accepted(op.block, op.rows, op.stopAt, op.excluded)
<1>1. /\ pc = "commit" /\ recurrent' = Replayed(n) /\ Adopt(n) /\ Publish(op.rows[n])
      /\ checkpoint' = checkpoint \o Prefix(op.block, n)
      /\ valid' = TRUE /\ projected' = TRUE /\ Return("moved")
      /\ UNCHANGED <<build, kv, saved, skew>>
  BY DEF Commit
<1>2. /\ n \in 1 .. Len(op.block) /\ n \in Nat \ {0} /\ Len(checkpoint) \in Nat
      /\ checkpoint' \in Seq(Tokens) /\ Len(checkpoint') = Len(checkpoint) + n
      /\ Len(checkpoint) + n <= CtxSize
  BY <1>1, CommitText DEF SessionInv
<1>. HIDE DEF n
<1>3. /\ TensorsOK' /\ op.rows[n] \in Texts
      /\ Len(checkpoint') <= Len(kv') /\ Len(checkpoint') <= Len(mtp')
  BY <1>1, <1>2, AdoptedTypes DEF SessionInv
<1>4. TextOK' /\ Reach' /\ HistoryOK'
  BY <1>1, <1>2, <1>3 DEF SessionInv, Standing, TextOK, Reach, HistoryOK
<1>5. ReadoutsOK'
  BY <1>1, <1>3, PublishedRow
<1>6. Standing' /\ SavedFollows' /\ pc' = "idle" /\ op' = NoOp /\ last' = "moved"
  BY <1>1, <1>3, <1>4, <1>5, ReturnStands DEF Outcomes
<1>7. ASSUME ~skew' PROVE CallInv'
  <2>1. Follows(checkpoint)' /\ ReadoutsFollow' /\ logits' = checkpoint'
    BY <1>1, <1>7, CommitFollows
  <2>2. checkpoint' # <<>>
    BY <1>2, EmptyFollows
  <2>. QED BY <1>1, <1>6, <2>1, <2>2 DEF CallInv, Idle, InBlock, Readable
<1>. QED BY <1>6, <1>7 DEF SessionInv

\* A commit that could not be read back stands as well, skewed.
LEMMA CommitUnreadKeepsInv ==
    ASSUME SessionInv, CommitUnread
    PROVE  SessionInv'
<1>. DEFINE n == Accepted(op.block, op.rows, op.stopAt, op.excluded)
<1>1. /\ pc = "commit" /\ recurrent' = Replayed(n) /\ Adopt(n) /\ logits' = op.rows[n]
      /\ host' = NoRow /\ top2' = NoRow
      /\ skew' = TRUE /\ projected' = FALSE /\ Return("failed")
      /\ UNCHANGED <<build, checkpoint, valid, kv, saved>>
  BY DEF CommitUnread, text
<1>2. n \in 1 .. Len(op.block) /\ n \in Nat \ {0} /\ Len(checkpoint) \in Nat
  BY <1>1, CommitText DEF SessionInv
<1>. HIDE DEF n
<1>3. /\ TensorsOK' /\ op.rows[n] \in Texts
      /\ Len(checkpoint) + n <= Len(kv') /\ Len(checkpoint) + n <= Len(mtp')
  BY <1>1, <1>2, AdoptedTypes DEF SessionInv
<1>4. Len(kv') \in Nat /\ Len(mtp') \in Nat
  BY <1>3, LenProperties DEF TensorsOK
<1>5. Reach'
  <2>1. Len(checkpoint) <= Len(kv') /\ Len(checkpoint) <= Len(mtp')
    BY <1>2, <1>3, <1>4
  <2>. QED BY <1>1, <2>1 DEF Reach
<1>6. TextOK' /\ HistoryOK' /\ ReadoutsOK'
  BY <1>1, <1>3 DEF SessionInv, Standing, TextOK, HistoryOK, ReadoutsOK
<1>7. Standing' /\ SavedFollows'
  BY <1>1, <1>3, <1>5, <1>6, ReturnStands DEF Outcomes
<1>. QED BY <1>1, <1>7 DEF SessionInv

-----------------------------------------------------------------------------
(* Every step keeps the invariant. *)

LEMMA PrefillStepKeepsInv == SessionInv /\ PrefillStep => SessionInv'
<1>. SUFFICES ASSUME SessionInv, PrefillStep PROVE SessionInv'
  OBVIOUS
<1>1. CASE \E p \in Prompts : SyncExtends(p) \/ SyncRestarts(p)
  BY <1>1, SyncKeepsInv
<1>2. CASE \E p \in Prompts : Rewrite(p)
  BY <1>2, RewriteKeepsInv
<1>3. CASE \E n \in 1 .. CtxSize : Rewind(n)
  BY <1>3, RewindKeepsInv
<1>4. CASE PrefillChunk
  BY <1>4, ChunkKeepsInv
<1>5. CASE PrefillFails \/ PrefillStops \/ PrefillDone
  BY <1>5, PrefillEndKeepsInv
<1>. QED BY <1>1, <1>2, <1>3, <1>4, <1>5 DEF PrefillStep

LEMMA DecodeStepKeepsInv == SessionInv /\ DecodeStep => SessionInv'
<1>. SUFFICES ASSUME SessionInv, DecodeStep PROVE SessionInv'
  OBVIOUS
<1>1. CASE \E t \in Tokens : Eval(t) \/ EvalInBatch(t)
  BY <1>1, EvalKeepsInv
<1>2. CASE EvalFails \/ Invalidate
  BY <1>2, DecodeFailKeepsInv
<1>3. CASE ReadLogits
  BY <1>3, ReadLogitsKeepsInv
<1>. QED BY <1>1, <1>2, <1>3 DEF DecodeStep

LEMMA BlockStepKeepsInv == SessionInv /\ BlockStep => SessionInv'
<1>. SUFFICES ASSUME SessionInv, BlockStep PROVE SessionInv'
  OBVIOUS
<1>1. CASE \E t \in Tokens, stopAt, excluded \in {Eos, NoToken} : Begin(t, stopAt, excluded)
  BY <1>1, BeginKeepsInv
<1>2. CASE \E t \in Tokens, keep, stop \in BOOLEAN : Draft(t, keep, stop)
  BY <1>2, DraftKeepsInv
<1>3. CASE \E t \in Tokens, n \in 1 .. DraftCap : \E tail \in [1 .. n -> Tokens] :
               DraftCopied(t, tail)
  BY <1>3, CopyKeepsInv
<1>4. CASE DraftFails
  BY <1>4, InvalidatingKeepsInv DEF DraftFails
<1>5. CASE Snapshot
  BY <1>5, SnapshotKeepsInv
<1>6. CASE SnapshotFails
  BY <1>6, SnapshotFailsKeepsInv
<1>7. CASE Verify
  BY <1>7, VerifyKeepsInv
<1>8. CASE VerifyFails
  BY <1>8, VerifyFailsKeepsInv
<1>9. CASE Commit
  BY <1>9, CommitKeepsInv
<1>10. CASE CommitFails
  BY <1>10, InvalidatingKeepsInv DEF CommitFails
<1>11. CASE CommitUnread
  BY <1>11, CommitUnreadKeepsInv
<1>. QED BY <1>1, <1>2, <1>3, <1>4, <1>5, <1>6, <1>7, <1>8, <1>9, <1>10, <1>11 DEF BlockStep

LEMMA StutterKeepsInv == SessionInv /\ UNCHANGED vars => SessionInv'
<1>. SUFFICES ASSUME SessionInv, UNCHANGED vars PROVE SessionInv'
  OBVIOUS
<1>1. /\ StateSame
      /\ UNCHANGED <<pc, op, last, checkpoint, valid, kv, recurrent, lastH, mtp, logits>>
  BY DEF vars, StateSame, text, tensors, readouts
<1>2. /\ TextOK' /\ TensorsOK' /\ ReadoutsOK' /\ HistoryOK' /\ Reach'
      /\ SavedOK' /\ SavedFollows'
      /\ Follows(checkpoint)' <=> Follows(checkpoint)
      /\ Readable' <=> Readable
      /\ UNCHANGED <<checkpoint, valid, build, saved, skew, projected>>
  BY <1>1, StateSameKeeps
<1>3. MtpOn' = MtpOn /\ HeadCap' = HeadCap /\ LeftToRead' = LeftToRead
  BY <1>1, <1>2 DEF MtpOn, HeadCap, BlockCap, Room, LeftToRead
<1>4. ControlOK' /\ CallOK'
  <2>1. PrefillOK' <=> PrefillOK
    BY <1>1 DEF PrefillOK
  <2>2. (BlockOK' <=> BlockOK) /\ (RowsOK' <=> RowsOK)
    BY <1>1, <1>2, <1>3 DEF BlockOK, Blocks, RowsOK
  <2>. QED BY <1>1, <1>2, <2>1, <2>2 DEF SessionInv, Standing, ControlOK, CallOK, InBlock
<1>5. ASSUME ~skew' PROVE CallInv'
  <2>1. CallInv
    BY <1>2, <1>5 DEF SessionInv
  <2>2. (pc = "idle" => Idle)' /\ (pc = "prefill" => Reading)'
    BY <1>1, <1>2, <1>3, <2>1 DEF CallInv, Idle, Reading
  <2>3. (pc \in InBlock => Speculating)' /\ (pc = "commit" => Verified)'
    BY <1>1, <1>2, <1>3, <2>1 DEF CallInv, InBlock, Speculating, Verified
  <2>. QED BY <2>2, <2>3 DEF CallInv
<1>. QED BY <1>2, <1>4, <1>5 DEF SessionInv, Standing

LEMMA SessionInvNext == SessionInv /\ [Next]_vars => SessionInv'
<1>. SUFFICES ASSUME SessionInv, [Next]_vars PROVE SessionInv'
  OBVIOUS
<1>1. CASE PrefillStep
  BY <1>1, PrefillStepKeepsInv
<1>2. CASE DecodeStep
  BY <1>2, DecodeStepKeepsInv
<1>3. CASE BlockStep
  BY <1>3, BlockStepKeepsInv
<1>4. CASE PayloadStep
  BY <1>4, SaveKeepsInv, LoadKeepsInv DEF PayloadStep
<1>5. CASE UNCHANGED vars
  BY <1>5, StutterKeepsInv
<1>. QED BY <1>1, <1>2, <1>3, <1>4, <1>5 DEF Next

\* A session is always in one of the invariant's states.
THEOREM SessionInvAlways == Spec => []SessionInv
BY SessionInvInit, SessionInvNext, PTL DEF Spec

\* The fields of a session are always of their types (q36_session), skewed or
\* not: no path of a failed call leaves a row short or a block too long.
THEOREM SessionIsTyped == Spec => []TypeOK
<1>1. SessionInv => TypeOK
  BY StandingTypes DEF SessionInv
<1>. QED BY <1>1, SessionInvAlways, PTL

\* Whatever target, vocabulary and sizes, a checkpoint that is declared valid
\* is what the tensors hold, and the logits computed for it are what the
\* samplers read: through chunks, cancellations, failed dispatches, rejected
\* drafts, rewrites, rewinds, saves and loads.  The two errors the code passes
\* over are steps of this specification; the statement is suspended from one
\* of them until a reset or the load of a sound payload succeeds.
THEOREM FrontierIsExact == Spec => []FrontierExact
BY SessionInvAlways, SessionInvFollows, PTL

-----------------------------------------------------------------------------
(* A block replies what decoding token by token would. *)

GreedyStep ==
    pc = "commit" /\ last' = "moved" /\ ~skew =>
        \A k \in Len(checkpoint) + 2 .. Len(checkpoint') :
            /\ checkpoint'[k] = Choice(Prefix(checkpoint', k - 1), op.excluded)
            /\ checkpoint'[k - 1] # op.stopAt

LEMMA CommitIsGreedy ==
    ASSUME SessionInv, ~skew, Commit
    PROVE  GreedyStep
<1>. DEFINE t == checkpoint
            b == op.block
            n == Accepted(b, op.rows, op.stopAt, op.excluded)
<1>1. /\ TextOK /\ BlockOK
      /\ n \in 1 .. Len(b)
      /\ checkpoint' = t \o Prefix(b, n)
      /\ Len(checkpoint') = Len(t) + n
      /\ \A i \in 2 .. n :
            /\ b[i] = Choice(Prefix(checkpoint', Len(t) + i - 1), op.excluded)
            /\ b[i - 1] # op.stopAt
  BY CommitFacts
<1>2. /\ t \in Seq(Tokens) /\ b \in Seq(Tokens) /\ Len(t) \in Nat /\ Len(b) \in Nat
      /\ n \in Nat /\ n \in 0 .. Len(b)
  <2>1. t \in Seq(Tokens) /\ b \in Seq(Tokens)
    BY <1>1 DEF TextOK, BlockOK, Blocks
  <2>. QED BY <1>1, <2>1, LenProperties
<1>. HIDE DEF t, b, n
<1>3. \A i \in 1 .. n : checkpoint'[Len(t) + i] = b[i]
  <2>. DEFINE u == Prefix(b, n)
  <2>1. u \in Seq(Tokens) /\ Len(u) = n /\ \A i \in 1 .. n : u[i] = b[i]
    BY <1>2, PrefixElements
  <2>. HIDE DEF u
  <2>2. /\ Len(t \o u) = Len(t) + Len(u)
        /\ \A i \in 1 .. Len(t) + Len(u) :
              (t \o u)[i] = IF i <= Len(t) THEN t[i] ELSE u[i - Len(t)]
    BY <1>2, <2>1, ConcatProperties
  <2>3. ASSUME NEW i \in 1 .. n
        PROVE  (t \o u)[Len(t) + i] = b[i]
    <3>1. /\ Len(t) + i \in 1 .. Len(t) + Len(u) /\ ~ (Len(t) + i <= Len(t))
          /\ Len(t) + i - Len(t) = i
      BY <1>2, <2>1
    <3>. QED BY <2>1, <2>2, <3>1
  <2>. QED BY <1>1, <2>3 DEF u
<1>4. ASSUME NEW k \in Len(t) + 2 .. Len(checkpoint')
      PROVE  /\ checkpoint'[k] = Choice(Prefix(checkpoint', k - 1), op.excluded)
             /\ checkpoint'[k - 1] # op.stopAt
  <2>1. PICK i \in 2 .. n : k = Len(t) + i
    <3>1. k - Len(t) \in 2 .. n /\ k = Len(t) + (k - Len(t))
      BY <1>1, <1>2
    <3>. QED BY <3>1
  <2>2. /\ i \in 1 .. n /\ i - 1 \in 1 .. n
        /\ k - 1 = Len(t) + i - 1 /\ k - 1 = Len(t) + (i - 1)
    BY <1>2, <2>1
  <2>. QED BY <1>1, <1>3, <2>1, <2>2
<1>. QED BY <1>4 DEF GreedyStep, t

\* No other step of a session ends a verified block with a success.
LEMMA OnlyCommitMoves ==
    ASSUME pc = "commit", last' = "moved", Next
    PROVE  Commit
<1>1. ~ PrefillStep
  BY DEF PrefillStep, SyncExtends, SyncRestarts, Rewrite, Rewind,
         PrefillChunk, PrefillFails, PrefillStops, PrefillDone
<1>2. ~ DecodeStep
  BY DEF DecodeStep, Eval, EvalInBatch, EvalFails, Invalidate, ReadLogits, CanDecode
<1>3. ~ PayloadStep
  BY DEF PayloadStep, SavePayload, LoadPayload, LoadFails
<1>4. BlockStep => Commit \/ CommitFails \/ CommitUnread
  BY DEF BlockStep, Begin, CanDecode, Draft, DraftCopied, DraftFails,
         Snapshot, SnapshotFails, Verify, VerifyFails
<1>5. ~ CommitFails /\ ~ CommitUnread
  BY DEF CommitFails, CommitUnread, Return
<1>. QED BY <1>1, <1>2, <1>3, <1>4, <1>5 DEF Next

LEMMA GreedyNext == SessionInv /\ [Next]_vars => [GreedyStep]_vars
<1>. SUFFICES ASSUME SessionInv, Next PROVE GreedyStep
  OBVIOUS
<1>1. CASE pc = "commit" /\ last' = "moved" /\ ~skew
  BY <1>1, OnlyCommitMoves, CommitIsGreedy
<1>. QED BY <1>1 DEF GreedyStep

\* Speculation changes nothing in what is said: every accepted token after
\* the first is the target's own choice after the text before it, and nothing
\* follows an end token, for any drafts, caps and rejections, in a session
\* that is not skewed.
THEOREM SpeculationIsGreedy == Spec => BlockIsGreedy
<1>1. SessionInv /\ [Next]_vars => [GreedyStep]_vars
  BY GreedyNext
<1>2. Spec => [][GreedyStep]_vars
  BY <1>1, SessionInvAlways, PTL DEF Spec
<1>3. BlockIsGreedy <=> [][GreedyStep]_vars
  BY PTL DEF BlockIsGreedy, GreedyStep
<1>. QED BY <1>2, <1>3
=============================================================================
