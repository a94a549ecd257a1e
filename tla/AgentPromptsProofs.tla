--------------------------- MODULE AgentPromptsProofs ---------------------------
(******************************************************************************)
(* No prompt of q36-agent is lost, doubled or overtaken, for any number of    *)
(* prompts, interrupts, commands and tool rounds.  A prompt accepted is in    *)
(* one of eight places; every step moves the content of one place behind the  *)
(* content of another, empties a place, or adds a new prompt to one.          *)
(******************************************************************************)
EXTENDS AgentWorkerProofs

-----------------------------------------------------------------------------
(* The places. *)

Parts == {"transcript", "turn", "text", "hand", "cmd", "initial", "queue", "input"}

Part == [transcript |-> session.transcript, turn |-> worker.turn, text |-> drain.text,
         hand |-> ui.hand, cmd |-> w.cmd, initial |-> ui.initial, queue |-> ui.queue,
         input |-> ui.input]

\* The way of a prompt through the places.
Rank == [transcript |-> 1, turn |-> 2, text |-> 3, hand |-> 4, cmd |-> 5, initial |-> 6,
         queue |-> 7, input |-> 8]

\* No prompt is in two places or twice in one; together they hold S.
Apart(P) ==
    \A k, l \in Parts : \A i \in DOMAIN P[k], j \in DOMAIN P[l] :
        P[k][i] = P[l][j] => k = l /\ i = j

Covers(P, S) ==
    /\ \A k \in Parts : \A i \in DOMAIN P[k] : P[k][i] \in S
    /\ \A p \in S : \E k \in Parts : \E i \in DOMAIN P[k] : P[k][i] = p

\* Earlier prompts are farther on their way.
Ordered(P) ==
    \A k, l \in Parts : \A i \in DOMAIN P[k], j \in DOMAIN P[l] :
        Rank[k] < Rank[l] \/ (k = l /\ i < j) => P[k][i] < P[l][j]

\* The steps of the places.
Drop(P, k) == [P EXCEPT ![k] = <<>>]
Move(P, k, l) == [P EXCEPT ![k] = <<>>, ![l] = P[l] \o P[k]]
Add(P, k, p) == [P EXCEPT ![k] = Append(P[k], p)]

\* Where a prompt read by the stdin front end waits until it is taken.
InputPcs == {"drainfd", "consume", "serve", "answer", "input"} \union Closing

\* Which places are empty, and that nothing is left unsaved behind a saved
\* session.
PlacesOK ==
    /\ worker.pc # "admit" => worker.turn = <<>>
    /\ ui.input # <<>> => ui.mode = "stdin" /\ ui.pc \in InputPcs
    /\ ui.mode = "stdin" => ui.initial = <<>>
    /\ ui.mode = "oneshot" => ui.queue = <<>>
    /\ ~NeedsSave => ToSet(session.transcript) \subseteq ToSet(session.saved)
    /\ ui.mode = "editor" /\ ui.pc \in Closing =>
          ToSet(session.transcript) \subseteq ToSet(session.saved)

Kept == (1 .. log.typed) \ (log.gone \union log.lost)

PartsOK ==
    /\ Apart(Part)
    /\ Covers(Part, Kept)
    /\ log.gone \union log.lost \subseteq 1 .. log.typed
    /\ ui.mode # "editor" => Ordered(Part)

PromptsInv == TurnInv /\ PlacesOK /\ PartsOK

-----------------------------------------------------------------------------
(* The steps of the places keep prompts apart, and in order. *)

LEMMA DropKeeps ==
    ASSUME NEW P \in [Parts -> Seq(Nat)], NEW k \in Parts, NEW S, Apart(P), Covers(P, S)
    PROVE  /\ Drop(P, k) \in [Parts -> Seq(Nat)]
           /\ Apart(Drop(P, k)) /\ Covers(Drop(P, k), S \ ToSet(P[k]))
           /\ Ordered(P) => Ordered(Drop(P, k))
<1>. DEFINE Q == Drop(P, k)
<1>0. <<>> \in Seq(Nat) /\ DOMAIN <<>> = {}
  OBVIOUS
<1>1. Q \in [Parts -> Seq(Nat)] /\ Q[k] = <<>> /\ \A m \in Parts \ {k} : Q[m] = P[m]
  BY <1>0 DEF Drop
<1>. HIDE DEF Q
<1>2. \A m \in Parts : \A i \in DOMAIN Q[m] :
        m # k /\ i \in DOMAIN P[m] /\ Q[m][i] = P[m][i]
  <2>. TAKE m \in Parts
  <2>1. CASE m = k
    BY <1>0, <1>1, <2>1
  <2>2. CASE m # k
    BY <1>1, <2>2
  <2>. QED BY <2>1, <2>2
<1>3. Apart(Q)
  <2>. SUFFICES ASSUME NEW m \in Parts, NEW n \in Parts, NEW i \in DOMAIN Q[m],
                       NEW j \in DOMAIN Q[n], Q[m][i] = Q[n][j]
                PROVE  m = n /\ i = j
    BY DEF Apart
  <2>. QED BY <1>2 DEF Apart
<1>4. Covers(Q, S \ ToSet(P[k]))
  <2>1. ASSUME NEW m \in Parts, NEW i \in DOMAIN Q[m]
        PROVE  Q[m][i] \in S \ ToSet(P[k])
    <3>1. m # k /\ Q[m][i] = P[m][i] /\ i \in DOMAIN P[m]
      BY <1>2
    <3>2. P[m][i] \notin ToSet(P[k])
      BY <3>1 DEF Apart, ToSet
    <3>. QED BY <3>1, <3>2 DEF Covers
  <2>2. ASSUME NEW p \in S \ ToSet(P[k])
        PROVE  \E m \in Parts : \E i \in DOMAIN Q[m] : Q[m][i] = p
    <3>1. PICK m \in Parts : \E i \in DOMAIN P[m] : P[m][i] = p
      BY <2>2 DEF Covers
    <3>2. m # k
      BY <2>2, <3>1 DEF ToSet
    <3>. QED BY <1>1, <3>1, <3>2
  <2>. QED BY <2>1, <2>2 DEF Covers
<1>5. Ordered(P) => Ordered(Q)
  <2>. SUFFICES ASSUME Ordered(P), NEW m \in Parts, NEW n \in Parts, NEW i \in DOMAIN Q[m],
                       NEW j \in DOMAIN Q[n], Rank[m] < Rank[n] \/ (m = n /\ i < j)
                PROVE  Q[m][i] < Q[n][j]
    BY DEF Ordered
  <2>. QED BY <1>2 DEF Ordered
<1>. QED BY <1>1, <1>3, <1>4, <1>5 DEF Q

LEMMA RankType == Rank \in [Parts -> Nat] /\ \A k, l \in Parts : Rank[k] = Rank[l] => k = l
BY DEF Rank, Parts

LEMMA MoveKeeps ==
    ASSUME NEW P \in [Parts -> Seq(Nat)], NEW k \in Parts, NEW l \in Parts, k # l,
           NEW S, Apart(P), Covers(P, S)
    PROVE  /\ Move(P, k, l) \in [Parts -> Seq(Nat)]
           /\ Apart(Move(P, k, l)) /\ Covers(Move(P, k, l), S)
           /\ /\ Ordered(P) /\ Rank[l] < Rank[k]
              /\ \A m \in Parts : Rank[l] < Rank[m] /\ Rank[m] < Rank[k] =>
                     P[m] = <<>> \/ P[k] = <<>>
              => Ordered(Move(P, k, l))
<1>. DEFINE Q == Move(P, k, l)
            a == Len(P[l])
            b == Len(P[k])
<1>0. <<>> \in Seq(Nat) /\ DOMAIN <<>> = {}
  OBVIOUS
<1>1. P[l] \in Seq(Nat) /\ P[k] \in Seq(Nat) /\ a \in Nat /\ b \in Nat
      /\ DOMAIN P[l] = 1 .. a /\ DOMAIN P[k] = 1 .. b
  BY LenProperties
<1>2. /\ P[l] \o P[k] \in Seq(Nat) /\ DOMAIN (P[l] \o P[k]) = 1 .. a + b
      /\ \A i \in 1 .. a + b : (P[l] \o P[k])[i] = IF i <= a THEN P[l][i] ELSE P[k][i - a]
  BY <1>1, ConcatProperties, LenProperties
<1>3. /\ Q \in [Parts -> Seq(Nat)] /\ Q[k] = <<>> /\ Q[l] = P[l] \o P[k]
      /\ \A m \in Parts \ {k, l} : Q[m] = P[m]
  BY <1>0, <1>2 DEF Move
<1>4. /\ DOMAIN Q[l] = 1 .. a + b /\ DOMAIN Q[k] = {}
      /\ \A i \in 1 .. a + b : \/ i \in 1 .. a /\ Q[l][i] = P[l][i]
                               \/ i > a /\ i - a \in 1 .. b /\ Q[l][i] = P[k][i - a]
  BY <1>0, <1>1, <1>2, <1>3
<1>. HIDE DEF Q, a, b
\* Where an element comes from.
<1>. DEFINE Stays(m, i) == /\ i \in DOMAIN P[m] /\ Q[m][i] = P[m][i]
                           /\ m = l => i \in 1 .. a
            Comes(m, i) == /\ m = l /\ i \in Nat /\ i > a /\ i - a \in DOMAIN P[k]
                           /\ Q[m][i] = P[k][i - a]
<1>5. \A m \in Parts : \A i \in DOMAIN Q[m] : m # k /\ (Stays(m, i) \/ Comes(m, i))
  <2>. TAKE m \in Parts
  <2>1. CASE m = k
    BY <1>4, <2>1
  <2>2. CASE m = l
    <3>. TAKE i \in DOMAIN Q[m]
    <3>1. i \in 1 .. a + b
      BY <1>4, <2>2
    <3>2. \/ i \in 1 .. a /\ Q[l][i] = P[l][i]
          \/ i > a /\ i - a \in 1 .. b /\ Q[l][i] = P[k][i - a]
      BY <1>4, <3>1
    <3>. QED BY <1>1, <2>2, <3>1, <3>2
  <2>3. CASE m # k /\ m # l
    BY <1>3, <2>3
  <2>. QED BY <2>1, <2>2, <2>3
<1>6. Apart(Q)
  <2>. SUFFICES ASSUME NEW m \in Parts, NEW n \in Parts, NEW i \in DOMAIN Q[m],
                       NEW j \in DOMAIN Q[n], Q[m][i] = Q[n][j]
                PROVE  m = n /\ i = j
    BY DEF Apart
  <2>0. m # k /\ n # k
    BY <1>5
  <2>1. CASE Stays(m, i) /\ Stays(n, j)
    <3>1. P[m][i] = P[n][j] /\ i \in DOMAIN P[m] /\ j \in DOMAIN P[n]
      BY <2>1
    <3>. QED BY <3>1 DEF Apart
  <2>2. CASE Stays(m, i) /\ Comes(n, j)
    <3>1. P[m][i] = P[k][j - a] /\ i \in DOMAIN P[m] /\ j - a \in DOMAIN P[k]
      BY <2>2
    <3>. QED BY <2>0, <3>1 DEF Apart
  <2>3. CASE Comes(m, i) /\ Stays(n, j)
    BY <2>0, <2>3 DEF Apart
  <2>4. CASE Comes(m, i) /\ Comes(n, j)
    <3>1. i - a = j - a
      BY <2>4 DEF Apart
    <3>. QED BY <1>1, <2>4, <3>1
  <2>. QED BY <1>5, <2>1, <2>2, <2>3, <2>4
<1>7. Covers(Q, S)
  <2>1. ASSUME NEW m \in Parts, NEW i \in DOMAIN Q[m]
        PROVE  Q[m][i] \in S
    <3>1. Stays(m, i) \/ Comes(m, i)
      BY <1>5
    <3>. QED BY <3>1 DEF Covers
  <2>2. ASSUME NEW p \in S
        PROVE  \E m \in Parts : \E i \in DOMAIN Q[m] : Q[m][i] = p
    <3>1. PICK m \in Parts : \E i \in DOMAIN P[m] : P[m][i] = p
      BY <2>2 DEF Covers
    <3>2. PICK i \in DOMAIN P[m] : P[m][i] = p
      BY <3>1
    <3>3. CASE m = l
      <4>1. i \in DOMAIN Q[l] /\ Q[l][i] = p
        BY <1>1, <1>4, <3>2, <3>3
      <4>. QED BY <4>1
    <3>4. CASE m = k
      <4>1. i + a \in 1 .. a + b /\ i + a > a /\ (i + a) - a = i
        BY <1>1, <3>2, <3>4
      <4>2. i + a \in DOMAIN Q[l] /\ Q[l][i + a] = p
        BY <1>1, <1>4, <3>2, <3>4, <4>1
      <4>. QED BY <4>2
    <3>5. CASE m # k /\ m # l
      BY <1>3, <3>2, <3>5
    <3>. QED BY <3>3, <3>4, <3>5
  <2>. QED BY <2>1, <2>2 DEF Covers
<1>8. ASSUME Ordered(P), Rank[l] < Rank[k],
             \A m \in Parts : Rank[l] < Rank[m] /\ Rank[m] < Rank[k] =>
                 P[m] = <<>> \/ P[k] = <<>>
      PROVE  Ordered(Q)
  <2>. SUFFICES ASSUME NEW m \in Parts, NEW n \in Parts, NEW i \in DOMAIN Q[m],
                       NEW j \in DOMAIN Q[n], Rank[m] < Rank[n] \/ (m = n /\ i < j)
                PROVE  Q[m][i] < Q[n][j]
    BY DEF Ordered
  <2>0. m # k /\ n # k
    BY <1>5
  <2>1. Rank[k] \in Nat /\ Rank[l] \in Nat /\ Rank[m] \in Nat /\ Rank[n] \in Nat
    BY RankType
  <2>2. CASE Stays(m, i) /\ Stays(n, j)
    BY <1>8, <2>2 DEF Ordered
  <2>3. CASE Stays(m, i) /\ Comes(n, j)
    <3>1. Rank[m] < Rank[k]
      BY <1>8, <2>1, <2>3
    <3>. QED BY <1>8, <2>3, <3>1 DEF Ordered
  <2>4. CASE Comes(m, i) /\ Stays(n, j)
    <3>1. Rank[l] < Rank[n]
      <4>1. m = n /\ i < j => FALSE
        BY <1>1, <2>4
      <4>. QED BY <2>4, <4>1
    <3>2. P[n] # <<>> /\ P[k] # <<>>
      BY <1>0, <2>4
    <3>3. Rank[k] < Rank[n]
      BY <1>8, <2>0, <2>1, <3>1, <3>2, RankType
    <3>. QED BY <1>8, <2>4, <3>3 DEF Ordered
  <2>5. CASE Comes(m, i) /\ Comes(n, j)
    <3>1. i < j
      BY <2>1, <2>5
    <3>2. i - a < j - a
      BY <1>1, <2>5, <3>1
    <3>. QED BY <1>8, <2>5, <3>2 DEF Ordered
  <2>. QED BY <1>5, <2>2, <2>3, <2>4, <2>5
<1>. QED BY <1>3, <1>6, <1>7, <1>8 DEF Q

LEMMA AddKeeps ==
    ASSUME NEW P \in [Parts -> Seq(Nat)], NEW k \in Parts, NEW S \in SUBSET Nat,
           NEW p \in Nat, p \notin S, Apart(P), Covers(P, S)
    PROVE  /\ Add(P, k, p) \in [Parts -> Seq(Nat)]
           /\ Apart(Add(P, k, p)) /\ Covers(Add(P, k, p), S \union {p})
           /\ (/\ Ordered(P) /\ k = "input"
               /\ \A q \in S : q < p) => Ordered(Add(P, k, p))
<1>. DEFINE Q == Add(P, k, p)
            a == Len(P[k])
<1>1. P[k] \in Seq(Nat) /\ a \in Nat /\ DOMAIN P[k] = 1 .. a
  BY LenProperties
<1>2. /\ Append(P[k], p) \in Seq(Nat) /\ DOMAIN Append(P[k], p) = 1 .. a + 1
      /\ \A i \in 1 .. a : Append(P[k], p)[i] = P[k][i]
      /\ Append(P[k], p)[a + 1] = p
  BY <1>1, AppendProperties, LenProperties
<1>3. /\ Q \in [Parts -> Seq(Nat)] /\ Q[k] = Append(P[k], p)
      /\ \A m \in Parts \ {k} : Q[m] = P[m]
  BY <1>2 DEF Add
<1>4. /\ DOMAIN Q[k] = 1 .. a + 1 /\ Q[k][a + 1] = p
      /\ \A i \in 1 .. a : Q[k][i] = P[k][i]
  BY <1>1, <1>2, <1>3
<1>. HIDE DEF Q, a
<1>. DEFINE Stays(m, i) == /\ i \in DOMAIN P[m] /\ Q[m][i] = P[m][i]
                           /\ m = k => i \in 1 .. a
            New(m, i) == m = k /\ i = a + 1 /\ Q[m][i] = p
<1>5. \A m \in Parts : \A i \in DOMAIN Q[m] : Stays(m, i) \/ New(m, i)
  <2>. TAKE m \in Parts
  <2>1. CASE m = k
    <3>. TAKE i \in DOMAIN Q[m]
    <3>1. i \in 1 .. a \/ i = a + 1
      BY <1>1, <1>4, <2>1
    <3>. QED BY <1>1, <1>4, <2>1, <3>1
  <2>2. CASE m # k
    BY <1>3, <2>2
  <2>. QED BY <2>1, <2>2
<1>6. \A m \in Parts : \A i \in DOMAIN P[m] :
        P[m][i] \in S /\ i \in DOMAIN Q[m] /\ Q[m][i] = P[m][i]
  <2>. TAKE m \in Parts
  <2>1. \A i \in DOMAIN P[m] : P[m][i] \in S
    BY DEF Covers
  <2>2. CASE m = k
    <3>1. 1 .. a \subseteq 1 .. a + 1
      BY <1>1
    <3>. QED BY <1>1, <1>4, <2>1, <2>2, <3>1
  <2>3. CASE m # k
    BY <1>3, <2>1, <2>3
  <2>. QED BY <2>2, <2>3
<1>7. Apart(Q)
  <2>. SUFFICES ASSUME NEW m \in Parts, NEW n \in Parts, NEW i \in DOMAIN Q[m],
                       NEW j \in DOMAIN Q[n], Q[m][i] = Q[n][j]
                PROVE  m = n /\ i = j
    BY DEF Apart
  <2>1. CASE Stays(m, i) /\ Stays(n, j)
    <3>1. P[m][i] = P[n][j] /\ i \in DOMAIN P[m] /\ j \in DOMAIN P[n]
      BY <2>1
    <3>. QED BY <3>1 DEF Apart
  <2>2. CASE Stays(m, i) /\ New(n, j)
    <3>1. Q[m][i] \in S /\ Q[m][i] = p
      BY <1>6, <2>2
    <3>. QED BY <3>1
  <2>3. CASE New(m, i) /\ Stays(n, j)
    BY <1>6, <2>3
  <2>4. CASE New(m, i) /\ New(n, j)
    BY <2>4
  <2>. QED BY <1>5, <2>1, <2>2, <2>3, <2>4
<1>8. Covers(Q, S \union {p})
  <2>1. \A m \in Parts : \A i \in DOMAIN Q[m] : Q[m][i] \in S \union {p}
    BY <1>5, <1>6
  <2>2. \E m \in Parts : \E i \in DOMAIN Q[m] : Q[m][i] = p
    <3>1. a + 1 \in DOMAIN Q[k] /\ Q[k][a + 1] = p
      BY <1>1, <1>4
    <3>. QED BY <3>1
  <2>3. \A q \in S : \E m \in Parts : \E i \in DOMAIN Q[m] : Q[m][i] = q
    <3>1. \A q \in S : \E m \in Parts : \E i \in DOMAIN P[m] : P[m][i] = q
      BY DEF Covers
    <3>. QED BY <1>6, <3>1
  <2>. QED BY <2>1, <2>2, <2>3 DEF Covers
<1>9. ASSUME Ordered(P), k = "input", \A q \in S : q < p
      PROVE  Ordered(Q)
  <2>. SUFFICES ASSUME NEW m \in Parts, NEW n \in Parts, NEW i \in DOMAIN Q[m],
                       NEW j \in DOMAIN Q[n], Rank[m] < Rank[n] \/ (m = n /\ i < j)
                PROVE  Q[m][i] < Q[n][j]
    BY DEF Ordered
  <2>1. ~ (Rank[k] < Rank[n])
    BY <1>9 DEF Rank, Parts
  <2>2. CASE Stays(m, i) /\ Stays(n, j)
    BY <1>9, <2>2 DEF Ordered
  <2>3. CASE Stays(m, i) /\ New(n, j)
    BY <1>6, <1>9, <2>3
  <2>4. CASE New(m, i)
    <3>1. m = n /\ a + 1 < j
      BY <2>1, <2>4
    <3>2. j \in 1 .. a + 1
      BY <1>4, <2>4, <3>1
    <3>. QED BY <1>1, <3>1, <3>2
  <2>. QED BY <1>5, <2>2, <2>3, <2>4
<1>. QED BY <1>3, <1>7, <1>8, <1>9 DEF Q

LEMMA PartTyped ==
    ASSUME TypesOK
    PROVE  Part \in [Parts -> Seq(Nat)]
<1>1. /\ session.transcript \in Seq(Nat) /\ worker.turn \in Seq(Nat)
      /\ drain.text \in Seq(Nat) /\ ui.hand \in Seq(Nat) /\ w.cmd \in Seq(Nat)
      /\ ui.initial \in Seq(Nat) /\ ui.queue \in Seq(Nat) /\ ui.input \in Seq(Nat)
  <2>1. session.transcript \in Seq(Nat) /\ worker.turn \in Seq(Nat)
    BY DEF TypesOK, SessionType, WorkerType
  <2>2. drain.text \in Seq(Nat) /\ w.cmd \in Seq(Nat)
    BY DEF TypesOK, DrainType, WType
  <2>3. /\ ui.hand \in Seq(Nat) /\ ui.initial \in Seq(Nat) /\ ui.queue \in Seq(Nat)
        /\ ui.input \in Seq(Nat)
    BY DEF TypesOK, UiType
  <2>. QED BY <2>1, <2>2, <2>3
<1>. QED BY <1>1 DEF Part, Parts

\* The places after a step are given by what they hold.
LEMMA PartIs ==
    ASSUME NEW Q \in [Parts -> Seq(Nat)],
           session'.transcript = Q["transcript"], worker'.turn = Q["turn"],
           drain'.text = Q["text"], ui'.hand = Q["hand"], w'.cmd = Q["cmd"],
           ui'.initial = Q["initial"], ui'.queue = Q["queue"], ui'.input = Q["input"]
    PROVE  Part' = Q
<1>1. Part' = [k \in Parts |-> Part'[k]]
  BY DEF Part, Parts
<1>2. Q = [k \in Parts |-> Q[k]]
  OBVIOUS
<1>3. \A k \in Parts : Part'[k] = Q[k]
  BY DEF Part, Parts
<1>. QED BY <1>1, <1>2, <1>3

LEMMA PartValues ==
    /\ Part["transcript"] = session.transcript /\ Part["turn"] = worker.turn
    /\ Part["text"] = drain.text /\ Part["hand"] = ui.hand /\ Part["cmd"] = w.cmd
    /\ Part["initial"] = ui.initial /\ Part["queue"] = ui.queue /\ Part["input"] = ui.input
BY DEF Part

LEMMA DropValues ==
    ASSUME NEW P \in [Parts -> Seq(Nat)], NEW k \in Parts
    PROVE  /\ Drop(P, k) \in [Parts -> Seq(Nat)]
           /\ \A m \in Parts : Drop(P, k)[m] = IF m = k THEN <<>> ELSE P[m]
<1>1. <<>> \in Seq(Nat)
  OBVIOUS
<1>. QED BY <1>1 DEF Drop

LEMMA MoveValues ==
    ASSUME NEW P \in [Parts -> Seq(Nat)], NEW k \in Parts, NEW l \in Parts, k # l
    PROVE  /\ Move(P, k, l) \in [Parts -> Seq(Nat)]
           /\ \A m \in Parts : Move(P, k, l)[m] =
                 IF m = k THEN <<>> ELSE IF m = l THEN P[l] \o P[k] ELSE P[m]
           /\ P[l] = <<>> => P[l] \o P[k] = P[k]
<1>1. <<>> \in Seq(Nat)
  OBVIOUS
<1>2. P[l] \o P[k] \in Seq(Nat) /\ (P[l] = <<>> => P[l] \o P[k] = P[k])
  BY ConcatProperties, ConcatEmptySeq
<1>3. Move(P, k, l) = [P EXCEPT ![k] = <<>>, ![l] = P[l] \o P[k]]
  BY DEF Move
<1>. QED BY <1>1, <1>2, <1>3

LEMMA AddValues ==
    ASSUME NEW P \in [Parts -> Seq(Nat)], NEW k \in Parts, NEW p \in Nat
    PROVE  /\ Add(P, k, p) \in [Parts -> Seq(Nat)]
           /\ \A m \in Parts : Add(P, k, p)[m] = IF m = k THEN Append(P[k], p) ELSE P[m]
           /\ P[k] = <<>> => Append(P[k], p) = <<p>>
<1>1. Append(P[k], p) \in Seq(Nat)
  BY AppendProperties
<1>2. Append(<<>>, p) = <<p>>
  OBVIOUS
<1>3. Add(P, k, p) = [P EXCEPT ![k] = Append(P[k], p)]
  BY DEF Add
<1>. QED BY <1>1, <1>2, <1>3

\* The four ways a step can treat the prompts.
LEMMA StillKept ==
    ASSUME PartsOK, Part' = Part, ui'.mode = ui.mode, log'.typed = log.typed,
           log'.gone = log.gone, log'.lost = log.lost
    PROVE  PartsOK'
BY DEF PartsOK, Kept

LEMMA DroppedKept ==
    ASSUME TypesOK, PartsOK, NEW k \in Parts, Part' = Drop(Part, k), ui'.mode = ui.mode,
           log'.typed = log.typed,
           log'.gone \union log'.lost = (log.gone \union log.lost) \union ToSet(Part[k])
    PROVE  PartsOK'
<1>1. Part \in [Parts -> Seq(Nat)]
  BY PartTyped
<1>2. Apart(Part') /\ Covers(Part', Kept \ ToSet(Part[k])) /\ (Ordered(Part) => Ordered(Part'))
  BY <1>1, DropKeeps DEF PartsOK
<1>3. Kept' = Kept \ ToSet(Part[k])
  BY DEF Kept
<1>4. ToSet(Part[k]) \subseteq 1 .. log.typed
  BY DEF PartsOK, Covers, Kept, ToSet
<1>5. log'.gone \union log'.lost \subseteq 1 .. log'.typed
  BY <1>4 DEF PartsOK
<1>. QED BY <1>2, <1>3, <1>5 DEF PartsOK

LEMMA MovedKept ==
    ASSUME TypesOK, PartsOK, NEW k \in Parts, NEW l \in Parts, k # l,
           Part' = Move(Part, k, l), ui'.mode = ui.mode,
           log'.typed = log.typed, log'.gone = log.gone, log'.lost = log.lost,
           ui.mode # "editor" =>
              /\ Rank[l] < Rank[k]
              /\ \A m \in Parts : Rank[l] < Rank[m] /\ Rank[m] < Rank[k] =>
                     Part[m] = <<>> \/ Part[k] = <<>>
    PROVE  PartsOK'
<1>1. Part \in [Parts -> Seq(Nat)]
  BY PartTyped
<1>2. Apart(Part) /\ Covers(Part, Kept)
  BY DEF PartsOK
<1>3. /\ Apart(Part') /\ Covers(Part', Kept)
      /\ ui.mode # "editor" => Ordered(Part')
  BY <1>1, <1>2, MoveKeeps DEF PartsOK
<1>4. Kept' = Kept
  BY DEF Kept
<1>. QED BY <1>3, <1>4 DEF PartsOK

LEMMA AddedKept ==
    ASSUME TypesOK, PartsOK, NEW k \in Parts, Part' = Add(Part, k, log.typed + 1),
           ui'.mode = ui.mode, log'.typed = log.typed + 1,
           log'.gone = log.gone, log'.lost = log.lost, ui.mode # "editor" => k = "input"
    PROVE  PartsOK'
<1>1. Part \in [Parts -> Seq(Nat)]
  BY PartTyped
<1>2. log.typed \in Nat
  BY AgentAssumption DEF TypesOK, LogType
<1>. DEFINE p == log.typed + 1
<1>3. /\ p \in Nat /\ p \notin Kept /\ Kept \in SUBSET Nat /\ \A q \in Kept : q < p
      /\ 1 .. p = (1 .. log.typed) \union {p} /\ p \notin 1 .. log.typed
  BY <1>2 DEF Kept
<1>4. Kept' = Kept \union {p}
  BY <1>3 DEF Kept, PartsOK
<1>. HIDE DEF p
<1>5. Part' = Add(Part, k, p)
  BY DEF p
<1>6. /\ Apart(Part') /\ Covers(Part', Kept \union {p})
      /\ ui.mode # "editor" => Ordered(Part')
  <2>1. Apart(Part) /\ Covers(Part, Kept) /\ (ui.mode # "editor" => Ordered(Part))
    BY DEF PartsOK
  <2>2. /\ Apart(Add(Part, k, p)) /\ Covers(Add(Part, k, p), Kept \union {p})
        /\ (Ordered(Part) /\ k = "input") => Ordered(Add(Part, k, p))
    BY <1>1, <1>3, <2>1, AddKeeps
  <2>. QED BY <1>5, <2>1, <2>2
<1>7. log'.gone \union log'.lost \subseteq 1 .. log'.typed
  BY <1>3 DEF PartsOK, p
<1>. QED BY <1>4, <1>6, <1>7 DEF PartsOK

-----------------------------------------------------------------------------
(* What each step does to the places. *)

SamePlaces ==
    /\ session'.transcript = session.transcript /\ worker'.turn = worker.turn
    /\ drain'.text = drain.text /\ ui'.hand = ui.hand /\ w'.cmd = w.cmd
    /\ ui'.initial = ui.initial /\ ui'.queue = ui.queue /\ ui'.input = ui.input

SameHistory == log'.typed = log.typed /\ log'.gone = log.gone /\ log'.lost = log.lost

QuietStep ==
    \/ Boot \/ Park \/ Wait \/ Stopping \/ Prefilled \/ Generated \/ ToolRuns
       \/ Ask \/ AskEnds \/ TakeDeferred \/ Compacted \/ Saved
    \/ DrainFd \/ Consume \/ ResetError \/ Interrupt \/ TakeAsk \/ AnswerAsk
       \/ NoLine \/ RequestSave \/ UiSave \/ Pause \/ PauseEnds \/
       LeaveClean \/ LeaveNow \/ LeaveCancelled \/ Stop \/ Join \/
       PollWake \/ BatchEnd \/ CtrlC \/ TypeSessionCommand \/
       TypeRequest \/ TypeExit

\* Most steps leave every prompt where it is.
LEMMA QuietFacts ==
    ASSUME TypesOK, QuietStep
    PROVE  SamePlaces /\ SameHistory /\ ui'.mode = ui.mode
<1>1. /\ w \in WType /\ ui \in UiType /\ log \in LogType /\ session \in SessionType
      /\ worker \in WorkerType /\ drain \in DrainType
  BY DEF TypesOK
<1>2. ASSUME Boot \/ Park \/ Wait \/ Stopping \/ Prefilled \/ Generated \/
             ToolRuns \/ Ask \/ AskEnds \/ TakeDeferred \/
             Compacted \/ Saved
      PROVE  SamePlaces /\ SameHistory /\ ui'.mode = ui.mode
  <2>1. UNCHANGED <<drain, ui, log>>
    BY <1>2 DEF Boot, Park, Wait, Stopping, Prefilled, Generated, ToolRuns, Ask,
            AskEnds, TakeDeferred, Compacted, Saved
  <2>2. w'.cmd = w.cmd
    <3>1. CASE Boot \/ Park \/ Stopping \/ Prefilled \/ Generated \/ ToolRuns
               \/ Ask \/ AskEnds \/ Saved
      <4>1. WorkerNext /\ ~Pick
        BY <3>1 DEF WorkerNext, Pick, WorkerAt, Boot, Park, Stopping, Prefilled, Generated, ToolRuns, Ask,
               AskEnds, Saved
      <4>. QED BY <4>1, WorkerStepFacts
    <3>. QED BY <1>2, <3>1, WaitFacts, TakeDeferredFacts, CompactedFacts
  <2>3. worker'.turn = worker.turn
    <3>1. CASE Boot \/ Stopping \/ Prefilled \/ ToolRuns \/ Ask \/ Saved
      <4>1. \E pc : worker' = [worker EXCEPT !.pc = pc]
        BY <3>1 DEF Boot, Stopping, Prefilled, ToolRuns, Ask, Saved, WorkerGoes
      <4>. QED BY <1>1, <4>1 DEF WorkerType
    <3>2. CASE Generated \/ AskEnds \/ Park
      <4>1. \E pc : \/ worker' = [worker EXCEPT !.pc = pc] \/ worker' = worker
                    \/ worker' = [worker EXCEPT !.pc = pc, !.rounds = worker.rounds + 1]
                    \/ worker' = [worker EXCEPT !.chain = <<>>, !.pc = pc]
        BY <3>2 DEF Generated, AskEnds, Park, WorkerGoes
      <4>. QED BY <1>1, <4>1 DEF WorkerType
    <3>. QED BY <1>2, <3>1, <3>2, WaitFacts, TakeDeferredFacts, CompactedFacts
  <2>4. session'.transcript = session.transcript
    <3>1. \/ session' = session \/ session' = Written \/ session' = [session EXCEPT !.dirty = TRUE]
      BY <1>2 DEF Boot, Park, Wait, Stopping, Prefilled, Generated, ToolRuns,
                  Ask, AskEnds, TakeDeferred, Compacted,
                  Saved
    <3>. QED BY <1>1, <3>1 DEF Written, SessionType
  <2>. QED BY <2>1, <2>2, <2>3, <2>4 DEF SamePlaces, SameHistory
<1>3. ASSUME DrainFd \/ Consume \/ ResetError \/ Interrupt \/ TakeAsk \/
             AnswerAsk \/ NoLine \/ RequestSave \/ UiSave \/
             Pause \/ PauseEnds \/ LeaveClean \/ LeaveNow \/
             LeaveCancelled \/ Stop \/ Join \/ PollWake \/
             BatchEnd \/ CtrlC \/ TypeSessionCommand \/
             TypeRequest \/ TypeExit
      PROVE  SamePlaces /\ SameHistory /\ ui'.mode = ui.mode
  <2>1. UNCHANGED <<drain, worker>>
    BY <1>3 DEF Requests, DrainFd, Consume, ResetError, Interrupt, TakeAsk, AnswerAsk,
            NoLine, RequestSave, UiSave, Pause, PauseEnds,
            LeaveClean, LeaveNow, LeaveCancelled, Stop, Join,
            PollWake, BatchEnd, CtrlC, TypeSessionCommand,
            TypeRequest, TypeExit
  <2>2. w'.cmd = w.cmd
    <3>1. CASE Pause \/ PauseEnds
      BY <3>1, PauseFacts
    <3>2. CASE RequestSave \/ TypeRequest \/ AnswerAsk
      <4>1. w' = Wake(w) \/ \E op \in Ops : w' = Wake([w EXCEPT !.requests = w.requests \union {op}])
        BY <3>2 DEF RequestSave, TypeRequest, AnswerAsk, Requests, Ops
      <4>2. ASSUME NEW op \in Ops, w' = Wake([w EXCEPT !.requests = w.requests \union {op}])
            PROVE  w'.cmd = w.cmd
        <5>. DEFINE q == [w EXCEPT !.requests = w.requests \union {op}]
        <5>1. q \in WType /\ q.cmd = w.cmd
          BY <1>1 DEF WType, Ops
        <5>. HIDE DEF q
        <5>2. w' = Wake(q)
          BY <4>2 DEF q
        <5>. QED BY <5>1, <5>2, WakeFacts
      <4>. QED BY <1>1, <4>1, <4>2, WakeFacts
    <3>3. CASE DrainFd \/ Consume \/ ResetError \/ Interrupt \/ TakeAsk \/
               NoLine \/ UiSave \/ LeaveClean \/ LeaveNow \/
               LeaveCancelled \/ Stop \/ Join \/ PollWake \/
               BatchEnd \/ CtrlC \/ TypeSessionCommand \/
               TypeExit
      <4>1. \/ w' = w \/ w' = [w EXCEPT !.pipe = FALSE] \/ w' = [w EXCEPT !.wakePending = FALSE]
            \/ w' = [w EXCEPT !.state = "IDLE"] \/ w' = [w EXCEPT !.interrupt = TRUE]
            \/ w' = [w EXCEPT !.paused = FALSE] \/ w' = [w EXCEPT !.stop = TRUE]
        BY <3>3 DEF DrainFd, Consume, ResetError, Interrupt, TakeAsk, NoLine,
               UiSave, LeaveClean, LeaveNow, LeaveCancelled,
               Stop, Join, PollWake, BatchEnd, CtrlC,
               TypeSessionCommand, TypeExit
      <4>. QED BY <1>1, <4>1 DEF WType
    <3>. QED BY <1>3, <3>1, <3>2, <3>3
  <2>3. /\ ui'.hand = ui.hand /\ ui'.initial = ui.initial /\ ui'.queue = ui.queue
        /\ ui'.input = ui.input /\ ui'.mode = ui.mode
    <3>1. ui' = ui \/ \E pc : \/ ui' = [ui EXCEPT !.pc = pc]
                              \/ ui' = [ui EXCEPT !.pc = pc, !.req = ask.n]
                              \/ \E e \in BOOLEAN : ui' = [ui EXCEPT !.error = e, !.pc = pc]
      BY <1>3 DEF UiGoes, Requests, DrainFd, Consume, ResetError, Interrupt, TakeAsk, AnswerAsk,
                  NoLine, RequestSave, UiSave, Pause,
                  PauseEnds, LeaveClean, LeaveNow,
                  LeaveCancelled, Stop, Join, PollWake,
                  BatchEnd, CtrlC, TypeSessionCommand,
                  TypeRequest, TypeExit
    <3>. QED BY <1>1, <3>1 DEF UiType
  <2>4. session'.transcript = session.transcript
    <3>1. session' = session \/ session' = Written
      BY <1>3 DEF Requests, DrainFd, Consume, ResetError, Interrupt, TakeAsk, AnswerAsk,
                  NoLine, RequestSave, UiSave, Pause,
                  PauseEnds, LeaveClean, LeaveNow,
                  LeaveCancelled, Stop, Join, PollWake,
                  BatchEnd, CtrlC, TypeSessionCommand,
                  TypeRequest, TypeExit
    <3>. QED BY <1>1, <3>1 DEF Written, SessionType
  <2>5. SameHistory
    <3>1. CASE Pause \/ PauseEnds
      BY <3>1, PauseFacts DEF SameHistory
    <3>2. CASE ~(Pause \/ PauseEnds)
      <4>1. \/ log' = log \/ log' = [log EXCEPT !.commands = log.commands + 1]
            \/ log' = [log EXCEPT !.interrupts = log.interrupts + 1, !.asked = TRUE]
        BY <1>3, <3>2 DEF Entered, Requests, DrainFd, Consume, ResetError, Interrupt, TakeAsk, AnswerAsk,
                  NoLine, RequestSave, UiSave, LeaveClean,
                  LeaveNow, LeaveCancelled, Stop, Join,
                  PollWake, BatchEnd, CtrlC,
                  TypeSessionCommand, TypeRequest, TypeExit
      <4>. QED BY <1>1, <4>1 DEF LogType, SameHistory
    <3>. QED BY <3>1, <3>2
  <2>. QED BY <2>1, <2>2, <2>3, <2>4, <2>5 DEF SamePlaces
<1>. QED BY <1>2, <1>3 DEF QuietStep

\* How a prompt reaches the worker, or the queue, from the UI.
LEMMA SubmitPlaces ==
    ASSUME TypesOK, SubmitQueue \/ BatchTop \/ TakeInput
    PROVE  /\ UNCHANGED <<worker, drain, session>>
           /\ SameHistory /\ ui'.mode = ui.mode /\ ui'.hand = ui.hand
           /\ \/ /\ w'.cmd = w.cmd
                 /\ ui'.initial = ui.initial /\ ui'.queue = ui.queue /\ ui'.input = ui.input
              \/ /\ CanSubmit(w) /\ w'.cmd = ui.initial
                 /\ ui'.initial = <<>> /\ ui'.queue = ui.queue /\ ui'.input = ui.input
              \/ /\ CanSubmit(w) /\ ui.initial = <<>> /\ w'.cmd = ui.queue
                 /\ ui'.initial = <<>> /\ ui'.queue = <<>> /\ ui'.input = ui.input
              \/ /\ TakeInput /\ CanSubmit(w) /\ ui.queue = <<>> /\ w'.cmd = ui.input
                 /\ ui'.initial = ui.initial /\ ui'.queue = ui.queue /\ ui'.input = <<>>
              \/ /\ TakeInput /\ w'.cmd = w.cmd
                 /\ ui'.initial = ui.initial /\ ui'.queue = ui.queue \o ui.input
                 /\ ui'.input = <<>>
<1>1. w \in WType /\ ui \in UiType /\ log \in LogType
  BY DEF TypesOK
<1>2. /\ UNCHANGED <<worker, drain, session>>
      /\ ui'.mode = ui.mode /\ ui'.hand = ui.hand
  BY SubmittingFacts
<1>3. /\ <<>> \in Seq(Nat) /\ ui.initial \in Seq(Nat) /\ ui.queue \in Seq(Nat)
      /\ ui.input \in Seq(Nat) /\ ui.queue \o ui.input \in Seq(Nat)
  <2>1. ui.initial \in Seq(Nat) /\ ui.queue \in Seq(Nat) /\ ui.input \in Seq(Nat)
    BY <1>1 DEF UiType
  <2>2. ui.queue \o ui.input \in Seq(Nat)
    BY <2>1, ConcatProperties
  <2>. QED BY <2>1, <2>2
<1>4. SameHistory
  <2>1. log' = log \/ log' = [log EXCEPT !.asked = FALSE]
    BY DEF SubmitQueue, BatchTop, TakeInput, Submit
  <2>. QED BY <1>1, <2>1 DEF SameHistory, LogType
<1>5. \A ps \in Seq(Nat) : Submit(ps) => w'.cmd = ps
  BY <1>1 DEF Submit, Submitted, WType
<1>6. CASE SubmitQueue
  <2>1. \/ CanSubmit(w) /\ Submit(ui.initial) /\ ui' = [ui EXCEPT !.pc = "line", !.initial = <<>>]
        \/ /\ CanSubmit(w) /\ ui.initial = <<>> /\ Submit(ui.queue)
           /\ ui' = [ui EXCEPT !.pc = "line", !.queue = <<>>]
        \/ ui' = [ui EXCEPT !.pc = "line"] /\ w' = w
    BY <1>6 DEF SubmitQueue, UiGoes
  <2>2. CASE CanSubmit(w) /\ Submit(ui.initial) /\ ui' = [ui EXCEPT !.pc = "line", !.initial = <<>>]
    <3>1. ui'.initial = <<>> /\ ui'.queue = ui.queue /\ ui'.input = ui.input
      BY <1>1, <2>2 DEF UiType
    <3>. QED BY <1>2, <1>3, <1>4, <1>5, <2>2, <3>1
  <2>3. CASE /\ CanSubmit(w) /\ ui.initial = <<>> /\ Submit(ui.queue)
             /\ ui' = [ui EXCEPT !.pc = "line", !.queue = <<>>]
    <3>1. ui'.initial = ui.initial /\ ui'.queue = <<>> /\ ui'.input = ui.input
      BY <1>1, <2>3 DEF UiType
    <3>. QED BY <1>2, <1>3, <1>4, <1>5, <2>3, <3>1
  <2>4. CASE ui' = [ui EXCEPT !.pc = "line"] /\ w' = w
    <3>1. ui'.initial = ui.initial /\ ui'.queue = ui.queue /\ ui'.input = ui.input
      BY <1>1, <2>4 DEF UiType
    <3>. QED BY <1>2, <1>4, <2>4, <3>1
  <2>. QED BY <2>1, <2>2, <2>3, <2>4
<1>7. CASE BatchTop
  <2>. DEFINE opened == [ui EXCEPT !.pc = "poll", !.open = w.initialized]
  <2>1. \/ CanSubmit(w) /\ Submit(ui.initial) /\ ui' = [opened EXCEPT !.initial = <<>>]
        \/ /\ CanSubmit(w) /\ ui.initial = <<>> /\ Submit(ui.queue)
           /\ ui' = [opened EXCEPT !.queue = <<>>]
        \/ ui' = opened /\ w' = w
    BY <1>7 DEF BatchTop
  <2>2. /\ opened \in UiType
        /\ opened.initial = ui.initial /\ opened.queue = ui.queue /\ opened.input = ui.input
    <3>1. "poll" \in EditorPcs \union BatchPcs /\ w.initialized \in BOOLEAN
      BY <1>1 DEF BatchPcs, WType
    <3>. QED BY <1>1, <3>1 DEF UiType
  <2>. HIDE DEF opened
  <2>3. CASE CanSubmit(w) /\ Submit(ui.initial) /\ ui' = [opened EXCEPT !.initial = <<>>]
    <3>1. ui'.initial = <<>> /\ ui'.queue = ui.queue /\ ui'.input = ui.input
      BY <2>2, <2>3 DEF UiType
    <3>. QED BY <1>2, <1>3, <1>4, <1>5, <2>3, <3>1
  <2>4. CASE /\ CanSubmit(w) /\ ui.initial = <<>> /\ Submit(ui.queue)
             /\ ui' = [opened EXCEPT !.queue = <<>>]
    <3>1. ui'.initial = ui.initial /\ ui'.queue = <<>> /\ ui'.input = ui.input
      BY <2>2, <2>4 DEF UiType
    <3>. QED BY <1>2, <1>3, <1>4, <1>5, <2>4, <3>1
  <2>5. CASE ui' = opened /\ w' = w
    BY <1>2, <1>4, <2>2, <2>5
  <2>. QED BY <2>1, <2>3, <2>4, <2>5
<1>8. CASE TakeInput
  <2>. DEFINE taken == [ui EXCEPT !.pc = "end", !.input = <<>>]
  <2>1. \/ ui' = [ui EXCEPT !.pc = "stop"] /\ w' = w
        \/ CanSubmit(w) /\ ui.queue = <<>> /\ Submit(ui.input) /\ ui' = taken
        \/ ui' = [taken EXCEPT !.queue = taken.queue \o ui.input] /\ w' = w
    BY <1>8 DEF TakeInput, UiGoes
  <2>2. /\ taken \in UiType
        /\ taken.initial = ui.initial /\ taken.queue = ui.queue /\ taken.input = <<>>
    <3>1. "end" \in EditorPcs \union BatchPcs
      BY DEF BatchPcs
    <3>. QED BY <1>1, <1>3, <3>1 DEF UiType
  <2>. HIDE DEF taken
  <2>3. CASE ui' = [ui EXCEPT !.pc = "stop"] /\ w' = w
    <3>1. ui'.initial = ui.initial /\ ui'.queue = ui.queue /\ ui'.input = ui.input
      BY <1>1, <2>3 DEF UiType
    <3>. QED BY <1>2, <1>4, <2>3, <3>1
  <2>4. CASE CanSubmit(w) /\ ui.queue = <<>> /\ Submit(ui.input) /\ ui' = taken
    BY <1>2, <1>3, <1>4, <1>5, <1>8, <2>2, <2>4
  <2>5. CASE ui' = [taken EXCEPT !.queue = taken.queue \o ui.input] /\ w' = w
    <3>1. ui'.initial = ui.initial /\ ui'.queue = ui.queue \o ui.input /\ ui'.input = <<>>
      BY <1>3, <2>2, <2>5 DEF UiType
    <3>. QED BY <1>2, <1>4, <1>8, <2>5, <3>1
  <2>. QED BY <2>1, <2>3, <2>4, <2>5
<1>. QED BY <1>6, <1>7, <1>8

\* A prompt the user has just entered.
LEMMA TypePlaces ==
    ASSUME TypesOK, TypePrompt \/ PollInput
    PROVE  /\ UNCHANGED <<worker, drain, session>>
           /\ ui'.mode = ui.mode /\ ui'.hand = ui.hand /\ ui'.initial = ui.initial
           /\ log'.gone = log.gone /\ log'.lost = log.lost
           /\ \/ /\ TypePrompt /\ CanSubmit(w) /\ w'.cmd = <<log.typed + 1>>
                 /\ ui'.queue = ui.queue /\ ui'.input = ui.input
                 /\ log'.typed = log.typed + 1
              \/ /\ TypePrompt /\ w' = w
                 /\ ui'.queue = Append(ui.queue, log.typed + 1) /\ ui'.input = ui.input
                 /\ log'.typed = log.typed + 1
              \/ /\ PollInput /\ w' = w
                 /\ ui'.queue = ui.queue /\ ui'.input = <<log.typed + 1>>
                 /\ log'.typed = log.typed + 1
              \/ /\ PollInput /\ w' = w
                 /\ ui'.queue = ui.queue /\ ui'.input = ui.input /\ log'.typed = log.typed
<1>1. w \in WType /\ ui \in UiType /\ log \in LogType /\ log.typed + 1 \in Nat
  BY AgentAssumption DEF TypesOK, LogType
<1>2. ui.queue \in Seq(Nat) /\ Append(ui.queue, log.typed + 1) \in Seq(Nat)
      /\ <<log.typed + 1>> \in Seq(Nat)
  <2>1. ui.queue \in Seq(Nat)
    BY <1>1 DEF UiType
  <2>. QED BY <1>1, <2>1, AppendProperties
<1>3. UNCHANGED <<worker, drain, session>>
  BY DEF TypePrompt, PollInput
<1>. DEFINE Typed == /\ log'.gone = log.gone /\ log'.lost = log.lost
                     /\ log'.typed = log.typed + 1
<1>4. CASE TypePrompt /\ IsIdle(w)
  <2>1. /\ CanSubmit(w) /\ w' = Submitted(<<log.typed + 1>>)
        /\ log' = [log EXCEPT !.typed = log.typed + 1, !.asked = FALSE]
        /\ ui' = [ui EXCEPT !.pc = "consume"]
    BY <1>4 DEF TypePrompt, UiGoes
  <2>2. w'.cmd = <<log.typed + 1>>
    BY <1>1, <2>1 DEF Submitted, WType
  <2>3. Typed
    BY <1>1, <2>1 DEF LogType
  <2>4. /\ ui'.mode = ui.mode /\ ui'.hand = ui.hand /\ ui'.initial = ui.initial
        /\ ui'.queue = ui.queue /\ ui'.input = ui.input
    BY <1>1, <2>1 DEF UiType
  <2>. QED BY <1>3, <1>4, <2>1, <2>2, <2>3, <2>4
<1>5. CASE TypePrompt /\ ~IsIdle(w)
  <2>1. /\ w' = w /\ log' = [log EXCEPT !.typed = log.typed + 1]
        /\ ui' = [ui EXCEPT !.pc = "consume", !.queue = Append(ui.queue, log.typed + 1)]
    BY <1>5 DEF TypePrompt
  <2>2. Typed
    BY <1>1, <2>1 DEF LogType
  <2>3. /\ ui'.mode = ui.mode /\ ui'.hand = ui.hand /\ ui'.initial = ui.initial
        /\ ui'.queue = Append(ui.queue, log.typed + 1) /\ ui'.input = ui.input
    BY <1>1, <1>2, <2>1 DEF UiType
  <2>. QED BY <1>3, <1>5, <2>1, <2>2, <2>3
<1>6. CASE PollInput
  <2>1. w' = w
    BY <1>6 DEF PollInput
  <2>2. PICK pc \in {"drainfd", "consume"} :
          \/ /\ ui' = [ui EXCEPT !.pc = pc, !.input = <<log.typed + 1>>]
             /\ log' = [log EXCEPT !.typed = log.typed + 1]
          \/ ui' = [ui EXCEPT !.pc = pc, !.eof = TRUE] /\ log' = log
    BY <1>6 DEF PollInput
  <2>3. CASE /\ ui' = [ui EXCEPT !.pc = pc, !.input = <<log.typed + 1>>]
             /\ log' = [log EXCEPT !.typed = log.typed + 1]
    <3>1. Typed
      BY <1>1, <2>3 DEF LogType
    <3>2. /\ ui'.mode = ui.mode /\ ui'.hand = ui.hand /\ ui'.initial = ui.initial
          /\ ui'.queue = ui.queue /\ ui'.input = <<log.typed + 1>>
      BY <1>1, <1>2, <2>3 DEF UiType
    <3>. QED BY <1>3, <1>6, <2>1, <3>1, <3>2
  <2>4. CASE ui' = [ui EXCEPT !.pc = pc, !.eof = TRUE] /\ log' = log
    <3>1. /\ ui'.mode = ui.mode /\ ui'.hand = ui.hand /\ ui'.initial = ui.initial
          /\ ui'.queue = ui.queue /\ ui'.input = ui.input
      BY <1>1, <2>4 DEF UiType
    <3>. QED BY <1>3, <1>6, <2>1, <2>4, <3>1
  <2>. QED BY <2>2, <2>3, <2>4
<1>. QED BY <1>4, <1>5, <1>6

\* A place that is emptied, one that moves behind another, and a new prompt.
LEMMA DropPart ==
    ASSUME TypesOK, NEW k \in Parts,
           session'.transcript = IF k = "transcript" THEN <<>> ELSE session.transcript,
           worker'.turn = IF k = "turn" THEN <<>> ELSE worker.turn,
           drain'.text = IF k = "text" THEN <<>> ELSE drain.text,
           ui'.hand = IF k = "hand" THEN <<>> ELSE ui.hand,
           w'.cmd = IF k = "cmd" THEN <<>> ELSE w.cmd,
           ui'.initial = IF k = "initial" THEN <<>> ELSE ui.initial,
           ui'.queue = IF k = "queue" THEN <<>> ELSE ui.queue,
           ui'.input = IF k = "input" THEN <<>> ELSE ui.input
    PROVE  Part' = Drop(Part, k)
<1>. DEFINE Q == Drop(Part, k)
<1>1. Q \in [Parts -> Seq(Nat)] /\ \A m \in Parts : Q[m] = IF m = k THEN <<>> ELSE Part[m]
  BY PartTyped, DropValues
<1>. HIDE DEF Q
<1>2. \A m \in Parts : m = "transcript" => session'.transcript = Q[m]
  BY <1>1, PartValues
<1>3. \A m \in Parts : m = "turn" => worker'.turn = Q[m]
  BY <1>1, PartValues
<1>4. \A m \in Parts : m = "text" => drain'.text = Q[m]
  BY <1>1, PartValues
<1>5. \A m \in Parts : m = "hand" => ui'.hand = Q[m]
  BY <1>1, PartValues
<1>6. \A m \in Parts : m = "cmd" => w'.cmd = Q[m]
  BY <1>1, PartValues
<1>7. \A m \in Parts : /\ m = "initial" => ui'.initial = Q[m]
                       /\ m = "queue" => ui'.queue = Q[m]
                       /\ m = "input" => ui'.input = Q[m]
  BY <1>1, PartValues
<1>8. Part' = Q
  BY <1>1, <1>2, <1>3, <1>4, <1>5, <1>6, <1>7, PartIs DEF Parts
<1>. QED BY <1>8 DEF Q

Put(P, k, l, s) == [P EXCEPT ![k] = <<>>, ![l] = s]

LEMMA MovePart ==
    ASSUME TypesOK, NEW k \in Parts, NEW l \in Parts, k # l, NEW s, s = Part[l] \o Part[k],
           session'.transcript = IF k = "transcript" THEN <<>>
                                 ELSE IF l = "transcript" THEN s ELSE session.transcript,
           worker'.turn = IF k = "turn" THEN <<>> ELSE IF l = "turn" THEN s ELSE worker.turn,
           drain'.text = IF k = "text" THEN <<>> ELSE IF l = "text" THEN s ELSE drain.text,
           ui'.hand = IF k = "hand" THEN <<>> ELSE IF l = "hand" THEN s ELSE ui.hand,
           w'.cmd = IF k = "cmd" THEN <<>> ELSE IF l = "cmd" THEN s ELSE w.cmd,
           ui'.initial = IF k = "initial" THEN <<>>
                         ELSE IF l = "initial" THEN s ELSE ui.initial,
           ui'.queue = IF k = "queue" THEN <<>> ELSE IF l = "queue" THEN s ELSE ui.queue,
           ui'.input = IF k = "input" THEN <<>> ELSE IF l = "input" THEN s ELSE ui.input
    PROVE  Part' = Put(Part, k, l, s)
<1>. DEFINE Q == Put(Part, k, l, s)
<1>1. /\ Q \in [Parts -> Seq(Nat)]
      /\ \A m \in Parts : Q[m] = IF m = k THEN <<>> ELSE IF m = l THEN s ELSE Part[m]
  <2>1. Part \in [Parts -> Seq(Nat)]
    BY PartTyped
  <2>2. Q = [Part EXCEPT ![k] = <<>>, ![l] = s]
    BY DEF Put
  <2>3. s \in Seq(Nat) /\ <<>> \in Seq(Nat)
    BY <2>1, ConcatProperties
  <2>. HIDE DEF Q
  <2>. QED BY <2>1, <2>2, <2>3
<1>. HIDE DEF Q
<1>2. \A m \in Parts : m = "transcript" => session'.transcript = Q[m]
  BY <1>1, PartValues
<1>3. \A m \in Parts : m = "turn" => worker'.turn = Q[m]
  BY <1>1, PartValues
<1>4. \A m \in Parts : m = "text" => drain'.text = Q[m]
  BY <1>1, PartValues
<1>5. \A m \in Parts : m = "hand" => ui'.hand = Q[m]
  BY <1>1, PartValues
<1>6. \A m \in Parts : m = "cmd" => w'.cmd = Q[m]
  BY <1>1, PartValues
<1>7. \A m \in Parts : /\ m = "initial" => ui'.initial = Q[m]
                       /\ m = "queue" => ui'.queue = Q[m]
                       /\ m = "input" => ui'.input = Q[m]
  BY <1>1, PartValues
<1>8. Part' = Q
  BY <1>1, <1>2, <1>3, <1>4, <1>5, <1>6, <1>7, PartIs DEF Parts
<1>. QED BY <1>8 DEF Q

LEMMA AddPart ==
    ASSUME TypesOK, NEW k \in Parts, NEW p \in Nat, NEW s, s = Append(Part[k], p),
           session'.transcript = session.transcript, worker'.turn = worker.turn,
           drain'.text = drain.text, ui'.hand = ui.hand, ui'.initial = ui.initial,
           k \in {"cmd", "queue", "input"},
           w'.cmd = IF k = "cmd" THEN s ELSE w.cmd,
           ui'.queue = IF k = "queue" THEN s ELSE ui.queue,
           ui'.input = IF k = "input" THEN s ELSE ui.input
    PROVE  Part' = Add(Part, k, p)
<1>. DEFINE Q == Add(Part, k, p)
<1>1. Q \in [Parts -> Seq(Nat)] /\ \A m \in Parts : Q[m] = IF m = k THEN s ELSE Part[m]
  <2>1. Part \in [Parts -> Seq(Nat)]
    BY PartTyped
  <2>2. /\ Q \in [Parts -> Seq(Nat)]
        /\ \A m \in Parts : Q[m] = IF m = k THEN Append(Part[k], p) ELSE Part[m]
    BY <2>1, AddValues
  <2>. HIDE DEF Q
  <2>. QED BY <2>2
<1>. HIDE DEF Q
<1>2. \A m \in Parts : /\ m = "transcript" => session'.transcript = Q[m]
                       /\ m = "turn" => worker'.turn = Q[m]
                       /\ m = "text" => drain'.text = Q[m]
                       /\ m = "hand" => ui'.hand = Q[m]
                       /\ m = "initial" => ui'.initial = Q[m]
  BY <1>1, PartValues
<1>3. \A m \in Parts : m = "cmd" => w'.cmd = Q[m]
  BY <1>1, PartValues
<1>4. \A m \in Parts : /\ m = "queue" => ui'.queue = Q[m]
                       /\ m = "input" => ui'.input = Q[m]
  BY <1>1, PartValues
<1>5. Part' = Q
  BY <1>1, <1>2, <1>3, <1>4, PartIs DEF Parts
<1>. QED BY <1>5 DEF Q

\* A turn's prompt enters the transcript, or is dropped with the turn.
LEMMA TurnPlaces ==
    ASSUME TypesOK, AppendUser \/ TurnInterrupted \/ TurnFails \/ Answered
    PROVE  /\ UNCHANGED <<drain, ui>> /\ w'.cmd = w.cmd /\ worker'.turn = <<>>
           /\ log'.typed = log.typed /\ log'.lost = log.lost
           /\ AppendUser => /\ worker.pc = "admit" /\ worker'.pc = "round"
                            /\ session'.transcript = session.transcript \o worker.turn
                            /\ session'.dirty /\ session'.activity
                            /\ session'.saved = session.saved /\ log' = log
           /\ TurnInterrupted \/ TurnFails =>
                 /\ session' = session /\ log'.gone = log.gone \union ToSet(worker.turn)
           /\ Answered => worker.pc = "answered" /\ session' = session /\ log' = log
<1>1. /\ w \in WType /\ log \in LogType /\ session \in SessionType /\ worker \in WorkerType
      /\ session.transcript \o worker.turn \in Seq(Nat)
  <2>1. /\ w \in WType /\ log \in LogType /\ session \in SessionType /\ worker \in WorkerType
    BY DEF TypesOK
  <2>2. session.transcript \in Seq(Nat) /\ worker.turn \in Seq(Nat)
    BY <2>1 DEF SessionType, WorkerType
  <2>. QED BY <2>1, <2>2, ConcatProperties
<1>2. UNCHANGED <<drain, ui>>
  BY DEF AppendUser, TurnInterrupted, TurnFails, Answered
<1>3. w'.cmd = w.cmd
  <2>1. WorkerNext /\ ~Pick
    BY DEF WorkerNext, Pick, WorkerAt, AppendUser, TurnInterrupted, TurnFails, Answered, TurnPcs
  <2>. QED BY <2>1, WorkerStepFacts
<1>4. worker'.turn = <<>>
  BY <1>1 DEF AppendUser, TurnInterrupted, TurnFails, Answered, AfterTurn, WorkerType
<1>5. CASE AppendUser
  <2>1. /\ session' = [session EXCEPT !.transcript = session.transcript \o worker.turn,
                                      !.dirty = TRUE, !.activity = TRUE]
        /\ worker.pc = "admit" /\ log' = log /\ worker'.pc = "round"
    BY <1>1, <1>5 DEF AppendUser, WorkerAt, WorkerType
  <2>2. /\ session'.transcript = session.transcript \o worker.turn
        /\ session'.dirty /\ session'.activity /\ session'.saved = session.saved
    BY <1>1, <2>1 DEF SessionType
  <2>3. ~TurnInterrupted /\ ~TurnFails /\ ~Answered
    <3>1. worker'.pc # "deferred"
      BY <2>1
    <3>. QED BY <1>1, <3>1 DEF TurnInterrupted, TurnFails, Answered, AfterTurn, WorkerType
  <2>. QED BY <1>2, <1>3, <1>4, <2>1, <2>2, <2>3
<1>6. CASE Answered
  <2>1. worker.pc = "answered" /\ session' = session /\ log' = log
    BY <1>6 DEF Answered, WorkerAt
  <2>2. ~AppendUser /\ ~TurnInterrupted /\ ~TurnFails
    BY <2>1 DEF AppendUser, TurnInterrupted, TurnFails, WorkerAt, TurnPcs
  <2>. QED BY <1>2, <1>3, <1>4, <2>1, <2>2
<1>7. CASE TurnInterrupted \/ TurnFails
  <2>1. session' = session /\ log' = [log EXCEPT !.gone = log.gone \union ToSet(worker.turn)]
    BY <1>7 DEF TurnInterrupted, TurnFails
  <2>2. ToSet(worker.turn) \subseteq Nat
    <3>1. worker.turn \in Seq(Nat)
      BY <1>1 DEF WorkerType
    <3>. QED BY <3>1 DEF ToSet
  <2>3. /\ log'.gone = log.gone \union ToSet(worker.turn) /\ log'.typed = log.typed
        /\ log'.lost = log.lost
    BY <1>1, <2>1, <2>2 DEF LogType
  <2>4. worker.pc # "answered" /\ worker'.pc = "deferred"
    BY <1>1, <1>7 DEF TurnInterrupted, TurnFails, WorkerAt, TurnPcs, AfterTurn, WorkerType
  <2>5. ~Answered /\ ~AppendUser
    BY <1>1, <2>4 DEF AppendUser, Answered, WorkerAt, WorkerType
  <2>. QED BY <1>2, <1>3, <1>4, <2>1, <2>3, <2>5
<1>. QED BY <1>5, <1>6, <1>7

\* The UI takes what it queued and hands it over.
LEMMA HandPlaces ==
    ASSUME TypesOK, TakeDrain \/ AnswerDrain
    PROVE  /\ UNCHANGED <<worker, session>> /\ w'.cmd = w.cmd
           /\ ui'.mode = ui.mode /\ ui'.initial = ui.initial /\ ui'.input = ui.input
           /\ log'.typed = log.typed /\ log'.gone = log.gone
           /\ TakeDrain => /\ ui.pc = "serve" /\ drain.pending /\ log' = log /\ ui'.pc = "answer"
                           /\ drain'.text = drain.text
                           /\ ui'.hand = ui.queue /\ ui'.queue = <<>>
           /\ AnswerDrain => /\ ui.pc = "answer" /\ drain'.text = ui.hand
                             /\ ui'.pc = IF ui.mode = "editor" THEN "consume" ELSE "input"
                             /\ ui'.hand = <<>> /\ ui'.queue = ui.queue
                             /\ log'.lost = log.lost \union ToSet(drain.text)
<1>1. /\ w \in WType /\ ui \in UiType /\ log \in LogType /\ drain \in DrainType
      /\ <<>> \in Seq(Nat)
  BY DEF TypesOK
<1>2. CASE TakeDrain
  <2>1. /\ UNCHANGED <<worker, session, w, log>> /\ ui.pc = "serve" /\ drain.pending
        /\ drain' = [drain EXCEPT !.pending = FALSE]
        /\ ui' = [ui EXCEPT !.pc = "answer", !.hand = ui.queue, !.queue = <<>>]
    BY <1>2 DEF TakeDrain, UiAt
  <2>2. drain'.text = drain.text
    BY <1>1, <2>1 DEF DrainType
  <2>3. /\ ui'.mode = ui.mode /\ ui'.initial = ui.initial /\ ui'.input = ui.input
        /\ ui'.hand = ui.queue /\ ui'.queue = <<>> /\ ui'.pc = "answer"
    BY <1>1, <2>1 DEF UiType
  <2>4. ~AnswerDrain
    BY <2>1 DEF AnswerDrain, UiAt
  <2>. QED BY <2>1, <2>2, <2>3, <2>4
<1>3. CASE AnswerDrain
  <2>1. /\ UNCHANGED <<worker, session>> /\ ui.pc = "answer" /\ w' = Wake(w)
        /\ drain' = [drain EXCEPT !.answered = TRUE, !.text = ui.hand]
        /\ log' = [log EXCEPT !.lost = log.lost \union ToSet(drain.text)]
        /\ ui' = [ui EXCEPT !.pc = IF ui.mode = "editor" THEN "consume" ELSE "input",
                            !.hand = <<>>]
    BY <1>3 DEF AnswerDrain, UiAt
  <2>2. drain'.text = ui.hand
    BY <1>1, <2>1 DEF DrainType
  <2>3. /\ ui'.mode = ui.mode /\ ui'.initial = ui.initial /\ ui'.input = ui.input
        /\ ui'.hand = <<>> /\ ui'.queue = ui.queue
        /\ ui'.pc = IF ui.mode = "editor" THEN "consume" ELSE "input"
    BY <1>1, <2>1 DEF UiType
  <2>4. /\ log'.typed = log.typed /\ log'.gone = log.gone
        /\ log'.lost = log.lost \union ToSet(drain.text)
    BY <1>1, <2>1 DEF LogType
  <2>5. w'.cmd = w.cmd
    BY <1>1, <2>1, WakeFacts
  <2>6. ~TakeDrain
    BY <2>1 DEF TakeDrain, UiAt
  <2>. QED BY <2>1, <2>2, <2>3, <2>4, <2>5, <2>6
<1>. QED BY <1>2, <1>3

LEMMA SamePart ==
    ASSUME SamePlaces
    PROVE  Part' = Part
BY DEF SamePlaces, Part

\* No step loses a prompt, doubles it or lets it overtake another.
LEMMA PartsKept ==
    ASSUME PromptsInv, Next
    PROVE  PartsOK'
<1>1. TypesOK /\ WorkerOK /\ UiOK /\ HandOverOK /\ PlacesOK /\ PartsOK
  BY DEF PromptsInv, TurnInv, AgentInv
<1>2. /\ session.transcript \in Seq(Nat) /\ worker.turn \in Seq(Nat)
      /\ drain.text \in Seq(Nat) /\ ui.hand \in Seq(Nat) /\ w.cmd \in Seq(Nat)
      /\ ui.initial \in Seq(Nat) /\ ui.queue \in Seq(Nat) /\ ui.input \in Seq(Nat)
  BY <1>1, PartTyped, PartValues DEF Parts
<1>3. \A s \in Seq(Nat) : <<>> \o s = s /\ s \o <<>> = s
  BY ConcatEmptySeq
<1>4. /\ {"transcript", "turn", "text", "hand", "cmd", "initial", "queue", "input"} = Parts
      /\ Rank["transcript"] = 1 /\ Rank["turn"] = 2 /\ Rank["text"] = 3 /\ Rank["hand"] = 4
      /\ Rank["cmd"] = 5 /\ Rank["initial"] = 6 /\ Rank["queue"] = 7 /\ Rank["input"] = 8
  BY DEF Parts, Rank
<1>5. CASE QuietStep
  BY <1>1, <1>5, QuietFacts, SamePart, StillKept DEF SameHistory
<1>6. CASE Answered
  <2>1. worker.turn = <<>>
    BY <1>1, <1>6, TurnPlaces DEF PlacesOK
  <2>2. SamePlaces /\ SameHistory /\ ui'.mode = ui.mode
    BY <1>1, <1>6, <2>1, TurnPlaces DEF SamePlaces, SameHistory
  <2>. QED BY <1>1, <2>2, SamePart, StillKept DEF SameHistory
<1>7. CASE TurnInterrupted \/ TurnFails
  <2>1. /\ UNCHANGED <<drain, ui, session>> /\ w'.cmd = w.cmd /\ worker'.turn = <<>>
        /\ log'.typed = log.typed /\ log'.lost = log.lost
        /\ log'.gone = log.gone \union ToSet(worker.turn)
    BY <1>1, <1>7, TurnPlaces
  <2>2. Part' = Drop(Part, "turn")
    BY <1>1, <1>4, <2>1, DropPart
  <2>. QED BY <1>1, <1>4, <2>1, <2>2, PartValues, DroppedKept
<1>8. CASE AppendUser
  <2>1. /\ UNCHANGED <<drain, ui, log>> /\ w'.cmd = w.cmd /\ worker'.turn = <<>>
        /\ session'.transcript = session.transcript \o worker.turn
    BY <1>1, <1>8, TurnPlaces
  <2>2. Part' = Move(Part, "turn", "transcript")
    <3>1. session'.transcript = Part["transcript"] \o Part["turn"]
      BY <2>1, PartValues
    <3>2. Part' = Put(Part, "turn", "transcript", session'.transcript)
      BY <1>1, <1>4, <2>1, <3>1, MovePart
    <3>. QED BY <3>1, <3>2 DEF Move, Put
  <2>3. \A m \in Parts : ~(Rank["transcript"] < Rank[m] /\ Rank[m] < Rank["turn"])
    BY <1>4, RankType
  <2>4. ui'.mode = ui.mode /\ SameHistory
    BY <2>1 DEF SameHistory
  <2>. HIDE <2>1
  <2>5. log'.typed = log.typed /\ log'.gone = log.gone /\ log'.lost = log.lost
    BY <2>4 DEF SameHistory
  <2>6. Rank["transcript"] < Rank["turn"] /\ "transcript" # "turn"
    BY <1>4
  <2>7. "transcript" \in Parts /\ "turn" \in Parts
    BY <1>4
  <2>. QED BY <1>1, <2>2, <2>3, <2>4, <2>5, <2>6, <2>7, MovedKept
<1>9. CASE Pick
  <2>1. /\ worker.pc = "pick" /\ UNCHANGED <<drain, session, ui, log>>
        /\ \/ w'.cmd = w.cmd /\ worker'.turn = worker.turn
           \/ w'.cmd = <<>> /\ worker'.turn = w.cmd
    BY <1>1, <1>9, PickFacts
  <2>2. CASE w'.cmd = w.cmd /\ worker'.turn = worker.turn
    BY <1>1, <2>1, <2>2, SamePart, StillKept DEF SamePlaces
  <2>3. CASE w'.cmd = <<>> /\ worker'.turn = w.cmd
    <3>1. worker.turn \o w.cmd = w.cmd
      BY <1>1, <1>2, <1>3, <2>1 DEF PlacesOK
    <3>2. Part' = Move(Part, "cmd", "turn")
      <4>1. w.cmd = Part["turn"] \o Part["cmd"]
        BY <3>1, PartValues
      <4>2. Part' = Put(Part, "cmd", "turn", w.cmd)
        BY <1>1, <1>4, <2>1, <2>3, <4>1, MovePart
      <4>. QED BY <4>1, <4>2 DEF Move, Put
    <3>3. ui.mode # "editor" => drain.text = <<>> /\ ui.hand = <<>>
      BY <1>1, <2>1 DEF HandOverOK, Interrupted
    <3>4. ui.mode # "editor" =>
            \A m \in Parts : Rank["turn"] < Rank[m] /\ Rank[m] < Rank["cmd"] => Part[m] = <<>>
      BY <1>4, <3>3, PartValues
    <3>. QED BY <1>1, <1>4, <2>1, <3>2, <3>4, MovedKept
  <2>. QED BY <2>1, <2>2, <2>3
<1>10. CASE RequestDrain
  <2>1. /\ UNCHANGED <<session, ui>> /\ w'.cmd = w.cmd /\ worker'.turn = worker.turn
        /\ drain'.text = <<>> /\ log'.typed = log.typed /\ log'.gone = log.gone
        /\ log'.lost = log.lost \union ToSet(drain.text)
    BY <1>1, <1>10, RequestDrainFacts
  <2>2. Part' = Drop(Part, "text")
    BY <1>1, <1>4, <2>1, DropPart
  <2>. QED BY <1>1, <1>4, <2>1, <2>2, PartValues, DroppedKept
<1>11. CASE DrainEnds
  <2>1. /\ worker.pc = "draining" /\ UNCHANGED <<w, session, ui, log>>
        /\ \/ drain'.text = <<>> /\ worker'.turn = drain.text
           \/ drain' = drain /\ worker' = worker
    BY <1>1, <1>11, DrainEndsFacts
  <2>2. CASE drain' = drain /\ worker' = worker
    BY <1>1, <2>1, <2>2, SamePart, StillKept DEF SamePlaces
  <2>3. CASE drain'.text = <<>> /\ worker'.turn = drain.text
    <3>1. worker.turn \o drain.text = drain.text
      BY <1>1, <1>2, <1>3, <2>1 DEF PlacesOK
    <3>2. Part' = Move(Part, "text", "turn")
      <4>1. drain.text = Part["turn"] \o Part["text"]
        BY <3>1, PartValues
      <4>2. Part' = Put(Part, "text", "turn", drain.text)
        BY <1>1, <1>4, <2>1, <2>3, <4>1, MovePart
      <4>. QED BY <4>1, <4>2 DEF Move, Put
    <3>3. \A m \in Parts : ~(Rank["turn"] < Rank[m] /\ Rank[m] < Rank["text"])
      BY <1>4, RankType
    <3>. QED BY <1>1, <1>4, <2>1, <3>2, <3>3, MovedKept
  <2>. QED BY <2>1, <2>2, <2>3
<1>12. CASE TakeDrain
  <2>1. /\ UNCHANGED <<worker, session, log>> /\ w'.cmd = w.cmd /\ drain'.text = drain.text
        /\ ui'.mode = ui.mode /\ ui'.initial = ui.initial /\ ui'.input = ui.input
        /\ ui.pc = "serve" /\ drain.pending /\ ui'.hand = ui.queue /\ ui'.queue = <<>>
    BY <1>1, <1>12, HandPlaces
  <2>2. ui.hand \o ui.queue = ui.queue
    BY <1>1, <1>2, <1>3, <2>1 DEF HandOverOK
  <2>3. Part' = Move(Part, "queue", "hand")
    <3>1. ui.queue = Part["hand"] \o Part["queue"]
      BY <2>2, PartValues
    <3>2. Part' = Put(Part, "queue", "hand", ui.queue)
      BY <1>1, <1>4, <2>1, <3>1, MovePart
    <3>. QED BY <3>1, <3>2 DEF Move, Put
  <2>4. w.cmd = <<>>
    BY <1>1, <2>1 DEF HandOverOK, WorkerOK, InTurn
  <2>5. ui.mode # "editor" => ui.initial = <<>> \/ ui.queue = <<>>
    BY <1>1 DEF PlacesOK, TypesOK, UiType
  <2>6. ui.mode # "editor" =>
          \A m \in Parts : Rank["hand"] < Rank[m] /\ Rank[m] < Rank["queue"] =>
              Part[m] = <<>> \/ Part["queue"] = <<>>
    BY <1>4, <2>4, <2>5, PartValues
  <2>. QED BY <1>1, <1>4, <2>1, <2>3, <2>6, MovedKept
<1>13. CASE AnswerDrain
  <2>1. /\ UNCHANGED <<worker, session>> /\ w'.cmd = w.cmd
        /\ ui'.mode = ui.mode /\ ui'.initial = ui.initial /\ ui'.input = ui.input
        /\ log'.typed = log.typed /\ log'.gone = log.gone
        /\ ui.pc = "answer" /\ drain'.text = ui.hand
        /\ ui'.hand = <<>> /\ ui'.queue = ui.queue
        /\ log'.lost = log.lost \union ToSet(drain.text)
    BY <1>1, <1>13, HandPlaces
  <2>. DEFINE P == Drop(Part, "text")
              Q == Move(P, "hand", "text")
  <2>2. Part \in [Parts -> Seq(Nat)] /\ Apart(Part) /\ Covers(Part, Kept)
        /\ (ui.mode # "editor" => Ordered(Part))
    BY <1>1, PartTyped DEF PartsOK
  <2>3. /\ P \in [Parts -> Seq(Nat)] /\ Apart(P) /\ Covers(P, Kept \ ToSet(drain.text))
        /\ ui.mode # "editor" => Ordered(P)
    BY <1>4, <2>2, PartValues, DropKeeps
  <2>4. \A m \in Parts : P[m] = IF m = "text" THEN <<>> ELSE Part[m]
    BY <1>4, <2>2, DropValues
  <2>5. P["text"] \o P["hand"] = ui.hand
    BY <1>2, <1>3, <1>4, <2>4, PartValues
  <2>. HIDE DEF P
  <2>6. \A m \in Parts : ~(Rank["text"] < Rank[m] /\ Rank[m] < Rank["hand"])
    BY <1>4, RankType
  <2>7. /\ Q \in [Parts -> Seq(Nat)] /\ Apart(Q) /\ Covers(Q, Kept \ ToSet(drain.text))
        /\ ui.mode # "editor" => Ordered(Q)
    <3>1. Rank["text"] < Rank["hand"]
      BY <1>4
    <3>2. \A m \in Parts : Rank["text"] < Rank[m] /\ Rank[m] < Rank["hand"] =>
            P[m] = <<>> \/ P["hand"] = <<>>
      BY <2>6
    <3>3. "hand" \in Parts /\ "text" \in Parts /\ "hand" # "text"
      BY <1>4
    <3>. QED BY <2>3, <3>1, <3>2, <3>3, MoveKeeps
  <2>8. Q = [P EXCEPT !["hand"] = <<>>, !["text"] = ui.hand]
    BY <2>5 DEF Move
  <2>. HIDE DEF Q
  <2>9. \A m \in Parts : Q[m] = IF m = "hand" THEN <<>> ELSE IF m = "text" THEN ui.hand
                                ELSE Part[m]
    BY <1>4, <2>3, <2>4, <2>8
  <2>10. Part' = Q
    BY <1>4, <2>1, <2>7, <2>9, PartValues, PartIs
  <2>11. Kept' = Kept \ ToSet(drain.text)
    BY <2>1 DEF Kept
  <2>12. ToSet(drain.text) \subseteq 1 .. log.typed
    <3>1. \A i \in DOMAIN Part["text"] : Part["text"][i] \in Kept
      BY <1>4, <2>2 DEF Covers
    <3>. QED BY <3>1, PartValues DEF ToSet, Kept
  <2>13. log'.gone \union log'.lost \subseteq 1 .. log'.typed
    BY <1>1, <2>1, <2>12 DEF PartsOK
  <2>. QED BY <2>1, <2>7, <2>10, <2>11, <2>13 DEF PartsOK
<1>14. CASE SubmitQueue \/ BatchTop \/ TakeInput
  <2>1. /\ UNCHANGED <<worker, drain, session>>
        /\ SameHistory /\ ui'.mode = ui.mode /\ ui'.hand = ui.hand
    BY <1>1, <1>14, SubmitPlaces
  <2>2. CanSubmit(w) => w.cmd = <<>>
    BY DEF CanSubmit
  <2>3. \A s \in Seq(Nat) : CanSubmit(w) => w.cmd \o s = s
    BY <1>3, <2>2
  <2>4. CASE /\ w'.cmd = w.cmd
             /\ ui'.initial = ui.initial /\ ui'.queue = ui.queue /\ ui'.input = ui.input
    BY <1>1, <2>1, <2>4, SamePart, StillKept DEF SamePlaces, SameHistory
  <2>5. CASE /\ CanSubmit(w) /\ w'.cmd = ui.initial
             /\ ui'.initial = <<>> /\ ui'.queue = ui.queue /\ ui'.input = ui.input
    <3>1. w.cmd \o ui.initial = ui.initial
      BY <1>2, <2>3, <2>5
    <3>2. Part' = Move(Part, "initial", "cmd")
      <4>1. ui.initial = Part["cmd"] \o Part["initial"]
        BY <3>1, PartValues
      <4>2. Part' = Put(Part, "initial", "cmd", ui.initial)
        BY <1>1, <1>4, <2>1, <2>5, <4>1, MovePart
      <4>. QED BY <4>1, <4>2 DEF Move, Put
    <3>3. \A m \in Parts : ~(Rank["cmd"] < Rank[m] /\ Rank[m] < Rank["initial"])
      BY <1>4, RankType
    <3>. QED BY <1>1, <1>4, <2>1, <3>2, <3>3, MovedKept DEF SameHistory
  <2>6. CASE /\ CanSubmit(w) /\ ui.initial = <<>> /\ w'.cmd = ui.queue
             /\ ui'.initial = <<>> /\ ui'.queue = <<>> /\ ui'.input = ui.input
    <3>1. w.cmd \o ui.queue = ui.queue
      BY <1>2, <2>3, <2>6
    <3>2. Part' = Move(Part, "queue", "cmd")
      <4>1. ui.queue = Part["cmd"] \o Part["queue"]
        BY <3>1, PartValues
      <4>2. Part' = Put(Part, "queue", "cmd", ui.queue)
        BY <1>1, <1>4, <2>1, <2>6, <4>1, MovePart
      <4>. QED BY <4>1, <4>2 DEF Move, Put
    <3>3. \A m \in Parts : Rank["cmd"] < Rank[m] /\ Rank[m] < Rank["queue"] => Part[m] = <<>>
      BY <1>4, <2>6, PartValues
    <3>4. ui'.mode = ui.mode /\ SameHistory
      BY <2>1
    <3>5. log'.typed = log.typed /\ log'.gone = log.gone /\ log'.lost = log.lost
      BY <3>4 DEF SameHistory
    <3>6. Rank["cmd"] < Rank["queue"] /\ "cmd" # "queue"
      BY <1>4
    <3>7. "cmd" \in Parts /\ "queue" \in Parts
      BY <1>4
    <3>. QED BY <1>1, <3>2, <3>3, <3>4, <3>5, <3>6, <3>7, MovedKept
  <2>7. CASE /\ CanSubmit(w) /\ ui.queue = <<>> /\ w'.cmd = ui.input
             /\ ui'.initial = ui.initial /\ ui'.queue = ui.queue /\ ui'.input = <<>>
    <3>1. w.cmd \o ui.input = ui.input
      BY <1>2, <2>3, <2>7
    <3>2. Part' = Move(Part, "input", "cmd")
      <4>1. ui.input = Part["cmd"] \o Part["input"]
        BY <3>1, PartValues
      <4>2. Part' = Put(Part, "input", "cmd", ui.input)
        BY <1>1, <1>4, <2>1, <2>7, <4>1, MovePart
      <4>. QED BY <4>1, <4>2 DEF Move, Put
    <3>3. ui.initial = <<>> \/ ui.input = <<>>
      BY <1>1 DEF PlacesOK
    <3>4. \A m \in Parts : Rank["cmd"] < Rank[m] /\ Rank[m] < Rank["input"] =>
              Part[m] = <<>> \/ Part["input"] = <<>>
      BY <1>4, <2>7, <3>3, PartValues
    <3>. QED BY <1>1, <1>4, <2>1, <3>2, <3>4, MovedKept DEF SameHistory
  <2>8. CASE /\ w'.cmd = w.cmd
             /\ ui'.initial = ui.initial /\ ui'.queue = ui.queue \o ui.input
             /\ ui'.input = <<>>
    <3>1. Part' = Move(Part, "input", "queue")
      <4>1. ui'.queue = Part["queue"] \o Part["input"]
        BY <2>8, PartValues
      <4>2. Part' = Put(Part, "input", "queue", ui'.queue)
        BY <1>1, <1>4, <2>1, <2>8, <4>1, MovePart
      <4>. QED BY <4>1, <4>2 DEF Move, Put
    <3>2. \A m \in Parts : ~(Rank["queue"] < Rank[m] /\ Rank[m] < Rank["input"])
      BY <1>4, RankType
    <3>. QED BY <1>1, <1>4, <2>1, <3>1, <3>2, MovedKept DEF SameHistory
  <2>. QED BY <1>1, <1>14, <2>4, <2>5, <2>6, <2>7, <2>8, SubmitPlaces
<1>15. CASE TypePrompt \/ PollInput
  <2>1. /\ UNCHANGED <<worker, drain, session>>
        /\ ui'.mode = ui.mode /\ ui'.hand = ui.hand /\ ui'.initial = ui.initial
        /\ log'.gone = log.gone /\ log'.lost = log.lost
    BY <1>1, <1>15, TypePlaces
  <2>2. log.typed + 1 \in Nat
    BY <1>1, AgentAssumption DEF TypesOK, LogType
  <2>3. CASE /\ TypePrompt /\ CanSubmit(w) /\ w'.cmd = <<log.typed + 1>>
             /\ ui'.queue = ui.queue /\ ui'.input = ui.input
             /\ log'.typed = log.typed + 1
    <3>1. w.cmd = <<>> /\ Append(w.cmd, log.typed + 1) = <<log.typed + 1>>
      BY <2>3 DEF CanSubmit
    <3>2. Part' = Add(Part, "cmd", log.typed + 1)
      BY <1>1, <1>4, <2>1, <2>2, <2>3, <3>1, PartValues, AddPart
    <3>3. ui.mode = "editor"
      BY <1>1, <2>3 DEF TypePrompt, UiAt, UiOK, BatchPcs, Closing
    <3>. QED BY <1>1, <1>4, <2>1, <2>3, <3>2, <3>3, AddedKept
  <2>4. CASE /\ TypePrompt /\ w' = w
             /\ ui'.queue = Append(ui.queue, log.typed + 1) /\ ui'.input = ui.input
             /\ log'.typed = log.typed + 1
    <3>1. Part' = Add(Part, "queue", log.typed + 1)
      BY <1>1, <1>4, <2>1, <2>2, <2>4, PartValues, AddPart
    <3>2. ui.mode = "editor"
      BY <1>1, <2>4 DEF TypePrompt, UiAt, UiOK, BatchPcs, Closing
    <3>. QED BY <1>1, <1>4, <2>1, <2>4, <3>1, <3>2, AddedKept
  <2>5. CASE /\ PollInput /\ w' = w
             /\ ui'.queue = ui.queue /\ ui'.input = <<log.typed + 1>>
             /\ log'.typed = log.typed + 1
    <3>1. ui.input = <<>>
      BY <1>1, <2>5 DEF PollInput, UiAt, PlacesOK, InputPcs, Closing
    <3>2. Append(ui.input, log.typed + 1) = <<log.typed + 1>>
      BY <3>1
    <3>3. Part' = Add(Part, "input", log.typed + 1)
      BY <1>1, <1>4, <2>1, <2>2, <2>5, <3>2, PartValues, AddPart
    <3>. QED BY <1>1, <1>4, <2>1, <2>5, <3>3, AddedKept
  <2>6. CASE /\ PollInput /\ w' = w
             /\ ui'.queue = ui.queue /\ ui'.input = ui.input /\ log'.typed = log.typed
    BY <1>1, <2>1, <2>6, SamePart, StillKept DEF SamePlaces
  <2>. QED BY <1>1, <1>15, <2>3, <2>4, <2>5, <2>6, TypePlaces
<1>16. CASE UiNew
  <2>1. /\ UNCHANGED <<drain, worker>> /\ w'.cmd = w.cmd
        /\ ui'.mode = ui.mode /\ ui'.hand = ui.hand
        /\ ui'.input = ui.input /\ ui'.queue = ui.queue /\ ui'.initial = ui.initial
        /\ log'.typed = log.typed /\ log'.lost = log.lost
        /\ \/ session'.transcript = session.transcript /\ log'.gone = log.gone
           \/ /\ session'.transcript = <<>>
              /\ log'.gone = log.gone \union ToSet(session.transcript)
    BY <1>1, <1>16, UiNewFacts
  <2>2. CASE session'.transcript = session.transcript /\ log'.gone = log.gone
    BY <1>1, <2>1, <2>2, SamePart, StillKept DEF SamePlaces
  <2>3. CASE /\ session'.transcript = <<>>
             /\ log'.gone = log.gone \union ToSet(session.transcript)
    <3>1. Part' = Drop(Part, "transcript")
      BY <1>1, <1>4, <2>1, <2>3, DropPart
    <3>. QED BY <1>1, <1>4, <2>1, <2>3, <3>1, PartValues, DroppedKept
  <2>. QED BY <2>1, <2>2, <2>3
<1>. QED BY <1>5, <1>6, <1>7, <1>8, <1>9, <1>10, <1>11, <1>12, <1>13, <1>14, <1>15, <1>16
         DEF Next, WorkerNext, UiNext, UserNext, QuietStep

-----------------------------------------------------------------------------
(* Which places are empty. *)

\* A prompt read goes on to where it is taken; the editor closes only by leaving
\* with its session saved.
LEMMA UiMoves ==
    ASSUME TypesOK, UiOK, UiNext \/ UserNext
    PROVE  /\ ui.mode = "stdin" /\ ui.pc \in InputPcs => ui'.pc \in InputPcs \/ TakeInput
           /\ ui.mode = "editor" /\ ui'.pc \in Closing => ui.pc \in Closing \/ LeaveClean
<1>. DEFINE Goal == /\ ui.mode = "stdin" /\ ui.pc \in InputPcs => ui'.pc \in InputPcs \/ TakeInput
                    /\ ui.mode = "editor" /\ ui'.pc \in Closing => ui.pc \in Closing \/ LeaveClean
<1>1. ui \in UiType /\ (ui.mode = "editor" => ui.pc \in EditorPcs)
  BY DEF TypesOK, UiOK
<1>2. \A pc : UiGoes(pc) => ui'.pc = pc
  BY <1>1 DEF UiGoes, UiType
<1>3. CASE ResetError \/ Interrupt \/ AnswerAsk \/ NoLine \/ RequestSave
  <2>1. ui.pc \notin InputPcs /\ ui'.pc \in {"serve", "consume"}
    BY <1>2, <1>3 DEF ResetError, Interrupt, AnswerAsk, NoLine, RequestSave, Requests, UiAt,
                      InputPcs, Closing
  <2>. QED BY <2>1 DEF Closing
<1>4. CASE UiSave \/ UiNew \/ LeaveNow \/ LeaveCancelled
  <2>1. ui.pc \notin InputPcs /\ ui'.pc \in {"consume", "exited"}
    BY <1>2, <1>4 DEF UiSave, UiNew, LeaveNow, LeaveCancelled, UiAt, InputPcs, Closing
  <2>. QED BY <2>1 DEF Closing
<1>5. CASE TypeSessionCommand \/ TypeRequest \/ TypeExit
  <2>1. ui.pc = "line" /\ \E pc \in {"save", "new", "request", "consume", "pause"} : UiGoes(pc)
    BY <1>5 DEF TypeSessionCommand, TypeRequest, TypeExit, Enters, Requests, UiAt
  <2>2. ui'.pc \in {"save", "new", "request", "consume", "pause"}
    BY <1>2, <2>1
  <2>. QED BY <2>1, <2>2 DEF InputPcs, Closing
<1>6. CASE CtrlC \/ PollWake \/ BatchEnd
  <2>1. \/ ui.mode = "editor" /\ UiGoes("interrupt")
        \/ ui.pc = "poll" /\ UiGoes("drainfd")
        \/ ui.pc = "end"
    BY <1>6 DEF CtrlC, PollWake, BatchEnd, UiAt
  <2>. QED BY <1>1, <1>2, <2>1 DEF InputPcs, Closing, EditorPcs
<1>7. CASE DrainFd \/ Stop \/ Join
  <2>1. DrainFd => ui.pc = "drainfd" /\ UiGoes("consume")
    BY DEF DrainFd, UiAt
  <2>2. Stop => ui.pc = "stop" /\ UiGoes("joining")
    BY DEF Stop, UiAt
  <2>3. Join => ui.pc = "joining" /\ UiGoes("done")
    BY DEF Join, UiAt
  <2>. QED BY <1>2, <1>7, <2>1, <2>2, <2>3 DEF InputPcs, Closing
<1>8. CASE LeaveClean
  <2>1. ui.pc = "leaving"
    BY <1>8 DEF LeaveClean, UiAt
  <2>. QED BY <1>8, <2>1 DEF InputPcs, Closing
<1>9. CASE Consume
  <2>1. ui'.pc = IF w.state = "ERROR" /\ ui.mode = "editor" THEN "reset" ELSE "serve"
    BY <1>1, <1>9 DEF Consume, UiType
  <2>. QED BY <2>1 DEF InputPcs, Closing
<1>10. CASE TakeDrain \/ AnswerDrain
  <2>1. ui'.pc \in {"answer", "consume", "input"}
    BY <1>10, HandPlaces
  <2>. QED BY <2>1 DEF InputPcs, Closing
<1>11. CASE TakeAsk
  <2>1. ui.mode = "editor" /\ ui'.pc = "prompting"
    BY <1>1, <1>11 DEF TakeAsk, UiOK, UiType
  <2>. QED BY <2>1 DEF Closing
<1>12. CASE SubmitQueue \/ BatchTop \/ TypePrompt
  <2>1. /\ SubmitQueue => ui.mode = "editor" /\ ui'.pc = "line"
        /\ BatchTop => ui.pc = "top" /\ ui'.pc = "poll"
        /\ TypePrompt => ui.pc = "line" /\ ui'.pc = "consume"
    BY SubmittingFacts
  <2>. QED BY <1>12, <2>1 DEF InputPcs, Closing
<1>13. CASE TakeInput
  <2>1. ui.mode # "editor"
    BY <1>1, <1>13, SubmittingFacts DEF EditorPcs, Closing
  <2>. QED BY <1>13, <2>1
<1>14. CASE Pause \/ PauseEnds
  <2>1. ui.pc \in {"pause", "pausing"} /\ ui'.pc \in {"pausing", "leaving"}
    BY <1>14, PauseFacts
  <2>. QED BY <2>1 DEF InputPcs, Closing
<1>15. CASE PollInput
  <2>1. ui'.pc \in {"drainfd", "consume"}
    BY <1>1, <1>15 DEF PollInput, UiType
  <2>. QED BY <2>1 DEF InputPcs, Closing
<1>. QED BY <1>3, <1>4, <1>5, <1>6, <1>7, <1>8, <1>9, <1>10, <1>11, <1>12, <1>13, <1>14, <1>15
         DEF UiNext, UserNext

\* What becomes of the session in a step.
LEMMA SessionMoves ==
    ASSUME TypesOK, Next
    PROVE  \/ session' = session
           \/ session' = Written \/ session'.transcript = <<>>
           \/ /\ worker.pc = "compacting" /\ ui' = ui
              /\ session' = [session EXCEPT !.dirty = TRUE]
           \/ AppendUser
<1>1. CASE WorkerNext /\ ~AppendUser
  <2>1. CASE Compacted
    BY <2>1, CompactedFacts
  <2>2. CASE Saved
    BY <2>2 DEF Saved, WorkerAt
  <2>3. CASE ~Compacted /\ ~Saved
    <3>1. session' = session
      BY <1>1, <2>3 DEF WorkerNext, Boot, Park, Wait, Pick, Stopping, TurnInterrupted, TurnFails,
             Prefilled, Generated, Answered, ToolRuns, Ask, AskEnds, RequestDrain, DrainEnds,
             TakeDeferred
    <3>. QED BY <3>1
  <2>. QED BY <2>1, <2>2, <2>3
<1>2. CASE UiNext \/ UserNext
  <2>1. CASE UiSave
    BY <2>1 DEF UiSave
  <2>2. CASE UiNew
    <3>1. session' = session \/ session' = Written \/ session'.transcript = <<>>
      BY <2>2, UiNewFacts
    <3>. QED BY <2>2, <3>1
  <2>3. CASE LeaveClean
    BY <2>3 DEF LeaveClean
  <2>. QED BY <1>2, <2>1, <2>2, <2>3, UiStepFacts
<1>. QED BY <1>1, <1>2 DEF Next

LEMMA PlacesKept ==
    ASSUME PromptsInv, Next
    PROVE  PlacesOK'
<1>1. TypesOK /\ WorkerOK /\ UiOK /\ HandOverOK /\ PlacesOK
  BY DEF PromptsInv, TurnInv, AgentInv
<1>2. /\ session \in SessionType /\ worker \in WorkerType /\ ui \in UiType
      /\ ui.initial \in Seq(Nat) /\ ui.queue \in Seq(Nat) /\ ui.input \in Seq(Nat)
  BY <1>1, PartTyped, PartValues DEF Parts, TypesOK
<1>3. WorkerNext => ui' = ui
  BY <1>1, WorkerStepFacts
<1>4. UiNext \/ UserNext => worker' = worker /\ ui'.mode = ui.mode
  BY <1>1, UiStepFacts
<1>5. worker'.pc # "admit" => worker'.turn = <<>>
  <2>1. CASE UiNext \/ UserNext
    BY <1>1, <1>4, <2>1 DEF PlacesOK
  <2>2. CASE Answered \/ TurnInterrupted \/ TurnFails \/ AppendUser
    BY <1>1, <2>2, TurnPlaces
  <2>3. CASE Pick
    <3>1. worker.turn = <<>>
      BY <1>1, <2>3, PickFacts DEF PlacesOK
    <3>. QED BY <1>1, <2>3, <3>1, PickFacts
  <2>4. CASE RequestDrain
    <3>1. worker.turn = <<>>
      BY <1>1, <2>4, RequestDrainFacts DEF PlacesOK
    <3>. QED BY <1>1, <2>4, <3>1, RequestDrainFacts
  <2>5. CASE DrainEnds
    <3>1. worker.turn = <<>>
      BY <1>1, <2>5, DrainEndsFacts DEF PlacesOK
    <3>. QED BY <1>1, <2>5, <3>1, DrainEndsFacts
  <2>6. CASE \/ Boot \/ Park \/ Wait \/ Stopping \/ Prefilled \/ Generated \/ ToolRuns
             \/ Ask \/ AskEnds \/ TakeDeferred \/ Compacted \/ Saved
    <3>1. worker.pc # "admit"
      BY <2>6 DEF Boot, Park, Wait, Stopping, Prefilled, Generated, ToolRuns, Ask, AskEnds,
                  TakeDeferred, Compacted, Saved, WorkerAt
    <3>2. worker'.turn = worker.turn
      BY <1>1, <2>6, QuietFacts DEF QuietStep, SamePlaces
    <3>. QED BY <1>1, <3>1, <3>2 DEF PlacesOK
  <2>. QED BY <2>1, <2>2, <2>3, <2>4, <2>5, <2>6 DEF Next, WorkerNext
<1>6. /\ ui'.mode = ui.mode
      /\ ui'.input \in {ui.input, <<>>} \/ PollInput
      /\ ui'.initial \in {ui.initial, <<>>}
      /\ ui'.queue \in {ui.queue, <<>>, ui.queue \o ui.input} \/ TypePrompt
  <2>1. CASE QuietStep
    BY <1>1, <2>1, QuietFacts DEF SamePlaces
  <2>2. CASE TakeDrain \/ AnswerDrain
    BY <1>1, <2>2, HandPlaces
  <2>3. CASE SubmitQueue \/ BatchTop \/ TakeInput
    BY <1>1, <2>3, SubmitPlaces
  <2>4. CASE TypePrompt \/ PollInput
    BY <1>1, <2>4, TypePlaces
  <2>5. CASE UiNew
    BY <1>1, <2>5, UiNewFacts
  <2>6. CASE WorkerNext
    BY <1>3, <2>6
  <2>. QED BY <2>1, <2>2, <2>3, <2>4, <2>5, <2>6 DEF Next, UiNext, UserNext, QuietStep
<1>7. ui'.input # <<>> => ui'.mode = "stdin" /\ ui'.pc \in InputPcs
  <2>. SUFFICES ASSUME ui'.input # <<>>
                PROVE  ui'.mode = "stdin" /\ ui'.pc \in InputPcs
    OBVIOUS
  <2>1. ui.input # <<>> => ui.mode = "stdin" /\ ui.pc \in InputPcs
    BY <1>1 DEF PlacesOK, InputPcs
  <2>2. CASE WorkerNext
    BY <1>3, <2>1, <2>2
  <2>3. CASE TakeInput
    <3>1. ui' = [ui EXCEPT !.pc = "stop"]
      <4>. DEFINE taken == [ui EXCEPT !.pc = "end", !.input = <<>>]
      <4>1. \/ ui' = [ui EXCEPT !.pc = "stop"] \/ ui' = taken
            \/ ui' = [taken EXCEPT !.queue = taken.queue \o ui.input]
        BY <2>3 DEF TakeInput, UiGoes
      <4>2. <<>> \in Seq(Nat) /\ "end" \in EditorPcs \union BatchPcs
        BY DEF BatchPcs
      <4>3. taken \in UiType /\ taken.input = <<>>
        BY <1>2, <4>2 DEF UiType
      <4>. HIDE DEF taken
      <4>4. ui' # taken /\ ui' # [taken EXCEPT !.queue = taken.queue \o ui.input]
        BY <4>3 DEF UiType
      <4>. QED BY <4>1, <4>4
    <3>2. ui'.input = ui.input /\ ui'.pc = "stop"
      BY <1>2, <3>1 DEF UiType
    <3>. QED BY <1>6, <2>1, <3>2 DEF InputPcs, Closing
  <2>4. CASE PollInput
    BY <1>2, <1>6, <2>4 DEF PollInput, UiType, InputPcs
  <2>5. CASE (UiNext \/ UserNext) /\ ~TakeInput /\ ~PollInput
    <3>1. ui'.input = ui.input
      BY <1>6, <2>5
    <3>. QED BY <1>1, <1>6, <2>1, <2>5, <3>1, UiMoves
  <2>. QED BY <2>2, <2>3, <2>4, <2>5 DEF Next
<1>8. ui'.mode = "stdin" => ui'.initial = <<>>
  BY <1>1, <1>6 DEF PlacesOK
<1>9. ui'.mode = "oneshot" => ui'.queue = <<>>
  <2>. SUFFICES ASSUME ui.mode = "oneshot"
                PROVE  ui'.queue = <<>>
    BY <1>6
  <2>1. ui.queue = <<>> /\ ui.input = <<>>
    BY <1>1 DEF PlacesOK
  <2>2. ui.queue \o ui.input = <<>>
    BY <2>1
  <2>3. ~TypePrompt
    BY <1>1 DEF TypePrompt, UiAt, UiOK, BatchPcs, Closing
  <2>. QED BY <1>6, <2>1, <2>2, <2>3
\* What the session file holds.
<1>10. CASE session' = session
  <2>1. ui'.mode = "editor" /\ ui'.pc \in Closing =>
           ToSet(session.transcript) \subseteq ToSet(session.saved)
    <3>1. CASE WorkerNext
      BY <1>1, <1>3, <3>1 DEF PlacesOK
    <3>2. CASE LeaveClean
      <4>1. NeedsSave => session = Written
        BY <1>10, <3>2 DEF LeaveClean
      <4>2. NeedsSave => session.saved = session.transcript
        BY <1>2, <4>1 DEF Written, SessionType
      <4>. QED BY <1>1, <4>2 DEF PlacesOK
    <3>3. CASE (UiNext \/ UserNext) /\ ~LeaveClean
      BY <1>1, <1>4, <3>3, UiMoves DEF PlacesOK
    <3>. QED BY <3>1, <3>2, <3>3 DEF Next
  <2>2. NeedsSave' <=> NeedsSave
    BY <1>10 DEF NeedsSave
  <2>3. session'.transcript = session.transcript /\ session'.saved = session.saved
    BY <1>10
  <2>4. ~NeedsSave' => ToSet(session'.transcript) \subseteq ToSet(session'.saved)
    BY <1>1, <2>2, <2>3 DEF PlacesOK
  <2>. QED BY <1>5, <1>7, <1>8, <1>9, <2>1, <2>3, <2>4 DEF PlacesOK, InputPcs
<1>11. CASE session' = Written \/ session'.transcript = <<>>
  <2>1. session'.transcript = session'.saved \/ session'.transcript = <<>>
    BY <1>2, <1>11 DEF Written, SessionType
  <2>2. ToSet(session'.transcript) \subseteq ToSet(session'.saved)
    BY <2>1 DEF ToSet
  <2>. QED BY <1>5, <1>7, <1>8, <1>9, <2>2 DEF PlacesOK, InputPcs
<1>12. CASE /\ worker.pc = "compacting" /\ ui' = ui
            /\ session' = [session EXCEPT !.dirty = TRUE]
  <2>1. /\ session'.transcript = session.transcript /\ session'.saved = session.saved
        /\ session'.dirty /\ session'.activity = session.activity
    BY <1>2, <1>12 DEF SessionType
  <2>2. ~NeedsSave' => ToSet(session'.transcript) \subseteq ToSet(session'.saved)
    BY <1>1, <2>1 DEF PlacesOK, NeedsSave
  <2>3. ~(ui.mode = "editor" /\ ui.pc \in Closing)
    <3>1. w.active
      BY <1>1, <1>12 DEF WorkerOK, WorkerHoldsSession
    <3>. QED BY <1>1, <3>1 DEF UiOK, Holds
  <2>. QED BY <1>5, <1>7, <1>8, <1>9, <1>12, <2>2, <2>3 DEF PlacesOK, InputPcs
<1>13. CASE AppendUser
  <2>1. /\ worker.pc = "admit" /\ session'.dirty /\ session'.activity /\ ui' = ui
    BY <1>1, <1>13, TurnPlaces
  <2>2. NeedsSave'
    BY <2>1 DEF NeedsSave
  <2>3. ~(ui.mode = "editor" /\ ui.pc \in Closing)
    <3>1. w.active
      BY <1>1, <2>1 DEF WorkerOK, WorkerHoldsSession
    <3>. QED BY <1>1, <3>1 DEF UiOK, Holds
  <2>. QED BY <1>5, <1>7, <1>8, <1>9, <2>1, <2>2, <2>3 DEF PlacesOK, InputPcs
<1>. QED BY <1>1, <1>10, <1>11, <1>12, <1>13, SessionMoves

-----------------------------------------------------------------------------
(* The inductive invariant. *)

LEMMA PromptsInit ==
    ASSUME Init
    PROVE  PromptsInv
<1>1. TurnInv
  BY TurnInit
<1>2. PICK m \in Modes, initial \in {<<>>, <<1>>} :
        /\ (m = "oneshot" => initial # <<>>) /\ (m = "stdin" => initial = <<>>)
        /\ ui = [mode |-> m, pc |-> IF m = "editor" THEN "consume" ELSE "top",
                 queue |-> <<>>, hand |-> <<>>, input |-> <<>>, initial |-> initial,
                 open |-> FALSE, eof |-> FALSE, error |-> FALSE, req |-> 0]
        /\ log = [typed |-> Len(initial), interrupts |-> 0, commands |-> 0,
                  gone |-> {}, lost |-> {}, asked |-> FALSE]
  BY DEF Init
<1>3. /\ session = EmptySession /\ drain.text = <<>> /\ w.cmd = <<>> /\ worker.turn = <<>>
      /\ session.transcript = <<>> /\ ~session.activity
  BY DEF Init, NoDrain, EmptySession
<1>4. /\ ui.hand = <<>> /\ ui.queue = <<>> /\ ui.input = <<>> /\ ui.initial = initial
      /\ ui.mode = m /\ ui.pc \in {"consume", "top"}
      /\ log.typed = Len(initial) /\ log.gone = {} /\ log.lost = {}
  BY <1>2
<1>5. DOMAIN <<>> = {} /\ DOMAIN <<1>> = {1} /\ Len(<<>>) = 0 /\ Len(<<1>>) = 1
  OBVIOUS
<1>6. PlacesOK
  <2>1. ToSet(session.transcript) = {}
    BY <1>3, <1>5 DEF ToSet
  <2>2. ~NeedsSave /\ ui.pc \notin Closing
    BY <1>3, <1>4 DEF NeedsSave, Closing
  <2>. QED BY <1>2, <1>3, <1>4, <2>1, <2>2 DEF PlacesOK
<1>7. \A k \in Parts : Part[k] = IF k = "initial" THEN initial ELSE <<>>
  BY <1>3, <1>4, PartValues DEF Parts
<1>8. \A k \in Parts : \A i \in DOMAIN Part[k] :
        k = "initial" /\ initial = <<1>> /\ i = 1 /\ Part[k][i] = 1
  BY <1>2, <1>5, <1>7
<1>9. Kept = 1 .. Len(initial)
  BY <1>4 DEF Kept
<1>10. Apart(Part) /\ Ordered(Part)
  <2>1. Apart(Part)
    BY <1>8 DEF Apart
  <2>2. ASSUME NEW k \in Parts, NEW l \in Parts, NEW i \in DOMAIN Part[k],
               NEW j \in DOMAIN Part[l]
        PROVE  k = l /\ i = j /\ i = 1
    BY <1>8
  <2>3. \A k \in Parts : ~(Rank[k] < Rank[k])
    BY RankType
  <2>. QED BY <2>1, <2>2, <2>3 DEF Ordered
<1>11. Covers(Part, Kept)
  <2>1. CASE initial = <<>>
    <3>1. Kept = {}
      BY <1>5, <1>9, <2>1
    <3>. QED BY <1>5, <1>8, <2>1, <3>1 DEF Covers
  <2>2. CASE initial = <<1>>
    <3>1. Kept = {1}
      BY <1>5, <1>9, <2>2
    <3>2. "initial" \in Parts /\ 1 \in DOMAIN Part["initial"] /\ Part["initial"][1] = 1
      BY <1>5, <1>7, <2>2 DEF Parts
    <3>. QED BY <1>8, <3>1, <3>2 DEF Covers
  <2>. QED BY <1>2, <2>1, <2>2
<1>. QED BY <1>1, <1>4, <1>6, <1>10, <1>11 DEF PromptsInv, PartsOK

LEMMA PromptsNext ==
    ASSUME PromptsInv, [Next]_vars
    PROVE  PromptsInv'
<1>1. TurnInv'
  BY TurnNext DEF PromptsInv
<1>2. CASE Next
  BY <1>1, <1>2, PlacesKept, PartsKept DEF PromptsInv
<1>3. CASE UNCHANGED vars
  <2>1. SamePlaces /\ SameHistory /\ ui' = ui /\ worker' = worker /\ session' = session
    BY <1>3 DEF vars, SamePlaces, SameHistory
  <2>2. PartsOK'
    BY <2>1, SamePart, StillKept DEF PromptsInv, SameHistory
  <2>3. PlacesOK'
    BY <2>1 DEF PromptsInv, PlacesOK, NeedsSave
  <2>. QED BY <1>1, <2>2, <2>3 DEF PromptsInv
<1>. QED BY <1>2, <1>3

LEMMA PromptsInvAlways == Spec => []PromptsInv
<1>1. Init => PromptsInv
  BY PromptsInit
<1>2. PromptsInv /\ [Next]_vars => PromptsInv'
  BY PromptsNext
<1>. QED BY <1>1, <1>2, PTL DEF Spec

-----------------------------------------------------------------------------
(* The places laid end to end. *)

Rises(s) == \A i, j \in DOMAIN s : i < j => s[i] < s[j]

\* Two sequences with nothing in common, laid end to end.
LEMMA EndToEnd ==
    ASSUME NEW s \in Seq(Nat), NEW t \in Seq(Nat), IsInjective(s), IsInjective(t),
           ToSet(s) \intersect ToSet(t) = {}
    PROVE  /\ s \o t \in Seq(Nat) /\ ToSet(s \o t) = ToSet(s) \union ToSet(t)
           /\ IsInjective(s \o t)
           /\ Rises(s) /\ Rises(t) /\ (\A p \in ToSet(s), q \in ToSet(t) : p < q)
              => Rises(s \o t)
<1>. DEFINE u == s \o t
            a == Len(s)
            b == Len(t)
<1>1. a \in Nat /\ b \in Nat /\ DOMAIN s = 1 .. a /\ DOMAIN t = 1 .. b
  BY LenProperties
<1>2. /\ u \in Seq(Nat) /\ DOMAIN u = 1 .. a + b
      /\ \A i \in 1 .. a + b : u[i] = IF i <= a THEN s[i] ELSE t[i - a]
  BY <1>1, ConcatProperties, LenProperties
<1>. HIDE DEF u, a, b
<1>3. \A i \in DOMAIN u : \/ i \in DOMAIN s /\ u[i] = s[i] /\ s[i] \in ToSet(s)
                          \/ /\ i > a /\ i - a \in DOMAIN t /\ u[i] = t[i - a]
                             /\ t[i - a] \in ToSet(t)
  BY <1>1, <1>2 DEF ToSet
<1>4. \A i \in DOMAIN s : i \in DOMAIN u /\ u[i] = s[i]
  BY <1>1, <1>2
<1>5. \A i \in DOMAIN t : i + a \in DOMAIN u /\ u[i + a] = t[i]
  <2>. TAKE i \in DOMAIN t
  <2>1. i + a \in 1 .. a + b /\ ~(i + a <= a) /\ (i + a) - a = i
    BY <1>1
  <2>. QED BY <1>2, <2>1
<1>6. ToSet(u) = ToSet(s) \union ToSet(t)
  <2>1. ToSet(u) \subseteq ToSet(s) \union ToSet(t)
    BY <1>3 DEF ToSet
  <2>2. ToSet(s) \subseteq ToSet(u)
    BY <1>4 DEF ToSet
  <2>3. ToSet(t) \subseteq ToSet(u)
    BY <1>5 DEF ToSet
  <2>. QED BY <2>1, <2>2, <2>3
<1>7. IsInjective(u)
  <2>. SUFFICES ASSUME NEW i \in DOMAIN u, NEW j \in DOMAIN u, u[i] = u[j]
                PROVE  i = j
    BY DEF IsInjective
  <2>1. \/ i \in DOMAIN s /\ j \in DOMAIN s /\ s[i] = s[j]
        \/ /\ i - a \in DOMAIN t /\ j - a \in DOMAIN t /\ t[i - a] = t[j - a]
    BY <1>3
  <2>2. i \in DOMAIN s /\ j \in DOMAIN s /\ s[i] = s[j] => i = j
    BY DEF IsInjective
  <2>3. /\ i - a \in DOMAIN t /\ j - a \in DOMAIN t /\ t[i - a] = t[j - a]
        => i - a = j - a
    BY DEF IsInjective
  <2>4. i \in Int /\ j \in Int
    BY <1>1, <1>2
  <2>. QED BY <1>1, <2>1, <2>2, <2>3, <2>4
<1>8. ASSUME Rises(s), Rises(t), \A p \in ToSet(s), q \in ToSet(t) : p < q
      PROVE  Rises(u)
  <2>. SUFFICES ASSUME NEW i \in DOMAIN u, NEW j \in DOMAIN u, i < j
                PROVE  u[i] < u[j]
    BY DEF Rises
  <2>1. CASE i \in DOMAIN s /\ j \in DOMAIN s
    BY <1>4, <1>8, <2>1 DEF Rises
  <2>2. CASE i \in DOMAIN s /\ j \notin DOMAIN s
    BY <1>3, <1>8, <2>2, <1>4 DEF ToSet
  <2>3. CASE i \notin DOMAIN s
    <3>1. i > a /\ i - a \in DOMAIN t /\ u[i] = t[i - a]
      BY <1>3, <2>3
    <3>2. j > a /\ j - a \in DOMAIN t /\ u[j] = t[j - a]
      BY <1>1, <1>2, <1>3, <3>1
    <3>3. i - a < j - a
      BY <1>1, <1>2
    <3>. QED BY <1>8, <3>1, <3>2, <3>3 DEF Rises
  <2>. QED BY <2>1, <2>2, <2>3
<1>. QED BY <1>2, <1>6, <1>7, <1>8 DEF u

\* The places in K laid end to end.
Joined(s, K) ==
    /\ s \in Seq(Nat) /\ IsInjective(s)
    /\ \A p : p \in ToSet(s) <=> \E k \in K : p \in ToSet(Part[k])
    /\ ui.mode # "editor" => Rises(s)

LEMMA OnePlace ==
    ASSUME TypesOK, PartsOK, NEW k \in Parts
    PROVE  Joined(Part[k], {k})
<1>1. Part \in [Parts -> Seq(Nat)]
  BY PartTyped
<1>2. IsInjective(Part[k])
  <2>1. Apart(Part)
    BY DEF PartsOK
  <2>. QED BY <2>1 DEF Apart, IsInjective
<1>3. ui.mode # "editor" => Rises(Part[k])
  <2>1. ui.mode # "editor" => Ordered(Part)
    BY DEF PartsOK
  <2>. QED BY <2>1 DEF Ordered, Rises
<1>. QED BY <1>1, <1>2, <1>3 DEF Joined

LEMMA OneMorePlace ==
    ASSUME TypesOK, PartsOK, NEW K \in SUBSET Parts, NEW s, Joined(s, K), NEW k \in Parts,
           \A m \in K : Rank[m] < Rank[k]
    PROVE  Joined(s \o Part[k], K \union {k})
<1>. DEFINE t == Part[k]
<1>1. Joined(t, {k})
  BY OnePlace
<1>2. s \in Seq(Nat) /\ t \in Seq(Nat) /\ IsInjective(s) /\ IsInjective(t)
  BY <1>1 DEF Joined
<1>3. \A m \in K : m # k
  BY RankType
<1>4. ToSet(s) \intersect ToSet(t) = {}
  <2>. SUFFICES ASSUME NEW p \in ToSet(s), p \in ToSet(t)
                PROVE  FALSE
    OBVIOUS
  <2>1. PICK m \in K : p \in ToSet(Part[m])
    BY DEF Joined
  <2>2. PICK i \in DOMAIN Part[m] : Part[m][i] = p
    BY <2>1 DEF ToSet
  <2>3. PICK j \in DOMAIN Part[k] : Part[k][j] = p
    BY DEF ToSet
  <2>4. Apart(Part)
    BY DEF PartsOK
  <2>5. m = k
    BY <2>2, <2>3, <2>4 DEF Apart
  <2>. QED BY <1>3, <2>5
<1>5. ui.mode # "editor" => \A p \in ToSet(s), q \in ToSet(t) : p < q
  <2>. SUFFICES ASSUME ui.mode # "editor", NEW p \in ToSet(s), NEW q \in ToSet(t)
                PROVE  p < q
    OBVIOUS
  <2>1. PICK m \in K : p \in ToSet(Part[m])
    BY DEF Joined
  <2>2. PICK i \in DOMAIN Part[m] : Part[m][i] = p
    BY <2>1 DEF ToSet
  <2>3. PICK j \in DOMAIN Part[k] : Part[k][j] = q
    BY DEF ToSet
  <2>4. Ordered(Part)
    BY DEF PartsOK
  <2>. QED BY <2>2, <2>3, <2>4 DEF Ordered
<1>6. ui.mode # "editor" => Rises(s) /\ Rises(t)
  BY <1>1 DEF Joined
<1>. HIDE DEF t
<1>7. /\ s \o t \in Seq(Nat) /\ ToSet(s \o t) = ToSet(s) \union ToSet(t)
      /\ IsInjective(s \o t) /\ (ui.mode # "editor" => Rises(s \o t))
  BY <1>2, <1>4, <1>5, <1>6, EndToEnd
<1>8. \A p : p \in ToSet(s \o t) <=> \E m \in K \union {k} : p \in ToSet(Part[m])
  <2>1. \A p : p \in ToSet(s) <=> \E m \in K : p \in ToSet(Part[m])
    BY DEF Joined
  <2>. QED BY <1>7, <2>1 DEF t
<1>9. Joined(s \o t, K \union {k})
  BY <1>7, <1>8 DEF Joined
<1>. QED BY <1>9 DEF t

LEMMA PlacesJoined ==
    ASSUME TypesOK, PartsOK
    PROVE  Joined(Places, Parts)
<1>1. /\ {"transcript", "turn", "text", "hand", "cmd", "initial", "queue", "input"} = Parts
      /\ Rank["transcript"] = 1 /\ Rank["turn"] = 2 /\ Rank["text"] = 3 /\ Rank["hand"] = 4
      /\ Rank["cmd"] = 5 /\ Rank["initial"] = 6 /\ Rank["queue"] = 7 /\ Rank["input"] = 8
  BY DEF Parts, Rank
<1>. DEFINE K1 == {"transcript"}
            K2 == K1 \union {"turn"}
            K3 == K2 \union {"text"}
            K4 == K3 \union {"hand"}
            K5 == K4 \union {"cmd"}
            K6 == K5 \union {"initial"}
            K7 == K6 \union {"queue"}
            s1 == Part["transcript"]
            s2 == s1 \o Part["turn"]
            s3 == s2 \o Part["text"]
            s4 == s3 \o Part["hand"]
            s5 == s4 \o Part["cmd"]
            s6 == s5 \o Part["initial"]
            s7 == s6 \o Part["queue"]
            s8 == s7 \o Part["input"]
<1>2. /\ K1 \in SUBSET Parts /\ \A m \in K1 : Rank[m] < Rank["turn"]
      /\ K2 \in SUBSET Parts /\ \A m \in K2 : Rank[m] < Rank["text"]
      /\ K3 \in SUBSET Parts /\ \A m \in K3 : Rank[m] < Rank["hand"]
  BY <1>1
<1>3. /\ K4 \in SUBSET Parts /\ \A m \in K4 : Rank[m] < Rank["cmd"]
      /\ K5 \in SUBSET Parts /\ \A m \in K5 : Rank[m] < Rank["initial"]
  BY <1>1
<1>4. /\ K6 \in SUBSET Parts /\ \A m \in K6 : Rank[m] < Rank["queue"]
      /\ K7 \in SUBSET Parts /\ \A m \in K7 : Rank[m] < Rank["input"]
      /\ K7 \union {"input"} = Parts
  BY <1>1
<1>5. Joined(s1, K1)
  BY <1>1, OnePlace
<1>6. s8 = Places
  BY PartValues DEF Places
<1>. HIDE DEF K1, s1
<1>7. Joined(s2, K2)
  BY <1>1, <1>2, <1>5, OneMorePlace
<1>. HIDE DEF K2, s2
<1>8. Joined(s3, K3)
  BY <1>1, <1>2, <1>7, OneMorePlace
<1>. HIDE DEF K3, s3
<1>9. Joined(s4, K4)
  BY <1>1, <1>2, <1>8, OneMorePlace
<1>. HIDE DEF K4, s4
<1>10. Joined(s5, K5)
  BY <1>1, <1>3, <1>9, OneMorePlace
<1>. HIDE DEF K5, s5
<1>11. Joined(s6, K6)
  BY <1>1, <1>3, <1>10, OneMorePlace
<1>. HIDE DEF K6, s6
<1>12. Joined(s7, K7)
  BY <1>1, <1>4, <1>11, OneMorePlace
<1>. HIDE DEF K7, s7
<1>13. Joined(s8, K7 \union {"input"})
  BY <1>1, <1>4, <1>12, OneMorePlace
<1>. QED BY <1>4, <1>6, <1>13

\* No prompt of the agent is lost, doubled or overtaken, whatever turns end by
\* themselves, fail or are interrupted, and however the front end, its queue, the
\* worker and the prompts handed over during a tool round interleave; and leaving
\* the editor in the orderly way leaves nothing unsaved.
THEOREM PromptsAreKept == Spec => []PromptsKept
<1>1. PromptsInv => PromptsKept
  <2>. SUFFICES ASSUME PromptsInv
                PROVE  PromptsKept
    OBVIOUS
  <2>1. TypesOK /\ HandOverOK /\ PlacesOK /\ PartsOK
    BY DEF PromptsInv, TurnInv, AgentInv
  <2>2. Joined(Places, Parts)
    BY <2>1, PlacesJoined
  <2>3. Places \in Seq(Nat) /\ IsInjective(Places) /\ (ui.mode # "editor" => Rises(Places))
    BY <2>2 DEF Joined
  <2>4. ToSet(Places) = Kept
    <3>1. Covers(Part, Kept)
      BY <2>1 DEF PartsOK
    <3>2. \A p : p \in Kept <=> \E k \in Parts : p \in ToSet(Part[k])
      BY <3>1 DEF Covers, ToSet
    <3>3. \A p : p \in ToSet(Places) <=> \E k \in Parts : p \in ToSet(Part[k])
      BY <2>2 DEF Joined
    <3>. QED BY <3>2, <3>3
  <2>5. log.lost # {} => ui.mode = "editor" /\ log.interrupts > 0
    BY <2>1 DEF HandOverOK, Interrupted
  <2>6. ui.mode = "editor" /\ ui.pc \in {"stop", "joining", "done"} =>
          ToSet(session.transcript) \subseteq ToSet(session.saved)
    BY <2>1 DEF PlacesOK, Closing
  <2>7. ui.mode # "editor" => \A i, j \in 1 .. Len(Places) : i < j => Places[i] < Places[j]
    <3>1. DOMAIN Places = 1 .. Len(Places)
      BY <2>3, LenProperties
    <3>. QED BY <2>3, <3>1 DEF Rises
  <2>8. ToSet(Places) = (1 .. log.typed) \ (log.gone \union log.lost)
    BY <2>4 DEF Kept
  <2>. QED BY <2>3, <2>5, <2>6, <2>7, <2>8 DEF PromptsKept
<1>. QED BY <1>1, PromptsInvAlways, PTL
================================================================================
