------------------------- MODULE SseTransportProofs -------------------------
(***************************************************************************)
(* A page that connects to the monitor shows a beginning of one run, and    *)
(* the whole of the present run once it is live and has received what was   *)
(* written: for any number of pages, connections, runs and events.          *)
(*                                                                         *)
(* ShowsBeginningOfRun speaks of what a page shows and LiveShowsAll of what *)
(* its socket holds; neither is inductive.  The invariant follows each      *)
(* message from the array it was taken from through the socket to the page: *)
(* a socket is a row of blocks, each of which begins with an init and is a  *)
(* beginning of its run (Blocks), the part before the first init goes on    *)
(* where the page stopped (Joins), and the end of the socket is where the   *)
(* server stopped writing (BlocksEnd, JoinsEnd).                            *)
(***************************************************************************)
EXTENDS SseTransport, SequenceTheorems, WellFoundedInduction, TLAPS

-----------------------------------------------------------------------------
\* The operators of the invariant, on a socket s, the arrays rs of the runs, a
\* page's messages sn of run sr and the run o that an init overtook.

NoInit(s, a, b) == \A i \in a..b : s[i].msg # Init_

\* An init that a page takes for the beginning of a run it follows.
Fresh(s, o, k) == s[k].msg = Init_ /\ s[k].run # o

Blocks(rs, s, o) ==
  \A k, j \in 1..Len(s) : k <= j /\ Fresh(s, o, k) /\ NoInit(s, k + 1, j) =>
    j - k + 1 <= Len(rs[s[k].run]) /\ s[j].msg = rs[s[k].run][j - k + 1]

Joins(rs, s, sn, sr) ==
  \A j \in 1..Len(s) : NoInit(s, 1, j) =>
    sr # 0 /\ Len(sn) + j <= Len(rs[sr]) /\ s[j].msg = rs[sr][Len(sn) + j]

\* The server has written w messages of run r.
BlocksEnd(s, o, r, w) ==
  \A k \in 1..Len(s) : Fresh(s, o, k) /\ NoInit(s, k + 1, Len(s)) =>
    s[k].run = r /\ Len(s) - k + 1 = w

JoinsEnd(s, sn, sr, r, w) == NoInit(s, 1, Len(s)) => sr = r /\ Len(sn) + Len(s) = w

\* The runs of a socket's messages never go back, and none is before o.
RunsAscend(s, o, n) ==
  /\ \A k \in 1..Len(s) : s[k].run \in 1..n /\ o <= s[k].run
  /\ \A k, j \in 1..Len(s) : k <= j => s[k].run <= s[j].run

Shows(rs, sn, sr) == Len(sn) <= Len(rs[sr]) /\ \A j \in 1..Len(sn) : sn[j] = rs[sr][j]

Bounded(s, n) == \A k \in 1..Len(s) : s[k].msg <= n

Message == [msg : Nat, run : Nat]
-----------------------------------------------------------------------------
\* What holds of a client: ph is its phase and rp its replay.

WrittenRun(rs, rp, ph) == IF ph = "replaying" THEN rp.run ELSE Len(rs)
Written(rs, rp, ph) == IF ph = "replaying" THEN rp.next - 1 ELSE Len(rs[Len(rs)])

\* A replay of an array that an init replaced is an overtaken one.
ReplayOK(rs, rp, ph, s, o) ==
  /\ rp.run \in 1..Len(rs) /\ rp.next \in 1..Len(rs[rp.run]) + 1
  /\ ph = "away" => s = <<>>
  /\ ph = "replaying" =>
       /\ rp.run = Len(rs) \/ o = rp.run
       /\ rp.next = 1 => s = <<>>
       /\ \A k \in 1..Len(s) : s[k].run = rp.run

PageOK(rs, n, sn, sr, o) ==
  /\ sr <= Len(rs) /\ o < Len(rs)
  /\ \A j \in 1..Len(sn) : sn[j] <= n
  /\ o = 0 /\ sr # 0 => Shows(rs, sn, sr)

SocketOK(rs, n, s, sn, sr, o) ==
  /\ Bounded(s, n)
  /\ RunsAscend(s, o, Len(rs))
  /\ Blocks(rs, s, o)
  /\ o = 0 => Joins(rs, s, sn, sr)

EndOK(rs, rp, ph, s, sn, sr, o) ==
  ph # "away" =>
    /\ BlocksEnd(s, o, WrittenRun(rs, rp, ph), Written(rs, rp, ph))
    /\ o = 0 /\ ~(ph = "replaying" /\ rp.next = 1) =>
         JoinsEnd(s, sn, sr, WrittenRun(rs, rp, ph), Written(rs, rp, ph))

Types ==
  /\ sent \in 0..MaxEvents
  /\ runs \in Seq(Seq(Nat)) /\ Len(runs) > 0
  /\ replay \in [Client -> [run : Nat, next : Nat]]
  /\ phase \in [Client -> {"away", "replaying", "live"}]
  /\ socket \in [Client -> Seq(Message)]
  /\ seen \in [Client -> Seq(Nat)]
  /\ seenRun \in [Client -> Nat]
  /\ overtaken \in [Client -> Nat]
  /\ connections \in [Client -> Nat]

\* An array begins with the only init there is in it; no message is of the future.
RunOK(a, n) ==
  /\ Len(a) > 0 /\ a[1] = Init_
  /\ \A j \in 2..Len(a) : a[j] # Init_
  /\ \A j \in 1..Len(a) : a[j] <= n

RunsOK == \A i \in 1..Len(runs) : RunOK(runs[i], sent)

ClientOK(c) ==
  /\ ReplayOK(runs, replay[c], phase[c], socket[c], overtaken[c])
  /\ PageOK(runs, sent, seen[c], seenRun[c], overtaken[c])
  /\ SocketOK(runs, sent, socket[c], seen[c], seenRun[c], overtaken[c])
  /\ EndOK(runs, replay[c], phase[c], socket[c], seen[c], seenRun[c], overtaken[c])

\* The inductive invariant.
IInv == Types /\ RunsOK /\ \A c \in Client : ClientOK(c)
-----------------------------------------------------------------------------
\* What is written to a socket is its last message.
LEMMA Written1 ==
  ASSUME NEW s \in Seq(Message), NEW m \in Nat, NEW r \in Nat
  PROVE  /\ Append(s, Msg(m, r)) \in Seq(Message)
         /\ Len(Append(s, Msg(m, r))) = Len(s) + 1 /\ Len(s) \in Nat
         /\ \A k \in 1..Len(s) : Append(s, Msg(m, r))[k] = s[k]
         /\ Append(s, Msg(m, r))[Len(s) + 1].msg = m
         /\ Append(s, Msg(m, r))[Len(s) + 1].run = r
  <1>1. Msg(m, r) \in Message /\ Msg(m, r).msg = m /\ Msg(m, r).run = r
    BY DEF Msg, Message
  <1>2. QED
    BY <1>1, AppendProperties, LenProperties

\* An event goes on with the last block, or with what the page shows.
LEMMA WriteEvent ==
  ASSUME NEW rs, NEW s \in Seq(Message), NEW m \in Nat, NEW r \in Nat, NEW o, NEW w \in Nat,
         m # Init_, w + 1 <= Len(rs[r]), rs[r][w + 1] = m,
         Blocks(rs, s, o), BlocksEnd(s, o, r, w)
  PROVE  Blocks(rs, Append(s, Msg(m, r)), o) /\ BlocksEnd(Append(s, Msg(m, r)), o, r, w + 1)
  <1> DEFINE t == Append(s, Msg(m, r))
  <1>1. /\ t \in Seq(Message) /\ Len(t) = Len(s) + 1 /\ Len(s) \in Nat
        /\ \A k \in 1..Len(s) : t[k] = s[k]
        /\ t[Len(s) + 1].msg = m /\ t[Len(s) + 1].run = r
    BY Written1
  <1> HIDE DEF t
  <1>2. ASSUME NEW k \in 1..Len(t), NEW j \in 1..Len(t), k <= j, Fresh(t, o, k), NoInit(t, k + 1, j)
        PROVE  /\ k \in 1..Len(s) /\ Fresh(s, o, k) /\ NoInit(s, k + 1, IF j = Len(t) THEN Len(s) ELSE j)
               /\ t[k] = s[k]
    <2>1. k # Len(s) + 1
      BY <1>1, <1>2 DEF Fresh
    <2>2. k \in 1..Len(s) /\ t[k] = s[k]
      BY <2>1, <1>1
    <2>3. ASSUME NEW i \in k + 1..IF j = Len(t) THEN Len(s) ELSE j PROVE s[i].msg # Init_
      <3>1. i \in k + 1..j /\ i \in 1..Len(s)
        BY <1>1, <2>2
      <3>2. QED BY <3>1, <1>1, <1>2 DEF NoInit
    <2>4. QED BY <2>2, <2>3, <1>2 DEF Fresh, NoInit
  <1>3. Blocks(rs, t, o)
    <2> SUFFICES ASSUME NEW k \in 1..Len(t), NEW j \in 1..Len(t), k <= j, Fresh(t, o, k), NoInit(t, k + 1, j)
                 PROVE  j - k + 1 <= Len(rs[t[k].run]) /\ t[j].msg = rs[t[k].run][j - k + 1]
      BY DEF Blocks
    <2>1. CASE j = Len(t)
      <3>1. k \in 1..Len(s) /\ Fresh(s, o, k) /\ NoInit(s, k + 1, Len(s)) /\ t[k] = s[k]
        BY <2>1, <1>2
      <3>2. t[k].run = r /\ Len(s) - k + 1 = w
        BY <3>1 DEF BlocksEnd
      <3>3. j = Len(s) + 1 /\ t[j].msg = m
        BY <2>1, <1>1
      <3>5. j - k + 1 = w + 1
        BY <3>2, <3>3, <1>1
      <3>4. QED BY <3>1, <3>2, <3>3, <3>5
    <2>2. CASE j # Len(t)
      <3>1. j \in 1..Len(s) /\ t[j] = s[j]
        BY <2>2, <1>1
      <3>2. k \in 1..Len(s) /\ Fresh(s, o, k) /\ NoInit(s, k + 1, j) /\ t[k] = s[k]
        BY <2>2, <1>2
      <3>3. QED BY <3>1, <3>2 DEF Blocks
    <2>3. QED BY <2>1, <2>2
  <1>4. BlocksEnd(t, o, r, w + 1)
    <2> SUFFICES ASSUME NEW k \in 1..Len(t), Fresh(t, o, k), NoInit(t, k + 1, Len(t))
                 PROVE  t[k].run = r /\ Len(t) - k + 1 = w + 1
      BY DEF BlocksEnd
    <2>1. Len(t) \in 1..Len(t) /\ k <= Len(t)
      BY <1>1
    <2>2. k \in 1..Len(s) /\ Fresh(s, o, k) /\ NoInit(s, k + 1, Len(s)) /\ t[k] = s[k]
      BY <2>1, <1>2
    <2>3. s[k].run = r /\ Len(s) - k + 1 = w
      BY <2>2 DEF BlocksEnd
    <2>4. Len(t) - k + 1 = w + 1
      <3>1. k \in Int /\ Len(s) \in Int /\ Len(t) = Len(s) + 1
        BY <1>1, <2>2
      <3>2. QED BY <3>1, <2>3
    <2>5. QED BY <2>2, <2>3, <2>4
  <1>5. QED BY <1>3, <1>4 DEF t

LEMMA WriteEventJoins ==
  ASSUME NEW rs, NEW s \in Seq(Message), NEW m \in Nat, NEW r \in Nat, NEW w \in Nat,
         NEW sn \in Seq(Nat), NEW sr, m # Init_, r # 0, w + 1 <= Len(rs[r]), rs[r][w + 1] = m,
         Joins(rs, s, sn, sr), JoinsEnd(s, sn, sr, r, w)
  PROVE  /\ Joins(rs, Append(s, Msg(m, r)), sn, sr)
         /\ JoinsEnd(Append(s, Msg(m, r)), sn, sr, r, w + 1)
  <1> DEFINE t == Append(s, Msg(m, r))
  <1>1. /\ t \in Seq(Message) /\ Len(t) = Len(s) + 1 /\ Len(s) \in Nat
        /\ \A k \in 1..Len(s) : t[k] = s[k]
        /\ t[Len(s) + 1].msg = m /\ t[Len(s) + 1].run = r
    BY Written1
  <1>0. Len(sn) \in Nat
    BY LenProperties
  <1> HIDE DEF t
  <1>2. ASSUME NEW j \in 1..Len(t), NoInit(t, 1, j)
        PROVE  NoInit(s, 1, IF j = Len(t) THEN Len(s) ELSE j)
    BY <1>1, <1>2 DEF NoInit
  <1>3. Joins(rs, t, sn, sr)
    <2> SUFFICES ASSUME NEW j \in 1..Len(t), NoInit(t, 1, j)
                 PROVE  sr # 0 /\ Len(sn) + j <= Len(rs[sr]) /\ t[j].msg = rs[sr][Len(sn) + j]
      BY DEF Joins
    <2>1. CASE j = Len(t)
      BY <2>1, <1>0, <1>1, <1>2 DEF JoinsEnd
    <2>2. CASE j # Len(t)
      <3>1. j \in 1..Len(s) /\ t[j] = s[j]
        BY <2>2, <1>1
      <3>2. NoInit(s, 1, j)
        BY <2>2, <1>2
      <3>3. QED BY <3>1, <3>2 DEF Joins
    <2>3. QED BY <2>1, <2>2
  <1>4. JoinsEnd(t, sn, sr, r, w + 1)
    BY <1>0, <1>1, <1>2 DEF JoinsEnd
  <1>5. QED BY <1>3, <1>4 DEF t

\* An init begins a block.
LEMMA WriteInit ==
  ASSUME NEW rs, NEW s \in Seq(Message), NEW r \in Nat, NEW o, NEW sn, NEW sr,
         Len(rs[r]) \in Nat, Len(rs[r]) >= 1, rs[r][1] = Init_, Blocks(rs, s, o)
  PROVE  /\ Blocks(rs, Append(s, Msg(Init_, r)), o)
         /\ BlocksEnd(Append(s, Msg(Init_, r)), o, r, 1)
         /\ JoinsEnd(Append(s, Msg(Init_, r)), sn, sr, r, 1)
         /\ Joins(rs, s, sn, sr) => Joins(rs, Append(s, Msg(Init_, r)), sn, sr)
  <1> DEFINE t == Append(s, Msg(Init_, r))
  <1>1. /\ t \in Seq(Message) /\ Len(t) = Len(s) + 1 /\ Len(s) \in Nat
        /\ \A k \in 1..Len(s) : t[k] = s[k]
        /\ t[Len(s) + 1].msg = Init_ /\ t[Len(s) + 1].run = r
    BY Written1 DEF Init_
  <1> HIDE DEF t

  <1>3. Blocks(rs, t, o)
    <2> SUFFICES ASSUME NEW k \in 1..Len(t), NEW j \in 1..Len(t), k <= j, Fresh(t, o, k), NoInit(t, k + 1, j)
                 PROVE  j - k + 1 <= Len(rs[t[k].run]) /\ t[j].msg = rs[t[k].run][j - k + 1]
      BY DEF Blocks
    <2>1. CASE k = Len(t)
      BY <2>1, <1>1
    <2>2. CASE k # Len(t)
      <3>1. j \in 1..Len(s)
        BY <2>2, <1>1 DEF NoInit
      <3>2. k \in 1..Len(s) /\ Fresh(s, o, k) /\ NoInit(s, k + 1, j) /\ t[k] = s[k] /\ t[j] = s[j]
        BY <3>1, <1>1 DEF Fresh, NoInit
      <3>3. QED BY <3>1, <3>2 DEF Blocks
    <2>3. QED BY <2>1, <2>2
  <1>4. BlocksEnd(t, o, r, 1)
    BY <1>1 DEF BlocksEnd, NoInit
  <1>5. JoinsEnd(t, sn, sr, r, 1)
    BY <1>1 DEF JoinsEnd, NoInit
  <1>6. Joins(rs, s, sn, sr) => Joins(rs, t, sn, sr)
    <2> SUFFICES ASSUME Joins(rs, s, sn, sr), NEW j \in 1..Len(t), NoInit(t, 1, j)
                 PROVE  sr # 0 /\ Len(sn) + j <= Len(rs[sr]) /\ t[j].msg = rs[sr][Len(sn) + j]
      BY DEF Joins
    <2>1. j \in 1..Len(s) /\ NoInit(s, 1, j) /\ t[j] = s[j]
      <3>1. j # Len(s) + 1
        BY <1>1 DEF NoInit
      <3>2. QED BY <3>1, <1>1 DEF NoInit
    <2>2. QED BY <2>1 DEF Joins
  <1>7. QED BY <1>3, <1>4, <1>5, <1>6 DEF t

\* An array that grows keeps what it held.
Grown(rs, rt, n) ==
  \A i \in 1..n : /\ Len(rs[i]) \in Nat /\ Len(rt[i]) \in Nat /\ Len(rs[i]) <= Len(rt[i])
                  /\ \A j \in 1..Len(rs[i]) : rt[i][j] = rs[i][j]

LEMMA GrownAt ==
  ASSUME NEW rs, NEW rt, NEW n \in Nat, Grown(rs, rt, n), NEW i \in 1..n,
         NEW j \in Nat \ {0}, j <= Len(rs[i])
  PROVE  rt[i][j] = rs[i][j] /\ j <= Len(rt[i])
  <1>1. /\ Len(rs[i]) \in Nat /\ Len(rt[i]) \in Nat /\ Len(rs[i]) <= Len(rt[i])
        /\ \A k \in 1..Len(rs[i]) : rt[i][k] = rs[i][k]
    BY DEF Grown
  <1>2. j \in 1..Len(rs[i])
    BY <1>1
  <1>3. rt[i][j] = rs[i][j]
    BY <1>1, <1>2
  <1>4. j <= Len(rt[i])
    BY <1>1
  <1>5. QED BY <1>3, <1>4

LEMMA GrownKeeps ==
  ASSUME NEW rs, NEW rt, NEW n \in Nat, Grown(rs, rt, n),
         NEW s \in Seq(Message), NEW o, NEW sn \in Seq(Nat), NEW sr \in 0..n, RunsAscend(s, o, n)
  PROVE  /\ Blocks(rs, s, o) => Blocks(rt, s, o)
         /\ Joins(rs, s, sn, sr) => Joins(rt, s, sn, sr)
         /\ sr # 0 /\ Shows(rs, sn, sr) => Shows(rt, sn, sr)
  <1>0. Len(s) \in Nat /\ Len(sn) \in Nat
    BY LenProperties
  <1>1. ASSUME Blocks(rs, s, o) PROVE Blocks(rt, s, o)
    <2> SUFFICES ASSUME NEW k \in 1..Len(s), NEW j \in 1..Len(s), k <= j, Fresh(s, o, k), NoInit(s, k + 1, j)
                 PROVE  j - k + 1 <= Len(rt[s[k].run]) /\ s[j].msg = rt[s[k].run][j - k + 1]
      BY DEF Blocks
    <2>1. j - k + 1 <= Len(rs[s[k].run]) /\ s[j].msg = rs[s[k].run][j - k + 1]
      BY <1>1 DEF Blocks
    <2>2. s[k].run \in 1..n /\ j - k + 1 \in Nat \ {0}
      BY <1>0 DEF RunsAscend
    <2>3. j - k + 1 <= Len(rt[s[k].run]) /\ rt[s[k].run][j - k + 1] = rs[s[k].run][j - k + 1]
      <3> DEFINE i == s[k].run
                 q == j - k + 1
      <3>1. i \in 1..n /\ q \in Nat \ {0} /\ q <= Len(rs[i])
        BY <2>1, <2>2
      <3> HIDE DEF i, q
      <3>2. q <= Len(rt[i]) /\ rt[i][q] = rs[i][q]
        BY <3>1, GrownAt
      <3>3. QED BY <3>2 DEF i, q
    <2>4. QED BY <2>1, <2>3
  <1>2. ASSUME Joins(rs, s, sn, sr) PROVE Joins(rt, s, sn, sr)
    <2> SUFFICES ASSUME NEW j \in 1..Len(s), NoInit(s, 1, j)
                 PROVE  sr # 0 /\ Len(sn) + j <= Len(rt[sr]) /\ s[j].msg = rt[sr][Len(sn) + j]
      BY DEF Joins
    <2>1. sr # 0 /\ Len(sn) + j <= Len(rs[sr]) /\ s[j].msg = rs[sr][Len(sn) + j]
      BY <1>2 DEF Joins
    <2>2. sr \in 1..n /\ Len(sn) + j \in Nat \ {0}
      BY <1>0, <2>1
    <2>3. QED BY <2>1, <2>2, GrownAt
  <1>3. ASSUME sr # 0, Shows(rs, sn, sr) PROVE Shows(rt, sn, sr)
    <2>1. sr \in 1..n
      BY <1>3
    <2>2. /\ Len(rs[sr]) \in Nat /\ Len(rt[sr]) \in Nat /\ Len(sn) <= Len(rs[sr])
          /\ Len(rs[sr]) <= Len(rt[sr])
      BY <1>3, <2>1 DEF Grown, Shows
    <2>3. ASSUME NEW j \in 1..Len(sn) PROVE sn[j] = rt[sr][j]
      <3>1. sn[j] = rs[sr][j] /\ j \in Nat \ {0} /\ j <= Len(rs[sr])
        BY <1>0, <1>3, <2>2 DEF Shows
      <3>2. QED BY <3>1, <2>1, GrownAt
    <2>4. QED BY <1>0, <2>2, <2>3 DEF Shows
  <1>4. QED BY <1>1, <1>2, <1>3

LEMMA AscendGrows ==
  ASSUME NEW s \in Seq(Message), NEW o, NEW n \in Nat, NEW m \in Nat, n <= m, RunsAscend(s, o, n)
  PROVE  RunsAscend(s, o, m)
  BY LenProperties DEF RunsAscend

LEMMA AscendAppends ==
  ASSUME NEW s \in Seq(Message), NEW o \in Nat, NEW n \in Nat, NEW m \in Nat, NEW r \in 1..n,
         RunsAscend(s, o, n), o <= r, \A k \in 1..Len(s) : s[k].run <= r
  PROVE  RunsAscend(Append(s, Msg(m, r)), o, n)
  BY Written1 DEF RunsAscend

\* What is left of a socket once its first message is received.
LEMMA TailFacts ==
  ASSUME NEW s \in Seq(Message), s # <<>>
  PROVE  /\ Tail(s) \in Seq(Message) /\ Len(s) \in Nat \ {0} /\ Len(Tail(s)) = Len(s) - 1
         /\ \A k \in 1..Len(Tail(s)) : k + 1 \in 1..Len(s) /\ Tail(s)[k] = s[k + 1]
         /\ Head(s) = s[1] /\ s[1] \in Message /\ s[1].msg \in Nat /\ s[1].run \in Nat
  <1>1. Len(s) \in Nat \ {0}
    BY EmptySeq
  <1>2. s[1] \in Message
    BY <1>1, ElementOfSeq
  <1>3. s[1].msg \in Nat /\ s[1].run \in Nat
    BY <1>2 DEF Message
  <1>4. Head(s) = s[1]
    BY <1>1
  <1>5. QED BY <1>1, <1>2, <1>3, <1>4, HeadTailProperties

LEMMA TailKeeps ==
  ASSUME NEW rs, NEW s \in Seq(Message), s # <<>>, NEW o \in Nat, NEW p \in Nat, NEW n \in Nat,
         NEW r, NEW w, NEW e, RunsAscend(s, o, n), p = o \/ (p = 0 /\ s[1].run # o)
  PROVE  /\ RunsAscend(Tail(s), p, n)
         /\ Bounded(s, e) => Bounded(Tail(s), e)
         /\ Blocks(rs, s, o) => Blocks(rs, Tail(s), p)
         /\ BlocksEnd(s, o, r, w) => BlocksEnd(Tail(s), p, r, w)
  <1> DEFINE t == Tail(s)
  <1>1. /\ t \in Seq(Message) /\ Len(s) \in Nat \ {0} /\ Len(t) = Len(s) - 1
        /\ \A k \in 1..Len(t) : k + 1 \in 1..Len(s) /\ t[k] = s[k + 1]
    BY TailFacts
  <1> HIDE DEF t
  <1>2. RunsAscend(t, p, n)
    <2>1. ASSUME NEW k \in 1..Len(t) PROVE t[k].run \in 1..n /\ p <= t[k].run
      <3>1. t[k] = s[k + 1] /\ k + 1 \in 1..Len(s)
        BY <1>1
      <3>2. s[k + 1].run \in 1..n /\ o <= s[k + 1].run
        BY <3>1 DEF RunsAscend
      <3>3. QED BY <3>1, <3>2
    <2>2. ASSUME NEW k \in 1..Len(t), NEW j \in 1..Len(t), k <= j PROVE t[k].run <= t[j].run
      <3>1. /\ t[k] = s[k + 1] /\ k + 1 \in 1..Len(s) /\ t[j] = s[j + 1] /\ j + 1 \in 1..Len(s)
            /\ k + 1 <= j + 1
        BY <1>1, <2>2
      <3>2. QED BY <3>1 DEF RunsAscend
    <2>3. QED BY <2>1, <2>2 DEF RunsAscend
  <1>3. Bounded(s, e) => Bounded(t, e)
    BY <1>1 DEF Bounded
  <1>4. ASSUME NEW k \in 1..Len(t), Fresh(t, p, k) PROVE Fresh(s, o, k + 1)
    <2>1. t[k] = s[k + 1] /\ k + 1 \in 1..Len(s) /\ 1 \in 1..Len(s)
      BY <1>1
    <2>2. s[1].run <= s[k + 1].run /\ o <= s[1].run /\ s[1].run \in Nat /\ s[k + 1].run \in Nat
      BY <2>1 DEF RunsAscend
    <2>3. QED BY <1>4, <2>1, <2>2 DEF Fresh
  <1>5. ASSUME NEW k \in 1..Len(t), NEW j \in 1..Len(t), NoInit(t, k + 1, j)
        PROVE  NoInit(s, (k + 1) + 1, j + 1)
    <2> SUFFICES ASSUME NEW i \in (k + 1) + 1..j + 1 PROVE s[i].msg # Init_
      BY DEF NoInit
    <2>1. i - 1 \in k + 1..j /\ i - 1 \in 1..Len(t)
      BY <1>1
    <2>2. t[i - 1] = s[i]
      BY <2>1, <1>1
    <2>3. QED BY <2>1, <2>2, <1>5 DEF NoInit
  <1>6. ASSUME Blocks(rs, s, o) PROVE Blocks(rs, t, p)
    <2> SUFFICES ASSUME NEW k \in 1..Len(t), NEW j \in 1..Len(t), k <= j, Fresh(t, p, k), NoInit(t, k + 1, j)
                 PROVE  j - k + 1 <= Len(rs[t[k].run]) /\ t[j].msg = rs[t[k].run][j - k + 1]
      BY DEF Blocks
    <2>0. k \in Nat /\ j \in Nat /\ k + 1 <= j + 1
      BY <1>1
    <2>1. /\ k + 1 \in 1..Len(s) /\ j + 1 \in 1..Len(s) /\ k + 1 <= j + 1
          /\ t[k] = s[k + 1] /\ t[j] = s[j + 1]
      BY <1>1, <2>0
    <2>2. Fresh(s, o, k + 1) /\ NoInit(s, (k + 1) + 1, j + 1)
      BY <1>4, <1>5
    <2>3. /\ (j + 1) - (k + 1) + 1 <= Len(rs[s[k + 1].run])
          /\ s[j + 1].msg = rs[s[k + 1].run][(j + 1) - (k + 1) + 1]
      BY <1>6, <2>1, <2>2 DEF Blocks
    <2>4. (j + 1) - (k + 1) + 1 = j - k + 1
      BY <1>1
    <2>5. QED BY <2>1, <2>3, <2>4
  <1>7. ASSUME BlocksEnd(s, o, r, w) PROVE BlocksEnd(t, p, r, w)
    <2> SUFFICES ASSUME NEW k \in 1..Len(t), Fresh(t, p, k), NoInit(t, k + 1, Len(t))
                 PROVE  t[k].run = r /\ Len(t) - k + 1 = w
      BY DEF BlocksEnd
    <2>1. Len(t) \in 1..Len(t) /\ Len(t) + 1 = Len(s) /\ k + 1 \in 1..Len(s) /\ t[k] = s[k + 1]
      BY <1>1
    <2>2. Fresh(s, o, k + 1) /\ NoInit(s, (k + 1) + 1, Len(s))
      BY <1>4, <1>5, <2>1
    <2>3. s[k + 1].run = r /\ Len(s) - (k + 1) + 1 = w
      BY <1>7, <2>1, <2>2 DEF BlocksEnd
    <2>4. QED BY <2>1, <2>3, <1>1
  <1>8. QED BY <1>2, <1>3, <1>6, <1>7 DEF t

\* An event that is received is shown after what the page shows.
LEMMA ReceiveEvent ==
  ASSUME NEW rs, NEW s \in Seq(Message), s # <<>>, s[1].msg # Init_, NEW sn \in Seq(Nat), NEW sr,
         NEW r, NEW w, Joins(rs, s, sn, sr)
  PROVE  /\ sr # 0
         /\ Joins(rs, Tail(s), Append(sn, s[1].msg), sr)
         /\ JoinsEnd(s, sn, sr, r, w) => JoinsEnd(Tail(s), Append(sn, s[1].msg), sr, r, w)
         /\ Shows(rs, sn, sr) => Shows(rs, Append(sn, s[1].msg), sr)
  <1> DEFINE t == Tail(s)
             tn == Append(sn, s[1].msg)
  <1>1. /\ t \in Seq(Message) /\ Len(s) \in Nat \ {0} /\ Len(t) = Len(s) - 1
        /\ \A k \in 1..Len(t) : k + 1 \in 1..Len(s) /\ t[k] = s[k + 1]
        /\ s[1].msg \in Nat
    BY TailFacts
  <1>2. /\ tn \in Seq(Nat) /\ Len(sn) \in Nat /\ Len(tn) = Len(sn) + 1
        /\ \A k \in 1..Len(sn) : tn[k] = sn[k]
        /\ tn[Len(sn) + 1] = s[1].msg
    BY <1>1, AppendProperties, LenProperties
  <1> HIDE DEF t, tn
  <1>3. sr # 0 /\ Len(sn) + 1 <= Len(rs[sr]) /\ s[1].msg = rs[sr][Len(sn) + 1]
    <2>1. 1 \in 1..Len(s) /\ NoInit(s, 1, 1)
      BY <1>1 DEF NoInit
    <2>2. QED BY <2>1 DEF Joins
  <1>4. ASSUME NEW j \in 0..Len(t), NoInit(t, 1, j)
        PROVE  NoInit(s, 1, j + 1)
    <2> SUFFICES ASSUME NEW i \in 1..j + 1 PROVE s[i].msg # Init_
      BY DEF NoInit
    <2>1. CASE i = 1
      BY <2>1
    <2>2. CASE i # 1
      <3>1. i - 1 \in 1..j /\ i - 1 \in 1..Len(t)
        BY <2>2, <1>1
      <3>2. t[i - 1] = s[i]
        BY <3>1, <1>1
      <3>3. QED BY <3>1, <3>2, <1>4 DEF NoInit
    <2>3. QED
      BY <2>1, <2>2
  <1>5. Joins(rs, t, tn, sr)
    <2> SUFFICES ASSUME NEW j \in 1..Len(t), NoInit(t, 1, j)
                 PROVE  sr # 0 /\ Len(tn) + j <= Len(rs[sr]) /\ t[j].msg = rs[sr][Len(tn) + j]
      BY DEF Joins
    <2>1. j + 1 \in 1..Len(s) /\ t[j] = s[j + 1] /\ NoInit(s, 1, j + 1)
      BY <1>1, <1>4
    <2>2. Len(sn) + (j + 1) <= Len(rs[sr]) /\ s[j + 1].msg = rs[sr][Len(sn) + (j + 1)]
      BY <2>1 DEF Joins
    <2>3. Len(sn) + (j + 1) = Len(tn) + j
      BY <1>2
    <2>4. QED BY <1>3, <2>1, <2>2, <2>3
  <1>6. ASSUME JoinsEnd(s, sn, sr, r, w) PROVE JoinsEnd(t, tn, sr, r, w)
    <2> SUFFICES ASSUME NoInit(t, 1, Len(t)) PROVE sr = r /\ Len(tn) + Len(t) = w
      BY DEF JoinsEnd
    <2>1. NoInit(s, 1, Len(s))
      BY <1>1, <1>4
    <2>2. QED BY <2>1, <1>1, <1>2, <1>6 DEF JoinsEnd
  <1>7. ASSUME Shows(rs, sn, sr) PROVE Shows(rs, tn, sr)
    <2>1. ASSUME NEW j \in 1..Len(tn) PROVE tn[j] = rs[sr][j]
      <3>1. CASE j = Len(sn) + 1
        BY <3>1, <1>2, <1>3
      <3>2. CASE j # Len(sn) + 1
        <4>1. j \in 1..Len(sn)
          BY <3>2, <1>2
        <4>2. QED BY <4>1, <1>2, <1>7 DEF Shows
      <3>3. QED BY <3>1, <3>2
    <2>2. QED BY <2>1, <1>2, <1>3 DEF Shows
  <1>8. QED BY <1>3, <1>5, <1>6, <1>7 DEF t, tn

\* An init that is received resets the page, and what follows goes on with it.
LEMMA ReceiveInit ==
  ASSUME NEW rs, NEW s \in Seq(Message), s # <<>>, NEW o, Fresh(s, o, 1), NEW r, NEW w,
         s[1].run # 0, Blocks(rs, s, o)
  PROVE  /\ Joins(rs, Tail(s), <<Init_>>, s[1].run)
         /\ BlocksEnd(s, o, r, w) => JoinsEnd(Tail(s), <<Init_>>, s[1].run, r, w)
         /\ Shows(rs, <<Init_>>, s[1].run)
  <1> DEFINE t == Tail(s)
             tn == <<Init_>>
  <1>1. /\ t \in Seq(Message) /\ Len(s) \in Nat \ {0} /\ Len(t) = Len(s) - 1
        /\ \A k \in 1..Len(t) : k + 1 \in 1..Len(s) /\ t[k] = s[k + 1]
        /\ 1 \in 1..Len(s)
    BY TailFacts
  <1>2. Len(tn) = 1 /\ tn[1] = Init_
    OBVIOUS
  <1> HIDE DEF t, tn
  <1>3. ASSUME NEW j \in 0..Len(t), NoInit(t, 1, j)
        PROVE  NoInit(s, 1 + 1, j + 1)
    <2> SUFFICES ASSUME NEW i \in 2..j + 1 PROVE s[i].msg # Init_
      BY DEF NoInit
    <2>1. i - 1 \in 1..j /\ i - 1 \in 1..Len(t)
      BY <1>1
    <2>2. t[i - 1] = s[i]
      BY <2>1, <1>1
    <2>3. QED BY <2>1, <2>2, <1>3 DEF NoInit
  <1>4. Joins(rs, t, tn, s[1].run)
    <2> SUFFICES ASSUME NEW j \in 1..Len(t), NoInit(t, 1, j)
                 PROVE  1 + j <= Len(rs[s[1].run]) /\ t[j].msg = rs[s[1].run][1 + j]
      BY <1>2 DEF Joins
    <2>1. j + 1 \in 1..Len(s) /\ t[j] = s[j + 1] /\ NoInit(s, 1 + 1, j + 1) /\ 1 <= j + 1
      BY <1>1, <1>3
    <2>2. (j + 1) - 1 + 1 <= Len(rs[s[1].run]) /\ s[j + 1].msg = rs[s[1].run][(j + 1) - 1 + 1]
      BY <1>1, <2>1 DEF Blocks
    <2>3. (j + 1) - 1 + 1 = 1 + j
      OBVIOUS
    <2>4. QED BY <2>1, <2>2, <2>3
  <1>5. ASSUME BlocksEnd(s, o, r, w) PROVE JoinsEnd(t, tn, s[1].run, r, w)
    <2> SUFFICES ASSUME NoInit(t, 1, Len(t)) PROVE s[1].run = r /\ 1 + Len(t) = w
      BY <1>2 DEF JoinsEnd
    <2>1. NoInit(s, 1 + 1, Len(s))
      BY <1>1, <1>3
    <2>2. s[1].run = r /\ Len(s) - 1 + 1 = w
      BY <1>1, <1>5, <2>1 DEF BlocksEnd
    <2>3. QED BY <2>2, <1>1
  <1>6. Shows(rs, tn, s[1].run)
    <2>1. NoInit(s, 1 + 1, 1)
      BY DEF NoInit
    <2>2. 1 - 1 + 1 <= Len(rs[s[1].run]) /\ s[1].msg = rs[s[1].run][1 - 1 + 1]
      BY <1>1, <2>1 DEF Blocks
    <2>3. QED BY <2>2, <1>2 DEF Shows, Fresh
  <1>7. QED BY <1>4, <1>5, <1>6 DEF t, tn
-----------------------------------------------------------------------------
LEMMA RunTypes ==
  ASSUME Types
  PROVE  /\ sent \in Nat
         /\ runs \in Seq(Seq(Nat)) /\ Len(runs) \in Nat \ {0}
         /\ \A i \in 1..Len(runs) : runs[i] \in Seq(Nat) /\ Len(runs[i]) \in Nat
  BY SseAssumption, LenProperties, ElementOfSeq DEF Types

\* The runs after an event is sent.
LEMMA RunsPushed ==
  ASSUME Types, RunsOK, SendEvent
  PROVE  /\ runs' \in Seq(Seq(Nat)) /\ Len(runs') = Len(runs)
         /\ Grown(runs, runs', Len(runs))
         /\ \A i \in 1..Len(runs) : i # Len(runs) => runs'[i] = runs[i]
         /\ Len(runs'[Len(runs)]) = Len(runs[Len(runs)]) + 1
         /\ runs'[Len(runs)][Len(runs[Len(runs)]) + 1] = sent + 1
         /\ RunsOK'
  <1> DEFINE n == Len(runs)
             a == Append(runs[n], sent + 1)
  <1>1. /\ sent \in Nat /\ runs \in Seq(Seq(Nat)) /\ n \in Nat \ {0} /\ n \in 1..n
        /\ \A i \in 1..n : runs[i] \in Seq(Nat) /\ Len(runs[i]) \in Nat
    BY RunTypes
  <1>2. /\ a \in Seq(Nat) /\ Len(a) = Len(runs[n]) + 1
        /\ \A j \in 1..Len(runs[n]) : a[j] = runs[n][j]
        /\ a[Len(runs[n]) + 1] = sent + 1
    BY <1>1, AppendProperties
  <1> HIDE DEF a
  <1>3. runs' = [runs EXCEPT ![n] = a] /\ sent' = sent + 1
    BY DEF SendEvent, Pushed, a
  <1> HIDE DEF n
  <1>4. /\ runs' \in Seq(Seq(Nat)) /\ Len(runs') = n
        /\ \A i \in 1..n : runs'[i] = IF i = n THEN a ELSE runs[i]
    BY <1>1, <1>2, <1>3, ExceptSeq DEF n
  <1>5. Grown(runs, runs', n)
    <2> SUFFICES ASSUME NEW i \in 1..n
                 PROVE  /\ Len(runs[i]) \in Nat /\ Len(runs'[i]) \in Nat /\ Len(runs[i]) <= Len(runs'[i])
                        /\ \A j \in 1..Len(runs[i]) : runs'[i][j] = runs[i][j]
      BY DEF Grown
    <2>1. CASE i = n
      <3>1. runs'[i] = a /\ Len(runs[i]) \in Nat /\ runs[i] = runs[n]
        BY <2>1, <1>1, <1>4
      <3>2. QED BY <3>1, <1>2
    <2>2. CASE i # n
      BY <2>2, <1>1, <1>4
    <2>3. QED BY <2>1, <2>2
  <1>6. ASSUME NEW i \in 1..n PROVE RunOK(runs'[i], sent')
    <2>1. RunOK(runs[i], sent) /\ Len(runs[i]) \in Nat /\ runs[i] \in Seq(Nat)
      BY <1>1 DEF RunsOK, n
    <2>2. CASE i = n
      <3>1. runs'[i] = a
        BY <2>2, <1>4
      <3>2. ASSUME NEW j \in 1..Len(a)
            PROVE  a[j] <= sent + 1 /\ (j # 1 => a[j] # Init_)
        <4>1. CASE j = Len(a)
          BY <4>1, <1>1, <1>2 DEF Init_
        <4>2. CASE j # Len(a)
          <5>0. runs[n] \in Seq(Nat) /\ Len(runs[n]) \in Nat
            BY <1>1
          <5>1. j \in 1..Len(runs[n])
            BY <4>2, <5>0, <1>2
          <5>2. a[j] = runs[n][j] /\ runs[n][j] \in Nat
            BY <5>0, <5>1, <1>2, ElementOfSeq
          <5>3. runs[n][j] <= sent /\ (j # 1 => runs[n][j] # Init_)
            BY <5>1, <2>1, <2>2, <1>1 DEF RunOK
          <5>4. QED BY <5>2, <5>3, <1>1
        <4>3. QED BY <4>1, <4>2
      <3>3. Len(a) > 0 /\ a[1] = Init_
        <4>1. Len(runs[n]) \in Nat /\ Len(runs[n]) > 0 /\ runs[n][1] = Init_
          BY <2>1, <2>2 DEF RunOK
        <4>2. 1 \in 1..Len(runs[n])
          BY <4>1
        <4>3. QED BY <4>1, <4>2, <1>2
      <3>4. ASSUME NEW j \in 2..Len(a) PROVE a[j] # Init_
        <4>1. j \in 1..Len(a) /\ j # 1
          BY <2>1, <2>2, <1>2
        <4>2. QED BY <4>1, <3>2
      <3>5. QED BY <3>1, <3>2, <3>3, <3>4, <1>3 DEF RunOK
    <2>3. CASE i # n
      <3>1. runs'[i] = runs[i]
        BY <2>3, <1>4
      <3>2. \A j \in 1..Len(runs[i]) : runs[i][j] \in Nat
        BY <2>1, ElementOfSeq
      <3>3. \A j \in 1..Len(runs[i]) : runs[i][j] <= sent + 1
        <4> SUFFICES ASSUME NEW j \in 1..Len(runs[i]) PROVE runs[i][j] <= sent + 1
          OBVIOUS
        <4>1. runs[i][j] \in Nat /\ runs[i][j] <= sent
          BY <3>2, <2>1 DEF RunOK
        <4>2. QED BY <4>1, <1>1
      <3>4. QED BY <3>1, <3>3, <2>1, <1>3 DEF RunOK
    <2>4. QED BY <2>2, <2>3
  <1>7. QED BY <1>1, <1>2, <1>4, <1>5, <1>6 DEF RunsOK, n

\* The runs after an init is sent.
LEMMA RunsAppended ==
  ASSUME Types, RunsOK, SendInit
  PROVE  /\ runs' \in Seq(Seq(Nat)) /\ Len(runs') = Len(runs) + 1
         /\ Grown(runs, runs', Len(runs))
         /\ \A i \in 1..Len(runs) : runs'[i] = runs[i]
         /\ Len(runs'[Len(runs) + 1]) = 1
         /\ runs'[Len(runs) + 1][1] = Init_
         /\ RunsOK'
  <1>1. /\ sent \in Nat /\ runs \in Seq(Seq(Nat)) /\ Len(runs) \in Nat \ {0}
        /\ \A i \in 1..Len(runs) : runs[i] \in Seq(Nat) /\ Len(runs[i]) \in Nat
    BY RunTypes
  <1>2. runs' = Append(runs, <<Init_>>) /\ sent' = sent
    BY DEF SendInit
  <1>3. <<Init_>> \in Seq(Nat) /\ Len(<<Init_>>) = 1 /\ <<Init_>>[1] = Init_
    BY DEF Init_
  <1>4. /\ runs' \in Seq(Seq(Nat)) /\ Len(runs') = Len(runs) + 1
        /\ \A i \in 1..Len(runs) : runs'[i] = runs[i]
        /\ runs'[Len(runs) + 1] = <<Init_>>
    BY <1>1, <1>2, <1>3, AppendProperties
  <1>5. Grown(runs, runs', Len(runs))
    <2> SUFFICES ASSUME NEW i \in 1..Len(runs)
                 PROVE  /\ Len(runs[i]) \in Nat /\ Len(runs'[i]) \in Nat /\ Len(runs[i]) <= Len(runs'[i])
                        /\ \A j \in 1..Len(runs[i]) : runs'[i][j] = runs[i][j]
      BY DEF Grown
    <2>1. runs'[i] = runs[i] /\ Len(runs[i]) \in Nat
      BY <1>1, <1>4
    <2>2. QED BY <2>1
  <1>6. ASSUME NEW i \in 1..Len(runs') PROVE RunOK(runs'[i], sent')
    <2>1. CASE i = Len(runs) + 1
      BY <2>1, <1>1, <1>2, <1>3, <1>4 DEF RunOK, Init_
    <2>2. CASE i # Len(runs) + 1
      BY <2>2, <1>1, <1>2, <1>4 DEF RunsOK
    <2>3. QED BY <2>1, <2>2
  <1>7. QED BY <1>3, <1>4, <1>5, <1>6 DEF RunsOK
-----------------------------------------------------------------------------
LEMMA ClientTypes ==
  ASSUME Types, NEW c \in Client
  PROVE  /\ replay[c] \in [run : Nat, next : Nat] /\ replay[c].run \in Nat /\ replay[c].next \in Nat
         /\ phase[c] \in {"away", "replaying", "live"}
         /\ socket[c] \in Seq(Message) /\ Len(socket[c]) \in Nat
         /\ seen[c] \in Seq(Nat) /\ Len(seen[c]) \in Nat
         /\ seenRun[c] \in Nat /\ overtaken[c] \in Nat
  BY LenProperties DEF Types

\* A client of which nothing changes, the runs neither.
LEMMA ClientUnmoved ==
  ASSUME NEW c \in Client, ClientOK(c), runs' = runs, sent' = sent,
         replay'[c] = replay[c], phase'[c] = phase[c], socket'[c] = socket[c],
         seen'[c] = seen[c], seenRun'[c] = seenRun[c], overtaken'[c] = overtaken[c]
  PROVE  ClientOK(c)'
  BY DEF ClientOK

\* A client to which nothing is written while the runs grow.
LEMMA ClientKept ==
  ASSUME NEW c \in Client, Types, ClientOK(c), Len(runs') \in Nat, Len(runs) <= Len(runs'),
         Grown(runs, runs', Len(runs)), sent' \in Nat, sent <= sent'
  PROVE  /\ PageOK(runs', sent', seen[c], seenRun[c], overtaken[c])
         /\ SocketOK(runs', sent', socket[c], seen[c], seenRun[c], overtaken[c])
         /\ replay[c].run \in 1..Len(runs') /\ replay[c].next \in 1..Len(runs'[replay[c].run]) + 1
  <1>1. /\ replay[c].run \in Nat /\ replay[c].next \in Nat
        /\ socket[c] \in Seq(Message) /\ Len(socket[c]) \in Nat
        /\ seen[c] \in Seq(Nat) /\ Len(seen[c]) \in Nat
        /\ seenRun[c] \in Nat /\ overtaken[c] \in Nat
    BY ClientTypes
  <1>2. sent \in Nat /\ Len(runs) \in Nat /\ \A i \in 1..Len(runs) : Len(runs[i]) \in Nat
    BY RunTypes
  <1>3. /\ PageOK(runs, sent, seen[c], seenRun[c], overtaken[c])
        /\ SocketOK(runs, sent, socket[c], seen[c], seenRun[c], overtaken[c])
        /\ replay[c].run \in 1..Len(runs) /\ replay[c].next \in 1..Len(runs[replay[c].run]) + 1
    BY DEF ClientOK, ReplayOK
  <1>4. RunsAscend(socket[c], overtaken[c], Len(runs)) /\ seenRun[c] \in 0..Len(runs)
    BY <1>1, <1>2, <1>3 DEF SocketOK, PageOK
  <1>5. /\ Blocks(runs, socket[c], overtaken[c]) => Blocks(runs', socket[c], overtaken[c])
        /\ Joins(runs, socket[c], seen[c], seenRun[c]) => Joins(runs', socket[c], seen[c], seenRun[c])
        /\ seenRun[c] # 0 /\ Shows(runs, seen[c], seenRun[c]) => Shows(runs', seen[c], seenRun[c])
    BY <1>1, <1>2, <1>4, GrownKeeps
  <1>6. PageOK(runs', sent', seen[c], seenRun[c], overtaken[c])
    <2>1. \A j \in 1..Len(seen[c]) : seen[c][j] <= sent'
      <3> SUFFICES ASSUME NEW j \in 1..Len(seen[c]) PROVE seen[c][j] <= sent'
        OBVIOUS
      <3>1. seen[c][j] \in Nat
        BY <1>1, ElementOfSeq
      <3>2. seen[c][j] <= sent
        BY <1>3 DEF PageOK
      <3>3. QED BY <3>1, <3>2, <1>2
    <2>2. QED BY <2>1, <1>1, <1>2, <1>3, <1>5 DEF PageOK
  <1>7. SocketOK(runs', sent', socket[c], seen[c], seenRun[c], overtaken[c])
    <2>1. Bounded(socket[c], sent')
      <3> SUFFICES ASSUME NEW k \in 1..Len(socket[c]) PROVE socket[c][k].msg <= sent'
        BY DEF Bounded
      <3>0. socket[c][k] \in Message
        BY <1>1, ElementOfSeq
      <3>1. socket[c][k].msg \in Nat
        BY <3>0 DEF Message
      <3>2. socket[c][k].msg <= sent
        BY <1>3 DEF SocketOK, Bounded
      <3>3. QED BY <3>1, <3>2, <1>2
    <2>2. RunsAscend(socket[c], overtaken[c], Len(runs'))
      BY <1>1, <1>2, <1>4, AscendGrows
    <2>3. QED BY <2>1, <2>2, <1>3, <1>5 DEF SocketOK
  <1>8. replay[c].run \in 1..Len(runs') /\ replay[c].next \in 1..Len(runs'[replay[c].run]) + 1
    <2>1. replay[c].run \in 1..Len(runs)
      BY <1>3
    <2>2. /\ Len(runs[replay[c].run]) \in Nat /\ Len(runs'[replay[c].run]) \in Nat
          /\ Len(runs[replay[c].run]) <= Len(runs'[replay[c].run])
      BY <2>1 DEF Grown
    <2>3. replay[c].next \in 1..Len(runs[replay[c].run]) + 1
      BY <1>3
    <2> DEFINE p == replay[c].run
    <2> HIDE DEF p
    <2>4. p \in 1..Len(runs') /\ replay[c].next \in 1..Len(runs'[p]) + 1
      <3>1. Len(runs[p]) \in Nat /\ Len(runs'[p]) \in Nat /\ Len(runs[p]) <= Len(runs'[p])
        BY <2>2 DEF p
      <3>2. p \in 1..Len(runs) /\ replay[c].next \in 1..Len(runs[p]) + 1
        BY <2>1, <2>3 DEF p
      <3>3. p \in 1..Len(runs')
        BY <3>2, <1>2
      <3>4. QED BY <3>1, <3>2, <3>3
    <2>5. QED BY <2>4 DEF p
  <1>9. QED BY <1>6, <1>7, <1>8

\* The runs' messages that are on a socket were sent.
LEMMA BoundedAppends ==
  ASSUME NEW s \in Seq(Message), NEW m \in Nat, NEW r \in Nat, NEW n \in Nat, m <= n, Bounded(s, n)
  PROVE  Bounded(Append(s, Msg(m, r)), n)
  BY Written1 DEF Bounded

LEMMA SendEventStep ==
  ASSUME IInv, SendEvent
  PROVE  IInv'
  <1>1. /\ sent \in Nat /\ runs \in Seq(Seq(Nat)) /\ Len(runs) \in Nat \ {0}
        /\ \A i \in 1..Len(runs) : Len(runs[i]) \in Nat
    BY RunTypes DEF IInv
  <1>2. /\ runs' \in Seq(Seq(Nat)) /\ Len(runs') = Len(runs)
        /\ Grown(runs, runs', Len(runs))
        /\ \A i \in 1..Len(runs) : i # Len(runs) => runs'[i] = runs[i]
        /\ Len(runs'[Len(runs)]) = Len(runs[Len(runs)]) + 1
        /\ runs'[Len(runs)][Len(runs[Len(runs)]) + 1] = sent + 1
        /\ RunsOK'
    BY RunsPushed DEF IInv
  <1>3. /\ sent < MaxEvents /\ sent' = sent + 1
        /\ socket' = [c \in Client |-> IF phase[c] = "live" THEN Append(socket[c], Msg(sent + 1, Len(runs)))
                                       ELSE socket[c]]
        /\ replay' = replay /\ phase' = phase /\ seen' = seen /\ seenRun' = seenRun
        /\ overtaken' = overtaken /\ connections' = connections
    BY DEF SendEvent, Emit
  <1>4. ASSUME NEW c \in Client
        PROVE  socket[c] \in Seq(Message) /\ Append(socket[c], Msg(sent + 1, Len(runs))) \in Seq(Message)
    BY <1>1, ClientTypes, Written1 DEF IInv
  <1>5. Types'
    <2>1. socket' \in [Client -> Seq(Message)]
      BY <1>3, <1>4
    <2>2. sent' \in 0..MaxEvents
      BY <1>1, <1>3, SseAssumption
    <2>3. QED BY <1>1, <1>2, <1>3, <2>1, <2>2 DEF IInv, Types
  <1>6. ASSUME NEW c \in Client PROVE ClientOK(c)'
    <2> DEFINE s == socket[c]
               o == overtaken[c]
    <2>1. /\ replay[c].run \in Nat /\ replay[c].next \in Nat
          /\ phase[c] \in {"away", "replaying", "live"}
          /\ s \in Seq(Message) /\ seen[c] \in Seq(Nat) /\ seenRun[c] \in Nat /\ o \in Nat
      BY ClientTypes DEF IInv
    <2>2. ClientOK(c)
      BY DEF IInv
    <2>3. /\ PageOK(runs', sent', seen[c], seenRun[c], o)
          /\ SocketOK(runs', sent', s, seen[c], seenRun[c], o)
          /\ replay[c].run \in 1..Len(runs') /\ replay[c].next \in 1..Len(runs'[replay[c].run]) + 1
      BY <1>1, <1>2, <1>3, <2>2, ClientKept DEF IInv
    <2>4. CASE phase[c] # "live"
      <3>1. socket'[c] = s
        BY <2>4, <1>3
      <3>2. ReplayOK(runs', replay[c], phase[c], s, o)
        BY <2>2, <2>3, <1>2 DEF ClientOK, ReplayOK
      <3>3. EndOK(runs', replay[c], phase[c], s, seen[c], seenRun[c], o)
        BY <2>1, <2>2, <2>4 DEF ClientOK, EndOK, WrittenRun, Written
      <3>4. QED BY <3>1, <3>2, <3>3, <2>3, <1>3 DEF ClientOK
    <2>5. CASE phase[c] = "live"
      <3> DEFINE w == Len(runs[Len(runs)])
                 u == Append(s, Msg(sent + 1, Len(runs)))
      <3>1. socket'[c] = u
        BY <2>5, <1>3
      <3>2. ReplayOK(runs', replay[c], phase[c], u, o)
        BY <2>3, <2>5 DEF ReplayOK
      <3>3. /\ Blocks(runs', s, o) /\ BlocksEnd(s, o, Len(runs), w)
            /\ o = 0 => Joins(runs', s, seen[c], seenRun[c]) /\ JoinsEnd(s, seen[c], seenRun[c], Len(runs), w)
            /\ RunsAscend(s, o, Len(runs)) /\ Bounded(s, sent + 1) /\ o < Len(runs)
        BY <2>2, <2>3, <2>5, <1>2, <1>3 DEF ClientOK, EndOK, SocketOK, PageOK, WrittenRun, Written
      <3>4. /\ w \in Nat /\ sent + 1 \in Nat /\ sent + 1 # Init_ /\ w + 1 <= Len(runs'[Len(runs)])
            /\ runs'[Len(runs)][w + 1] = sent + 1 /\ Len(runs) \in Nat /\ Len(runs) # 0
        BY <1>1, <1>2 DEF Init_
      <3>5. Blocks(runs', u, o) /\ BlocksEnd(u, o, Len(runs), w + 1)
        BY <3>3, <3>4, <2>1, WriteEvent
      <3>6. o = 0 => Joins(runs', u, seen[c], seenRun[c])
                     /\ JoinsEnd(u, seen[c], seenRun[c], Len(runs), w + 1)
        BY <3>3, <3>4, <2>1, WriteEventJoins
      <3>7. Bounded(u, sent + 1)
        BY <3>3, <3>4, <2>1, BoundedAppends
      <3>8. RunsAscend(u, o, Len(runs))
        <4>1. \A k \in 1..Len(s) : s[k].run <= Len(runs)
          BY <3>3, <1>1 DEF RunsAscend
        <4>2. Len(runs) \in 1..Len(runs) /\ o <= Len(runs)
          BY <3>3, <1>1, <2>1
        <4>3. QED BY <3>3, <3>4, <4>1, <4>2, <2>1, AscendAppends
      <3>9. SocketOK(runs', sent', u, seen[c], seenRun[c], o)
        BY <3>5, <3>6, <3>7, <3>8, <1>2, <1>3 DEF SocketOK
      <3>10. EndOK(runs', replay[c], phase[c], u, seen[c], seenRun[c], o)
        BY <3>5, <3>6, <2>5, <1>2 DEF EndOK, WrittenRun, Written
      <3>11. QED
        BY <3>1, <3>2, <3>9, <3>10, <2>3, <1>3 DEF ClientOK
    <2>6. QED BY <2>4, <2>5
  <1>7. QED BY <1>2, <1>5, <1>6 DEF IInv

\* A socket that holds only the run that was overtaken has no block to follow.
LEMMA OvertakenHoldsNone ==
  ASSUME NEW rs, NEW s \in Seq(Message), NEW o, NEW r, NEW w, \A k \in 1..Len(s) : s[k].run = o
  PROVE  Blocks(rs, s, o) /\ BlocksEnd(s, o, r, w)
  BY DEF Blocks, BlocksEnd, Fresh

LEMMA SendInitStep ==
  ASSUME IInv, SendInit
  PROVE  IInv'
  <1> DEFINE L == Len(runs)
  <1>1. /\ sent \in Nat /\ L \in Nat \ {0}
        /\ \A i \in 1..L : Len(runs[i]) \in Nat
    BY RunTypes DEF IInv
  <1>2. /\ runs' \in Seq(Seq(Nat)) /\ Len(runs') = L + 1
        /\ Grown(runs, runs', L)
        /\ \A i \in 1..L : runs'[i] = runs[i]
        /\ Len(runs'[L + 1]) = 1
        /\ runs'[L + 1][1] = Init_
        /\ RunsOK'
    BY RunsAppended DEF IInv
  <1>3. /\ sent' = sent
        /\ socket' = [c \in Client |-> IF phase[c] = "live" THEN Append(socket[c], Msg(Init_, L + 1))
                                       ELSE socket[c]]
        /\ overtaken' = [c \in Client |-> IF phase[c] = "replaying" THEN replay[c].run ELSE overtaken[c]]
        /\ replay' = replay /\ phase' = phase /\ seen' = seen /\ seenRun' = seenRun
        /\ connections' = connections
    BY DEF SendInit, Emit
  <1> HIDE DEF L
  <1>4. ASSUME NEW c \in Client
        PROVE  /\ socket[c] \in Seq(Message) /\ Append(socket[c], Msg(Init_, L + 1)) \in Seq(Message)
               /\ overtaken[c] \in Nat /\ replay[c].run \in Nat
    <2>1. Init_ \in Nat /\ L + 1 \in Nat
      BY <1>1 DEF Init_
    <2>2. QED BY <2>1, ClientTypes, Written1 DEF IInv
  <1>5. Types'
    <2>1. socket' \in [Client -> Seq(Message)]
      BY <1>3, <1>4
    <2>2. overtaken' \in [Client -> Nat]
      BY <1>3, <1>4
    <2>3. Len(runs') > 0
      BY <1>1, <1>2
    <2>4. QED BY <1>2, <1>3, <2>1, <2>2, <2>3 DEF IInv, Types
  <1>6. ASSUME NEW c \in Client PROVE ClientOK(c)'
    <2> DEFINE s == socket[c]
               o == overtaken[c]
    <2>1. /\ replay[c].run \in Nat /\ replay[c].next \in Nat
          /\ phase[c] \in {"away", "replaying", "live"}
          /\ s \in Seq(Message) /\ Len(s) \in Nat
          /\ seen[c] \in Seq(Nat) /\ seenRun[c] \in Nat /\ o \in Nat
      BY ClientTypes DEF IInv
    <2>2. ClientOK(c)
      BY DEF IInv
    <2>3. /\ PageOK(runs', sent', seen[c], seenRun[c], o)
          /\ SocketOK(runs', sent', s, seen[c], seenRun[c], o)
          /\ replay[c].run \in 1..Len(runs') /\ replay[c].next \in 1..Len(runs'[replay[c].run]) + 1
      BY <1>1, <1>2, <1>3, <2>2, ClientKept DEF IInv, L
    <2>4. replay[c].run \in 1..L /\ o < L
      BY <2>2 DEF ClientOK, ReplayOK, PageOK, L
    <2>5. CASE phase[c] = "away"
      <3>1. socket'[c] = s /\ overtaken'[c] = o
        BY <2>5, <1>3
      <3>2. ReplayOK(runs', replay[c], phase[c], s, o)
        BY <2>2, <2>3, <2>5, <1>2 DEF ClientOK, ReplayOK
      <3>3. EndOK(runs', replay[c], phase[c], s, seen[c], seenRun[c], o)
        BY <2>5 DEF EndOK
      <3>4. QED BY <3>1, <3>2, <3>3, <2>3, <1>3 DEF ClientOK
    <2>6. CASE phase[c] = "replaying"
      <3> DEFINE p == replay[c].run
      <3>1. socket'[c] = s /\ overtaken'[c] = p
        BY <2>6, <1>3
      <3>2. (\A k \in 1..Len(s) : s[k].run = p) /\ (replay[c].next = 1 => s = <<>>)
        BY <2>2, <2>6 DEF ClientOK, ReplayOK
      <3>3. p # 0 /\ p < L + 1 /\ p \in 1..L + 1
        BY <2>4, <1>1
      <3>4. ReplayOK(runs', replay[c], phase[c], s, p)
        BY <2>3, <2>6, <3>2 DEF ReplayOK
      <3>5. PageOK(runs', sent', seen[c], seenRun[c], p)
        BY <2>3, <3>3, <1>2 DEF PageOK
      <3>6. RunsAscend(s, p, L + 1)
        BY <3>2, <3>3 DEF RunsAscend
      <3>7. Blocks(runs', s, p) /\ BlocksEnd(s, p, p, replay[c].next - 1)
        BY <3>2, <2>1, OvertakenHoldsNone
      <3>8. SocketOK(runs', sent', s, seen[c], seenRun[c], p)
        BY <3>3, <3>6, <3>7, <2>3, <1>2 DEF SocketOK
      <3>9. EndOK(runs', replay[c], phase[c], s, seen[c], seenRun[c], p)
        BY <3>3, <3>7, <2>6 DEF EndOK, WrittenRun, Written
      <3>10. QED BY <3>1, <3>4, <3>5, <3>8, <3>9, <1>3 DEF ClientOK
    <2>7. CASE phase[c] = "live"
      <3> DEFINE u == Append(s, Msg(Init_, L + 1))
      <3>1. socket'[c] = u /\ overtaken'[c] = o
        BY <2>7, <1>3
      <3>2. ReplayOK(runs', replay[c], phase[c], u, o)
        BY <2>3, <2>7 DEF ReplayOK
      <3>3. /\ Blocks(runs', s, o) /\ (o = 0 => Joins(runs', s, seen[c], seenRun[c]))
            /\ RunsAscend(s, o, L + 1) /\ Bounded(s, sent)
        BY <2>3, <1>2, <1>3 DEF SocketOK
      <3>4. /\ Blocks(runs', u, o) /\ BlocksEnd(u, o, L + 1, 1)
            /\ JoinsEnd(u, seen[c], seenRun[c], L + 1, 1)
            /\ o = 0 => Joins(runs', u, seen[c], seenRun[c])
        <4>1. L + 1 \in Nat /\ Len(runs'[L + 1]) \in Nat /\ Len(runs'[L + 1]) >= 1
          BY <1>1, <1>2
        <4>2. QED BY <4>1, <3>3, <2>1, <1>2, WriteInit
      <3>5. Bounded(u, sent)
        <4>1. Init_ \in Nat /\ Init_ <= sent /\ L + 1 \in Nat
          BY <1>1 DEF Init_
        <4>2. QED BY <4>1, <3>3, <2>1, <1>1, BoundedAppends
      <3>6. RunsAscend(u, o, L + 1)
        <4>1. L + 1 \in 1..L + 1 /\ o <= L + 1 /\ Init_ \in Nat /\ L + 1 \in Nat
          BY <2>1, <2>4, <1>1 DEF Init_
        <4>2. \A k \in 1..Len(s) : s[k].run <= L + 1
          BY <3>3, <1>1 DEF RunsAscend
        <4>3. QED BY <4>1, <4>2, <3>3, <2>1, AscendAppends
      <3>7. SocketOK(runs', sent', u, seen[c], seenRun[c], o)
        BY <3>4, <3>5, <3>6, <1>2, <1>3 DEF SocketOK
      <3>8. EndOK(runs', replay[c], phase[c], u, seen[c], seenRun[c], o)
        BY <3>4, <2>7, <1>2 DEF EndOK, WrittenRun, Written
      <3>9. QED BY <3>1, <3>2, <3>7, <3>8, <2>3, <1>3 DEF ClientOK
    <2>8. QED BY <2>1, <2>5, <2>6, <2>7
  <1>7. QED BY <1>2, <1>5, <1>6 DEF IInv

LEMMA ConnectStep ==
  ASSUME IInv, NEW d \in Client, Connect(d)
  PROVE  IInv'
  <1>1. /\ Len(runs) \in Nat \ {0} /\ \A i \in 1..Len(runs) : Len(runs[i]) \in Nat
    BY RunTypes DEF IInv
  <1>2. /\ phase[d] = "away"
        /\ connections' = [connections EXCEPT ![d] = @ + 1]
        /\ phase' = [phase EXCEPT ![d] = "replaying"]
        /\ replay' = [replay EXCEPT ![d] = [run |-> Len(runs), next |-> 1]]
        /\ runs' = runs /\ sent' = sent /\ socket' = socket /\ seen' = seen
        /\ seenRun' = seenRun /\ overtaken' = overtaken
    BY DEF Connect
  <1>3. Types /\ Types' /\ RunsOK'
    <2>1. [run |-> Len(runs), next |-> 1] \in [run : Nat, next : Nat]
      BY <1>1
    <2>2. replay' \in [Client -> [run : Nat, next : Nat]] /\ connections' \in [Client -> Nat]
      BY <1>2, <2>1 DEF IInv, Types
    <2>3. QED BY <1>2, <2>2 DEF IInv, Types, RunsOK
  <1>4. ASSUME NEW c \in Client PROVE ClientOK(c)'
    <2>1. ClientOK(c)
      BY DEF IInv
    <2>2. CASE c # d
      BY <1>2, <1>3, <2>1, <2>2, ClientUnmoved DEF Types
    <2>3. CASE c = d
      <3> DEFINE rp == [run |-> Len(runs), next |-> 1]
      <3>1. replay'[c] = rp /\ phase'[c] = "replaying" /\ socket[c] = <<>>
        BY <1>2, <1>3, <2>1, <2>3 DEF Types, ClientOK, ReplayOK
      <3>2. ReplayOK(runs, rp, "replaying", <<>>, overtaken[c])
        BY <1>1 DEF ReplayOK
      <3>3. EndOK(runs, rp, "replaying", <<>>, seen[c], seenRun[c], overtaken[c])
        BY DEF EndOK, BlocksEnd
      <3>4. QED BY <3>1, <3>2, <3>3, <1>2, <2>1 DEF ClientOK
    <2>4. QED BY <2>2, <2>3
  <1>5. QED BY <1>3, <1>4 DEF IInv

LEMMA GoLiveStep ==
  ASSUME IInv, NEW d \in Client, GoLive(d)
  PROVE  IInv'
  <1>1. /\ Len(runs) \in Nat \ {0} /\ \A i \in 1..Len(runs) : Len(runs[i]) \in Nat
    BY RunTypes DEF IInv
  <1>2. /\ phase[d] = "replaying" /\ replay[d].next > Len(runs[replay[d].run])
        /\ phase' = [phase EXCEPT ![d] = "live"]
        /\ runs' = runs /\ sent' = sent /\ socket' = socket /\ seen' = seen /\ replay' = replay
        /\ seenRun' = seenRun /\ overtaken' = overtaken /\ connections' = connections
    BY DEF GoLive, ReplayEnded, Array
  <1>3. Types /\ Types' /\ RunsOK'
    BY <1>2 DEF IInv, Types, RunsOK
  <1>4. ASSUME NEW c \in Client PROVE ClientOK(c)'
    <2>1. ClientOK(c)
      BY DEF IInv
    <2>2. CASE c # d
      BY <1>2, <1>3, <2>1, <2>2, ClientUnmoved DEF Types
    <2>3. CASE c = d
      <3> DEFINE rp == replay[c]
                 s == socket[c]
                 o == overtaken[c]
      <3>1. phase'[c] = "live" /\ phase[c] = "replaying" /\ s \in Seq(Message)
        BY <1>2, <1>3, <2>3 DEF Types
      <3>2. /\ rp.run \in 1..Len(runs) /\ rp.next \in 1..Len(runs[rp.run]) + 1
            /\ rp.run = Len(runs) \/ o = rp.run
            /\ \A k \in 1..Len(s) : s[k].run = rp.run
        BY <2>1, <3>1 DEF ClientOK, ReplayOK
      <3>3. ReplayOK(runs, rp, "live", s, o)
        BY <3>2 DEF ReplayOK
      <3>4. rp.next - 1 = Len(runs[rp.run]) /\ rp.next # 1
        <4>1. Len(runs[rp.run]) > 0 /\ Len(runs[rp.run]) \in Nat
          BY <1>1, <3>2 DEF IInv, RunsOK, RunOK
        <4>2. rp.next \in 1..Len(runs[rp.run]) + 1 /\ rp.next > Len(runs[rp.run])
          BY <3>2, <1>2, <2>3
        <4>3. QED BY <4>1, <4>2
      <3>5. EndOK(runs, rp, "live", s, seen[c], seenRun[c], o)
        <4>1. CASE rp.run = Len(runs)
          BY <4>1, <3>1, <3>4, <2>1 DEF ClientOK, EndOK, WrittenRun, Written
        <4>2. CASE o = rp.run
          <5>1. o # 0
            BY <4>2, <3>2
          <5>2. BlocksEnd(s, o, Len(runs), Len(runs[Len(runs)]))
            BY <4>2, <3>1, <3>2, OvertakenHoldsNone
          <5>3. QED BY <5>1, <5>2 DEF EndOK, WrittenRun, Written
        <4>3. QED BY <4>1, <4>2, <3>2
      <3>6. QED BY <3>1, <3>3, <3>5, <1>2, <2>1 DEF ClientOK
    <2>4. QED BY <2>2, <2>3
  <1>5. QED BY <1>3, <1>4 DEF IInv

LEMMA ReplayStep ==
  ASSUME IInv, NEW d \in Client, Replay(d)
  PROVE  IInv'
  <1> DEFINE r == replay[d].run
             n == replay[d].next
             m == runs[r][n]
             s == socket[d]
             u == Append(s, Msg(m, r))
             o == overtaken[d]
             np == [replay[d] EXCEPT !.next = n + 1]
  <1>1. /\ sent \in Nat /\ Len(runs) \in Nat \ {0}
        /\ \A i \in 1..Len(runs) : runs[i] \in Seq(Nat) /\ Len(runs[i]) \in Nat
    BY RunTypes DEF IInv
  <1>2. /\ replay[d] \in [run : Nat, next : Nat] /\ r \in Nat /\ n \in Nat
        /\ s \in Seq(Message) /\ Len(s) \in Nat /\ seen[d] \in Seq(Nat)
        /\ seenRun[d] \in Nat /\ o \in Nat
    BY ClientTypes DEF IInv
  <1>3. ClientOK(d)
    BY DEF IInv
  <1>4. /\ phase[d] = "replaying" /\ n <= Len(runs[r])
        /\ socket' = [socket EXCEPT ![d] = u]
        /\ replay' = [replay EXCEPT ![d] = np]
        /\ runs' = runs /\ sent' = sent /\ phase' = phase /\ seen' = seen
        /\ seenRun' = seenRun /\ overtaken' = overtaken /\ connections' = connections
    BY DEF Replay, Array
  <1>5. /\ r \in 1..Len(runs) /\ n \in 1..Len(runs[r])
        /\ r = Len(runs) \/ o = r
        /\ n = 1 => s = <<>>
        /\ \A k \in 1..Len(s) : s[k].run = r
    BY <1>1, <1>2, <1>3, <1>4 DEF ClientOK, ReplayOK
  <1>6. /\ m \in Nat /\ m <= sent /\ (n = 1 <=> m = Init_)
        /\ runs[r][1] = Init_ /\ Len(runs[r]) \in Nat /\ Len(runs[r]) >= 1
    <2>1. runs[r] \in Seq(Nat) /\ Len(runs[r]) \in Nat /\ RunOK(runs[r], sent)
      BY <1>1, <1>5 DEF IInv, RunsOK
    <2>2. m \in Nat
      BY <2>1, <1>5, ElementOfSeq
    <2>3. m <= sent /\ runs[r][1] = Init_ /\ Len(runs[r]) > 0
      BY <2>1, <1>5 DEF RunOK
    <2>4. n # 1 => n \in 2..Len(runs[r])
      BY <2>1, <1>5
    <2>5. n # 1 => m # Init_
      BY <2>1, <2>4 DEF RunOK
    <2>6. QED BY <2>1, <2>2, <2>3, <2>5
  <1>7. np \in [run : Nat, next : Nat] /\ np.run = r /\ np.next = n + 1 /\ np.next # 1
    BY <1>2, <1>5
  <1>8. u \in Seq(Message) /\ (\A k \in 1..Len(u) : u[k].run = r)
    <2>1. /\ u \in Seq(Message) /\ Len(u) = Len(s) + 1 /\ Len(s) \in Nat
          /\ \A k \in 1..Len(s) : u[k] = s[k]
          /\ u[Len(s) + 1].run = r
      <3>1. s \in Seq(Message) /\ m \in Nat /\ r \in Nat
        BY <1>2, <1>6
      <3> HIDE DEF m, s, r
      <3>2. QED BY <3>1, Written1
    <2> HIDE DEF u
    <2>2. ASSUME NEW k \in 1..Len(u) PROVE u[k].run = r
      <3>1. CASE k = Len(s) + 1
        BY <3>1, <2>1
      <3>2. CASE k # Len(s) + 1
        <4>1. k \in 1..Len(s)
          BY <3>2, <2>1
        <4>2. QED BY <4>1, <2>1, <1>5
      <3>3. QED BY <3>1, <3>2
    <2>3. QED BY <2>1, <2>2
  <1> HIDE DEF m, u, np
  <1>9. Types /\ Types' /\ RunsOK'
    BY <1>4, <1>7, <1>8 DEF IInv, Types, RunsOK
  <1>10. replay'[d] = np /\ socket'[d] = u
    BY <1>4, <1>9 DEF Types
  <1>11. SocketOK(runs, sent, s, seen[d], seenRun[d], o) /\ o < Len(runs)
    BY <1>3 DEF ClientOK, PageOK
  <1>12. /\ Blocks(runs, u, o) /\ BlocksEnd(u, o, r, n)
         /\ o = 0 => Joins(runs, u, seen[d], seenRun[d]) /\ JoinsEnd(u, seen[d], seenRun[d], r, n)
    <2>1. CASE n = 1
      <3>1. Blocks(runs, s, o) /\ (o = 0 => Joins(runs, s, seen[d], seenRun[d]))
        BY <1>11 DEF SocketOK
      <3>2. u = Append(s, Msg(Init_, r))
        BY <2>1, <1>6 DEF u
      <3>3. QED BY <3>1, <3>2, <2>1, <1>2, <1>6, WriteInit
    <2>2. CASE n # 1
      <3>1. /\ Blocks(runs, s, o) /\ BlocksEnd(s, o, r, n - 1)
            /\ o = 0 => Joins(runs, s, seen[d], seenRun[d]) /\ JoinsEnd(s, seen[d], seenRun[d], r, n - 1)
        BY <2>2, <1>3, <1>4, <1>11 DEF SocketOK, ClientOK, EndOK, WrittenRun, Written
      <3>2. /\ n - 1 \in Nat /\ (n - 1) + 1 = n /\ n <= Len(runs[r]) /\ runs[r][n] = m /\ m # Init_
            /\ r # 0
        <4>1. n \in Nat /\ n <= Len(runs[r]) /\ r # 0 /\ m # Init_
          BY <2>2, <1>2, <1>5, <1>6
        <4>2. n # 0
          BY <1>5
        <4>3. QED BY <4>1, <4>2 DEF m
      <3>3. Blocks(runs, u, o) /\ BlocksEnd(u, o, r, (n - 1) + 1)
        BY <3>1, <3>2, <1>2, <1>6, WriteEvent DEF u
      <3>4. o = 0 => Joins(runs, u, seen[d], seenRun[d]) /\ JoinsEnd(u, seen[d], seenRun[d], r, (n - 1) + 1)
        BY <3>1, <3>2, <1>2, <1>6, WriteEventJoins DEF u
      <3>5. QED BY <3>2, <3>3, <3>4
    <2>3. QED BY <2>1, <2>2
  <1>13. Bounded(u, sent)
    BY <1>1, <1>2, <1>6, <1>11, BoundedAppends DEF SocketOK, u
  <1>14. RunsAscend(u, o, Len(runs))
    <2>1. RunsAscend(s, o, Len(runs)) /\ o <= r /\ \A k \in 1..Len(s) : s[k].run <= r
      BY <1>1, <1>2, <1>5, <1>11 DEF SocketOK
    <2>2. QED BY <2>1, <1>1, <1>2, <1>5, <1>6, AscendAppends DEF u
  <1>15. ASSUME NEW c \in Client PROVE ClientOK(c)'
    <2>1. ClientOK(c)
      BY DEF IInv
    <2>2. CASE c # d
      BY <1>4, <1>9, <2>1, <2>2, ClientUnmoved DEF Types
    <2>3. CASE c = d
      <3>1. ReplayOK(runs, np, "replaying", u, o)
        <4>1. n + 1 \in 1..Len(runs[r]) + 1
          <5>1. n \in 1..Len(runs[r]) /\ Len(runs[r]) \in Nat
            BY <1>5, <1>6
          <5>2. QED BY <5>1
        <4>2. QED BY <4>1, <1>5, <1>7, <1>8 DEF ReplayOK
      <3>2. SocketOK(runs, sent, u, seen[d], seenRun[d], o)
        BY <1>12, <1>13, <1>14 DEF SocketOK
      <3>3. EndOK(runs, np, "replaying", u, seen[d], seenRun[d], o)
        <4>1. np.next - 1 = n
          BY <1>2, <1>7
        <4>2. QED BY <4>1, <1>7, <1>12 DEF EndOK, WrittenRun, Written
      <3>4. QED BY <3>1, <3>2, <3>3, <2>3, <1>3, <1>4, <1>10 DEF ClientOK
    <2>4. QED BY <2>2, <2>3
  <1>16. QED BY <1>9, <1>15 DEF IInv

LEMMA DisconnectStep ==
  ASSUME IInv, NEW d \in Client, Disconnect(d)
  PROVE  IInv'
  <1>1. Len(runs) \in Nat \ {0} /\ sent \in Nat
    BY RunTypes DEF IInv
  <1>2. /\ phase' = [phase EXCEPT ![d] = "away"]
        /\ socket' = [socket EXCEPT ![d] = <<>>]
        /\ \/ seen' = seen /\ seenRun' = seenRun
           \/ seen' = [seen EXCEPT ![d] = <<>>] /\ seenRun' = [seenRun EXCEPT ![d] = 0]
        /\ runs' = runs /\ sent' = sent /\ replay' = replay
        /\ overtaken' = overtaken /\ connections' = connections
    BY DEF Disconnect, LosesSocket
  <1>3. Types /\ Types' /\ RunsOK'
    <2>1. <<>> \in Seq(Message) /\ <<>> \in Seq(Nat)
      OBVIOUS
    <2>2. phase' \in [Client -> {"away", "replaying", "live"}] /\ socket' \in [Client -> Seq(Message)]
      BY <1>2, <2>1 DEF IInv, Types
    <2>3. seen' \in [Client -> Seq(Nat)] /\ seenRun' \in [Client -> Nat]
      <3>1. CASE seen' = seen /\ seenRun' = seenRun
        BY <3>1 DEF IInv, Types
      <3>2. CASE seen' = [seen EXCEPT ![d] = <<>>] /\ seenRun' = [seenRun EXCEPT ![d] = 0]
        BY <3>2, <2>1 DEF IInv, Types
      <3>3. QED BY <3>1, <3>2, <1>2
    <2>4. QED BY <1>2, <2>2, <2>3 DEF IInv, Types, RunsOK
  <1>4. ASSUME NEW c \in Client PROVE ClientOK(c)'
    <2>1. ClientOK(c)
      BY DEF IInv
    <2>2. CASE c # d
      BY <1>2, <1>3, <2>1, <2>2, ClientUnmoved DEF Types
    <2>3. CASE c = d
      <3> DEFINE o == overtaken[c]
      <3>1. phase'[c] = "away" /\ socket'[c] = <<>>
        BY <1>2, <1>3, <2>3 DEF Types
      <3>2. ReplayOK(runs, replay[c], "away", <<>>, o)
        BY <2>1 DEF ClientOK, ReplayOK
      <3>3. SocketOK(runs, sent, <<>>, seen'[c], seenRun'[c], o)
        BY DEF SocketOK, Bounded, RunsAscend, Blocks, Joins
      <3>4. PageOK(runs, sent, seen'[c], seenRun'[c], o)
        <4>1. CASE seen' = seen /\ seenRun' = seenRun
          BY <4>1, <2>1 DEF ClientOK
        <4>2. CASE seen' = [seen EXCEPT ![d] = <<>>] /\ seenRun' = [seenRun EXCEPT ![d] = 0]
          <5>1. seen'[c] = <<>> /\ seenRun'[c] = 0
            BY <4>2, <1>3, <2>3 DEF Types
          <5>2. QED BY <5>1, <1>1, <2>1 DEF ClientOK, PageOK
        <4>3. QED BY <4>1, <4>2, <1>2
      <3>5. EndOK(runs, replay[c], "away", <<>>, seen'[c], seenRun'[c], o)
        BY DEF EndOK
      <3>6. QED BY <3>1, <3>2, <3>3, <3>4, <3>5, <1>2 DEF ClientOK
    <2>4. QED BY <2>2, <2>3
  <1>5. QED BY <1>3, <1>4 DEF IInv

LEMMA ReceiveStep ==
  ASSUME IInv, NEW d \in Client, Receive(d)
  PROVE  IInv'
  <1> DEFINE s == socket[d]
             o == overtaken[d]
             h == s[1]
             ns == IF h.msg = Init_ THEN <<Init_>> ELSE Append(seen[d], h.msg)
             nr == IF h.msg = Init_ THEN h.run ELSE seenRun[d]
             no == IF h.msg = Init_ /\ h.run # o THEN 0 ELSE o
  <1>1. /\ sent \in Nat /\ Len(runs) \in Nat \ {0}
    BY RunTypes DEF IInv
  <1>2. /\ replay[d].next \in Nat /\ s \in Seq(Message) /\ seen[d] \in Seq(Nat) /\ Len(seen[d]) \in Nat
        /\ seenRun[d] \in Nat /\ o \in Nat
        /\ phase[d] \in {"away", "replaying", "live"}
    BY ClientTypes DEF IInv
  <1>3. ClientOK(d) /\ Types
    BY DEF IInv
  <1>4. s # <<>>
    BY DEF Receive
  <1>5. /\ Tail(s) \in Seq(Message) /\ Len(s) \in Nat \ {0} /\ Len(Tail(s)) = Len(s) - 1
        /\ \A k \in 1..Len(Tail(s)) : k + 1 \in 1..Len(s) /\ Tail(s)[k] = s[k + 1]
        /\ Head(s) = h /\ h.msg \in Nat /\ h.run \in Nat
    BY <1>2, <1>4, TailFacts
  <1>6. /\ socket' = [socket EXCEPT ![d] = Tail(s)]
        /\ seen' = [seen EXCEPT ![d] = ns]
        /\ seenRun' = [seenRun EXCEPT ![d] = nr]
        /\ overtaken' = [overtaken EXCEPT ![d] = no]
        /\ runs' = runs /\ sent' = sent /\ phase' = phase /\ replay' = replay /\ connections' = connections
    BY <1>3, <1>5 DEF Receive, Shown, Types
  <1>7. ns \in Seq(Nat) /\ nr \in Nat /\ no \in Nat
    <2>1. <<Init_>> \in Seq(Nat)
      BY DEF Init_
    <2>2. QED BY <2>1, <1>2, <1>5
  <1> HIDE DEF ns, nr, no
  <1>8. Types' /\ RunsOK'
    BY <1>3, <1>5, <1>6, <1>7 DEF IInv, Types, RunsOK
  <1>9. /\ ReplayOK(runs, replay[d], phase[d], s, o)
        /\ PageOK(runs, sent, seen[d], seenRun[d], o)
        /\ SocketOK(runs, sent, s, seen[d], seenRun[d], o)
        /\ EndOK(runs, replay[d], phase[d], s, seen[d], seenRun[d], o)
    BY <1>3 DEF ClientOK
  <1>10. RunsAscend(s, o, Len(runs)) /\ Bounded(s, sent) /\ h.run \in 1..Len(runs) /\ h.msg <= sent
    <2>1. 1 \in 1..Len(s)
      BY <1>5
    <2>2. QED BY <2>1, <1>9 DEF SocketOK, RunsAscend, Bounded
  <1>11. phase[d] # "away" /\ ~(phase[d] = "replaying" /\ replay[d].next = 1)
    BY <1>4, <1>9 DEF ReplayOK
  <1> DEFINE r == WrittenRun(runs, replay[d], phase[d])
             w == Written(runs, replay[d], phase[d])
  <1> HIDE DEF r, w
  <1>12. /\ BlocksEnd(s, o, r, w) /\ Blocks(runs, s, o)
         /\ o = 0 => JoinsEnd(s, seen[d], seenRun[d], r, w) /\ Joins(runs, s, seen[d], seenRun[d])
    BY <1>9, <1>11 DEF EndOK, SocketOK, r, w
  <1>13. /\ RunsAscend(Tail(s), no, Len(runs)) /\ Bounded(Tail(s), sent)
         /\ Blocks(runs, Tail(s), no) /\ BlocksEnd(Tail(s), no, r, w)
    <2>1. no = o \/ (no = 0 /\ s[1].run # o)
      BY DEF no
    <2>2. QED BY <2>1, <1>1, <1>2, <1>4, <1>7, <1>10, <1>12, TailKeeps
  <1>14. no = 0 => /\ Joins(runs, Tail(s), ns, nr) /\ JoinsEnd(Tail(s), ns, nr, r, w)
                   /\ nr # 0 => Shows(runs, ns, nr)
    <2>1. CASE h.msg # Init_
      <3>1. ns = Append(seen[d], s[1].msg) /\ nr = seenRun[d] /\ no = o
        BY <2>1 DEF ns, nr, no
      <3>2. o = 0 /\ seenRun[d] # 0 => Shows(runs, seen[d], seenRun[d])
        BY <1>9 DEF PageOK
      <3>4. /\ o = 0 => Joins(runs, Tail(s), ns, nr) /\ JoinsEnd(Tail(s), ns, nr, r, w)
            /\ o = 0 /\ Shows(runs, seen[d], seenRun[d]) => Shows(runs, ns, nr)
        BY <3>1, <2>1, <1>2, <1>4, <1>12, ReceiveEvent
      <3>5. QED BY <3>1, <3>2, <3>4
    <2>2. CASE h.msg = Init_
      <3>1. ns = <<Init_>> /\ nr = s[1].run
        BY <2>2 DEF ns, nr
      <3>2. no = 0 => Fresh(s, o, 1) /\ s[1].run # 0
        BY <2>2, <1>10, <1>1 DEF Fresh, no
      <3>3. QED BY <3>1, <3>2, <1>2, <1>4, <1>12, ReceiveInit
    <2>3. QED BY <2>1, <2>2
  <1>15. ASSUME NEW c \in Client PROVE ClientOK(c)'
    <2>1. ClientOK(c)
      BY DEF IInv
    <2>2. CASE c # d
      BY <1>3, <1>6, <2>1, <2>2, ClientUnmoved DEF Types
    <2>3. CASE c = d
      <3>1. socket'[d] = Tail(s) /\ seen'[d] = ns /\ seenRun'[d] = nr /\ overtaken'[d] = no
        BY <1>3, <1>6 DEF Types
      <3>2. ReplayOK(runs, replay[d], phase[d], Tail(s), no)
        <4>1. phase[d] = "replaying" => \A k \in 1..Len(Tail(s)) : Tail(s)[k].run = replay[d].run
          BY <1>5, <1>9 DEF ReplayOK
        <4>2. phase[d] = "replaying" /\ o = replay[d].run => no = o
          <5>1. phase[d] = "replaying" => s[1].run = replay[d].run
            BY <1>5, <1>9 DEF ReplayOK
          <5>2. QED BY <5>1 DEF no
        <4>3. QED BY <4>1, <4>2, <1>9, <1>11 DEF ReplayOK
      <3>3. PageOK(runs, sent, ns, nr, no)
        <4>1. nr <= Len(runs) /\ no < Len(runs)
          BY <1>1, <1>9, <1>10 DEF PageOK, nr, no
        <4>2. ASSUME NEW j \in 1..Len(ns) PROVE ns[j] <= sent
          <5>1. CASE h.msg = Init_
            BY <5>1, <1>1 DEF ns, Init_
          <5>2. CASE h.msg # Init_
            <6>1. ns = Append(seen[d], h.msg)
              BY <5>2 DEF ns
            <6>2. /\ Len(ns) = Len(seen[d]) + 1 /\ ns[Len(seen[d]) + 1] = h.msg
                  /\ \A i \in 1..Len(seen[d]) : ns[i] = seen[d][i]
              BY <6>1, <1>2, <1>5, AppendProperties
            <6>3. CASE j = Len(seen[d]) + 1
              BY <6>2, <6>3, <1>10
            <6>4. CASE j # Len(seen[d]) + 1
              <7>1. j \in 1..Len(seen[d])
                BY <6>2, <6>4, <1>2
              <7>2. QED BY <7>1, <6>2, <1>9 DEF PageOK
            <6>5. QED BY <6>3, <6>4
          <5>3. QED BY <5>1, <5>2
        <4>3. QED BY <4>1, <4>2, <1>14 DEF PageOK
      <3>4. SocketOK(runs, sent, Tail(s), ns, nr, no)
        BY <1>13, <1>14 DEF SocketOK
      <3>5. EndOK(runs, replay[d], phase[d], Tail(s), ns, nr, no)
        BY <1>13, <1>14 DEF EndOK, r, w
      <3>6. QED BY <3>1, <3>2, <3>3, <3>4, <3>5, <2>3, <1>6 DEF ClientOK
    <2>4. QED BY <2>2, <2>3
  <1>16. QED BY <1>8, <1>15 DEF IInv
-----------------------------------------------------------------------------
LEMMA InitIInv == Init => IInv
  <1> SUFFICES ASSUME Init PROVE IInv
    OBVIOUS
  <1>1. runs = <<<<Init_>>>> /\ Len(runs) = 1 /\ runs[1] = <<Init_>> /\ sent = 0
    BY DEF Init
  <1>2. Types
    <2>1. runs \in Seq(Seq(Nat)) /\ Len(runs) > 0
      BY <1>1 DEF Init_
    <2>2. \A S : <<>> \in Seq(S)
      OBVIOUS
    <2>3. QED BY <2>1, <2>2, SseAssumption DEF Init, Types
  <1>3. RunsOK
    BY <1>1 DEF RunsOK, RunOK, Init_
  <1>4. ASSUME NEW c \in Client PROVE ClientOK(c)
    <2>1. /\ replay[c] = [run |-> 1, next |-> 1] /\ phase[c] = "away" /\ socket[c] = <<>>
          /\ seen[c] = <<>> /\ seenRun[c] = 0 /\ overtaken[c] = 0
      BY DEF Init
    <2>2. ReplayOK(runs, replay[c], phase[c], socket[c], overtaken[c])
      BY <1>1, <2>1 DEF ReplayOK
    <2>3. PageOK(runs, sent, seen[c], seenRun[c], overtaken[c])
      BY <1>1, <2>1 DEF PageOK
    <2>4. SocketOK(runs, sent, socket[c], seen[c], seenRun[c], overtaken[c])
      BY <2>1 DEF SocketOK, Bounded, RunsAscend, Blocks, Joins
    <2>5. EndOK(runs, replay[c], phase[c], socket[c], seen[c], seenRun[c], overtaken[c])
      BY <2>1 DEF EndOK
    <2>6. QED BY <2>2, <2>3, <2>4, <2>5 DEF ClientOK
  <1>5. QED BY <1>2, <1>3, <1>4 DEF IInv

LEMMA NextIInv == IInv /\ [Next]_vars => IInv'
  <1> SUFFICES ASSUME IInv, [Next]_vars PROVE IInv'
    OBVIOUS
  <1>1. CASE SendEvent
    BY <1>1, SendEventStep
  <1>2. CASE SendInit
    BY <1>2, SendInitStep
  <1>3. ASSUME NEW c \in Client, Connect(c) PROVE IInv'
    BY <1>3, ConnectStep
  <1>4. ASSUME NEW c \in Client, Replay(c) PROVE IInv'
    BY <1>4, ReplayStep
  <1>5. ASSUME NEW c \in Client, GoLive(c) PROVE IInv'
    BY <1>5, GoLiveStep
  <1>6. ASSUME NEW c \in Client, Receive(c) PROVE IInv'
    BY <1>6, ReceiveStep
  <1>7. ASSUME NEW c \in Client, Disconnect(c) PROVE IInv'
    BY <1>7, DisconnectStep
  <1>8. CASE UNCHANGED vars
    BY <1>8 DEF vars, IInv, Types, RunsOK, ClientOK
  <1>9. QED
    BY <1>1, <1>2, <1>3, <1>4, <1>5, <1>6, <1>7, <1>8 DEF Next

LEMMA IInvAlways == Spec => []IInv
  BY InitIInv, NextIInv, PTL DEF Spec
-----------------------------------------------------------------------------
LEMMA SeqOfFunction ==
  ASSUME NEW S, NEW n \in Nat, NEW f \in [1..n -> S]
  PROVE  f \in Seq(S)
  BY SeqDef

LEMMA SeqBounded ==
  ASSUME NEW s \in Seq(Nat), NEW n \in Nat, \A k \in 1..Len(s) : s[k] <= n
  PROVE  s \in Seq(0..n)
  <1>1. Len(s) \in Nat /\ s \in [1..Len(s) -> Nat]
    BY LenProperties
  <1>2. s \in [1..Len(s) -> 0..n]
    BY <1>1
  <1>3. QED BY <1>1, <1>2, SeqOfFunction

LEMMA PrefixByPosition ==
  ASSUME NEW s \in Seq(Nat), NEW t \in Seq(Nat), Len(s) <= Len(t), \A j \in 1..Len(s) : s[j] = t[j]
  PROVE  Prefix(s, t)
  <1>1. Len(s) \in Nat /\ Len(t) \in Nat /\ \A j \in 1..Len(s) : t[j] \in Nat
    BY LenProperties, ElementOfSeq
  <1>2. /\ SubSeq(t, 1, Len(s)) \in Seq(Nat) /\ Len(SubSeq(t, 1, Len(s))) = Len(s)
        /\ \A j \in 1..Len(s) : SubSeq(t, 1, Len(s))[j] = t[j]
    <2> DEFINE n == Len(s)
    <2>1. n \in Int /\ 1 \in Int /\ \A i \in 1..n : t[i] \in Nat
      <3>1. \A i \in 1..n : i \in 1..Len(t)
        BY <1>1
      <3>2. QED BY <3>1, <1>1
    <2> HIDE DEF n
    <2>2. /\ SubSeq(t, 1, n) \in Seq(Nat)
          /\ Len(SubSeq(t, 1, n)) = (IF 1 <= n THEN n - 1 + 1 ELSE 0)
          /\ \A j \in 1..n - 1 + 1 : SubSeq(t, 1, n)[j] = t[1 + j - 1]
      BY <2>1, SubSeqProperties
    <2>3. QED BY <2>2, <1>1 DEF n
  <1>3. s = SubSeq(t, 1, Len(s))
    BY <1>2, SeqEqual
  <1>4. QED BY <1>3 DEF Prefix

LEMMA ConcatByPosition ==
  ASSUME NEW s \in Seq(Nat), NEW t \in Seq(Nat), NEW u \in Seq(Nat), Len(s) + Len(t) = Len(u),
         \A i \in 1..Len(s) : s[i] = u[i], \A j \in 1..Len(t) : t[j] = u[Len(s) + j]
  PROVE  s \o t = u
  <1>1. Len(s) \in Nat /\ Len(t) \in Nat
    BY LenProperties
  <1>2. /\ s \o t \in Seq(Nat) /\ Len(s \o t) = Len(u)
        /\ \A i \in 1..Len(u) : (s \o t)[i] = IF i <= Len(s) THEN s[i] ELSE t[i - Len(s)]
    BY ConcatProperties
  <1>3. ASSUME NEW i \in 1..Len(u) PROVE (s \o t)[i] = u[i]
    <2>1. CASE i <= Len(s)
      BY <2>1, <1>1, <1>2
    <2>2. CASE ~(i <= Len(s))
      <3>1. i - Len(s) \in 1..Len(t) /\ Len(s) + (i - Len(s)) = i
        BY <2>2, <1>1
      <3>2. QED BY <3>1, <2>2, <1>2
    <2>3. QED BY <2>1, <2>2
  <1>4. QED BY <1>2, <1>3, SeqEqual

LEMMA MsgsFacts ==
  ASSUME NEW s \in Seq(Message)
  PROVE  /\ Msgs(s) \in Seq(Nat) /\ Len(Msgs(s)) = Len(s) /\ Len(s) \in Nat
         /\ \A k \in 1..Len(s) : Msgs(s)[k] = s[k].msg
  <1>1. Len(s) \in Nat /\ DOMAIN s = 1..Len(s) /\ \A k \in 1..Len(s) : s[k].msg \in Nat
    <2>1. Len(s) \in Nat /\ DOMAIN s = 1..Len(s) /\ \A k \in 1..Len(s) : s[k] \in Message
      BY LenProperties, ElementOfSeq
    <2>2. QED BY <2>1 DEF Message
  <1>2. Msgs(s) = [k \in 1..Len(s) |-> s[k].msg]
    BY <1>1 DEF Msgs
  <1>3. Msgs(s) \in [1..Len(s) -> Nat]
    BY <1>1, <1>2
  <1>4. Msgs(s) \in Seq(Nat)
    BY <1>1, <1>3, SeqOfFunction
  <1>5. DOMAIN Msgs(s) = 1..Len(Msgs(s)) /\ Len(Msgs(s)) \in Nat
    BY <1>4, LenProperties
  <1>6. Len(Msgs(s)) = Len(s)
    BY <1>1, <1>2, <1>5
  <1>7. QED BY <1>1, <1>2, <1>4, <1>6

\* The least number principle.
LEMMA LeastExists ==
  ASSUME NEW T \in SUBSET Nat, T # {}
  PROVE  \E x \in T : \A y \in T : x <= y
  <1>1. PICK x \in T : \A y \in T : ~(<<y, x>> \in OpToRel(<, Nat))
    BY NatLessThanWellFounded, WFMin
  <1>2. \A y \in T : ~(y < x)
    BY <1>1 DEF OpToRel
  <1>3. QED BY <1>2

\* Among the inits of a socket there is a last one.
LEMMA LastInit ==
  ASSUME NEW s \in Seq(Message), ~NoInit(s, 1, Len(s))
  PROVE  \E k \in 1..Len(s) : s[k].msg = Init_ /\ NoInit(s, k + 1, Len(s))
  <1> DEFINE D == {d \in Nat : d < Len(s) /\ s[Len(s) - d].msg = Init_}
  <1>1. Len(s) \in Nat
    BY LenProperties
  <1>2. PICK i \in 1..Len(s) : s[i].msg = Init_
    BY DEF NoInit
  <1>3. Len(s) - i \in D
    <2>1. Len(s) - i \in Nat /\ Len(s) - i < Len(s) /\ Len(s) - (Len(s) - i) = i
      BY <1>1
    <2>2. QED BY <2>1, <1>2
  <1>4. D \in SUBSET Nat /\ D # {}
    BY <1>3
  <1>5. PICK d \in D : \A e \in D : d <= e
    <2> HIDE DEF D
    <2>1. QED BY <1>4, LeastExists
  <1> DEFINE k == Len(s) - d
  <1>7. k \in 1..Len(s) /\ s[k].msg = Init_
    BY <1>1
  <1>8. ASSUME NEW j \in k + 1..Len(s), s[j].msg = Init_ PROVE FALSE
    <2>1. Len(s) - j \in Nat /\ Len(s) - j < d /\ Len(s) - j < Len(s) /\ Len(s) - (Len(s) - j) = j
      BY <1>1, <1>5
    <2>2. Len(s) - j \in D
      BY <2>1, <1>8
    <2>3. QED BY <2>1, <2>2, <1>5
  <1>9. QED BY <1>7, <1>8 DEF NoInit

-----------------------------------------------------------------------------
\* A page shows a beginning of one run.
LEMMA IInvShowsBeginning == IInv => ShowsBeginningOfRun
  <1> SUFFICES ASSUME IInv, NEW c \in Client, overtaken[c] = 0, seenRun[c] # 0
               PROVE  Prefix(seen[c], runs[seenRun[c]])
    BY DEF ShowsBeginningOfRun
  <1>1. seen[c] \in Seq(Nat) /\ seenRun[c] \in Nat
    BY ClientTypes DEF IInv
  <1>2. PageOK(runs, sent, seen[c], seenRun[c], overtaken[c])
    BY DEF IInv, ClientOK
  <1>3. seenRun[c] \in 1..Len(runs) /\ Shows(runs, seen[c], seenRun[c])
    BY <1>1, <1>2, RunTypes DEF PageOK, IInv
  <1>4. runs[seenRun[c]] \in Seq(Nat)
    BY <1>3, RunTypes DEF IInv
  <1>5. QED
    BY <1>1, <1>3, <1>4, PrefixByPosition DEF Shows

\* What a live page shows, with what its socket holds, is the present run.
LEMMA IInvLiveShowsAll == IInv => LiveShowsAll
  <1> SUFFICES ASSUME IInv, NEW c \in Client, phase[c] = "live", overtaken[c] = 0
               PROVE  \/ seen[c] \o Msgs(socket[c]) = History
                      \/ \E k \in DOMAIN socket[c] :
                           /\ socket[c][k].msg = Init_
                           /\ Msgs(SubSeq(socket[c], k, Len(socket[c]))) = History
    BY DEF LiveShowsAll
  <1> DEFINE s == socket[c]
             sn == seen[c]
             sr == seenRun[c]
             L == Len(runs)
             w == Len(runs[L])
  <1>1. /\ s \in Seq(Message) /\ Len(s) \in Nat /\ DOMAIN s = 1..Len(s)
        /\ sn \in Seq(Nat) /\ Len(sn) \in Nat /\ sr \in Nat
    BY ClientTypes, LenProperties DEF IInv
  <1>2. L \in 1..L /\ L # 0 /\ History \in Seq(Nat) /\ w = Len(History) /\ w \in Nat /\ History = runs[L]
    BY RunTypes DEF IInv, History
  <1>3. /\ PageOK(runs, sent, sn, sr, 0) /\ SocketOK(runs, sent, s, sn, sr, 0)
        /\ EndOK(runs, replay[c], "live", s, sn, sr, 0)
    BY DEF IInv, ClientOK
  <1>4. /\ Blocks(runs, s, 0) /\ Joins(runs, s, sn, sr) /\ RunsAscend(s, 0, L)
        /\ BlocksEnd(s, 0, L, w) /\ JoinsEnd(s, sn, sr, L, w)
    BY <1>3 DEF SocketOK, EndOK, WrittenRun, Written
  <1> HIDE DEF w
  <1>5. CASE NoInit(s, 1, Len(s))
    <2>1. sr = L /\ Len(sn) + Len(s) = w
      BY <1>4, <1>5 DEF JoinsEnd
    <2>2. /\ Msgs(s) \in Seq(Nat) /\ Len(Msgs(s)) = Len(s)
          /\ \A k \in 1..Len(s) : Msgs(s)[k] = s[k].msg
      BY <1>1, MsgsFacts
    <2>3. ASSUME NEW i \in 1..Len(sn) PROVE sn[i] = History[i]
      BY <2>1, <1>2, <1>3 DEF PageOK, Shows
    <2>4. ASSUME NEW j \in 1..Len(Msgs(s)) PROVE Msgs(s)[j] = History[Len(sn) + j]
      <3>1. j \in 1..Len(s) /\ NoInit(s, 1, j)
        BY <2>2, <1>1, <1>5 DEF NoInit
      <3>2. s[j].msg = runs[sr][Len(sn) + j]
        BY <3>1, <1>4 DEF Joins
      <3>3. QED BY <3>1, <3>2, <2>1, <2>2, <1>2
    <2>5. sn \o Msgs(s) = History
      <3>1. sn \in Seq(Nat) /\ Msgs(s) \in Seq(Nat) /\ History \in Seq(Nat)
            /\ Len(sn) + Len(Msgs(s)) = Len(History)
        BY <2>1, <2>2, <1>1, <1>2
      <3> HIDE DEF s, sn
      <3>2. QED BY <3>1, <2>3, <2>4, ConcatByPosition
    <2>6. QED BY <2>5
  <1>6. CASE ~NoInit(s, 1, Len(s))
    <2>1. PICK k \in 1..Len(s) : s[k].msg = Init_ /\ NoInit(s, k + 1, Len(s))
      BY <1>1, <1>6, LastInit
    <2>2. Fresh(s, 0, k) /\ Len(s) \in 1..Len(s) /\ k <= Len(s)
      BY <1>1, <1>4, <2>1 DEF Fresh, RunsAscend
    <2>3. s[k].run = L /\ Len(s) - k + 1 = w
      BY <2>1, <2>2, <1>4 DEF BlocksEnd
    <2> DEFINE t == SubSeq(s, k, Len(s))
    <2>4. /\ t \in Seq(Message) /\ Len(t) = w
          /\ \A i \in 1..w : t[i] = s[k + i - 1]
      <3>1. \A i \in k..Len(s) : s[i] \in Message
        BY <1>1, ElementOfSeq
      <3>2. k \in Int /\ Len(s) \in Int
        BY <1>1
      <3>3. /\ t \in Seq(Message) /\ Len(t) = (IF k <= Len(s) THEN Len(s) - k + 1 ELSE 0)
            /\ \A i \in 1..Len(s) - k + 1 : t[i] = s[k + i - 1]
        BY <3>1, <3>2, SubSeqProperties
      <3>4. QED BY <3>3, <2>2, <2>3
    <2> HIDE DEF t
    <2>5. /\ Msgs(t) \in Seq(Nat) /\ Len(Msgs(t)) = w
          /\ \A i \in 1..w : Msgs(t)[i] = t[i].msg
      BY <2>4, MsgsFacts
    <2>6. ASSUME NEW i \in 1..w PROVE Msgs(t)[i] = History[i]
      <3>1. /\ k + i - 1 \in 1..Len(s) /\ k <= k + i - 1 /\ (k + i - 1) - k + 1 = i
        BY <2>3, <1>1, <1>2
      <3>2. NoInit(s, k + 1, k + i - 1)
        BY <3>1, <2>1, <1>1 DEF NoInit
      <3>3. s[k + i - 1].msg = runs[s[k].run][(k + i - 1) - k + 1]
        BY <3>1, <3>2, <2>2, <1>4 DEF Blocks
      <3>4. QED BY <3>1, <3>3, <2>3, <2>4, <2>5, <1>2
    <2>7. Msgs(t) = History
      BY <2>5, <2>6, <1>2, SeqEqual
    <2>8. QED BY <2>1, <2>7, <1>1 DEF t
  <1>7. QED BY <1>5, <1>6

LEMMA IInvTypeOK == IInv => TypeOK
  <1> SUFFICES ASSUME IInv PROVE TypeOK
    OBVIOUS
  <1>1. /\ sent \in Nat /\ runs \in Seq(Seq(Nat)) /\ Len(runs) \in Nat \ {0}
        /\ \A i \in 1..Len(runs) : runs[i] \in Seq(Nat) /\ Len(runs[i]) \in Nat
    BY RunTypes DEF IInv
  <1>2. runs \in Seq(Seq(0..sent))
    <2>1. \A i \in 1..Len(runs) : runs[i] \in Seq(0..sent)
      BY <1>1, SeqBounded DEF IInv, RunsOK, RunOK
    <2>2. runs \in [1..Len(runs) -> Seq(Nat)]
      BY <1>1, LenProperties
    <2>3. runs \in [1..Len(runs) -> Seq(0..sent)]
      BY <2>1, <2>2
    <2>4. QED BY <2>3, <1>1, SeqOfFunction
  <1>3. ASSUME NEW c \in Client
        PROVE  /\ phase[c] \in {"away", "replaying", "live"}
               /\ replay[c].run \in 1..Len(runs) /\ replay[c].next \in 1..Len(Array(c)) + 1
               /\ overtaken[c] \in 0..Len(runs) /\ seen[c] \in Seq(0..sent) /\ seenRun[c] \in 0..Len(runs)
               /\ phase[c] = "away" => socket[c] = <<>>
    <2>1. /\ phase[c] \in {"away", "replaying", "live"} /\ seen[c] \in Seq(Nat)
          /\ seenRun[c] \in Nat /\ overtaken[c] \in Nat
      BY ClientTypes DEF IInv
    <2>2. /\ ReplayOK(runs, replay[c], phase[c], socket[c], overtaken[c])
          /\ PageOK(runs, sent, seen[c], seenRun[c], overtaken[c])
      BY DEF IInv, ClientOK
    <2>3. seen[c] \in Seq(0..sent)
      BY <1>1, <2>1, <2>2, SeqBounded DEF PageOK
    <2>4. QED BY <1>1, <2>1, <2>2, <2>3 DEF ReplayOK, PageOK, Array
  <1>4. QED BY <1>2, <1>3 DEF TypeOK, IInv, Types

\* A page shows one run as it was sent, whatever is sent while the history is
\* replayed to it, and has the whole of the present one before it or on its
\* socket once its handler is on the hub.
THEOREM PageTellsRunAlways == Spec => []PageTellsRun
  <1>1. IInv => PageTellsRun
    BY IInvTypeOK, IInvShowsBeginning, IInvLiveShowsAll DEF PageTellsRun
  <1>2. QED
    BY <1>1, IInvAlways, PTL
=============================================================================
