--------------------------- MODULE LiveLogProofs ---------------------------
(***************************************************************************)
(* Proofs about the logs in Redis and the views that show them, for any    *)
(* accounts, messages, past operations, lengths and bounds.                *)
(***************************************************************************)
EXTENDS LiveLog, FiniteSetTheorems, SequenceTheorems, TLAPS

-----------------------------------------------------------------------------
(***************************************************************************)
(* Sequences: what the ways to build one do to positions and elements.     *)
(***************************************************************************)
\* An element is put first (LPUSH, unshift).
LEMMA PutFirst ==
    ASSUME NEW S, NEW q \in Seq(S), NEW e \in S
    PROVE  /\ <<e>> \o q \in Seq(S) /\ Len(<<e>> \o q) = Len(q) + 1
           /\ DOMAIN (<<e>> \o q) = 1 .. (Len(q) + 1) /\ DOMAIN q = 1 .. Len(q) /\ Len(q) \in Nat
           /\ (<<e>> \o q)[1] = e
           /\ \A i \in DOMAIN (<<e>> \o q) : i # 1 => i - 1 \in DOMAIN q /\ (<<e>> \o q)[i] = q[i - 1]
           /\ \A i \in DOMAIN q : (<<e>> \o q)[i + 1] = q[i]
           /\ ToSet(<<e>> \o q) = {e} \cup ToSet(q)
<1>. DEFINE t == <<e>> \o q
<1>1. t \in Seq(S) /\ Len(t) = Len(q) + 1 /\ DOMAIN t = 1 .. Len(t) /\ DOMAIN q = 1 .. Len(q) /\ Len(q) \in Nat
  OBVIOUS
<1>2. t[1] = e
  OBVIOUS
<1>3. \A i \in DOMAIN q : t[i + 1] = q[i]
  OBVIOUS
<1>. HIDE DEF t
<1>4. \A i \in DOMAIN t : i # 1 => i - 1 \in DOMAIN q /\ t[i] = q[i - 1]
  <2>1. ASSUME NEW i \in DOMAIN t, i # 1 PROVE i - 1 \in DOMAIN q /\ t[i] = q[i - 1]
    <3>1. i - 1 \in DOMAIN q /\ (i - 1) + 1 = i
      BY <1>1, <2>1
    <3>2. t[(i - 1) + 1] = q[i - 1]
      BY <3>1, <1>3
    <3>. QED BY <3>1, <3>2, <2>1, <1>1
  <2>. QED BY <2>1
<1>5. ToSet(t) \subseteq {e} \cup ToSet(q)
  BY <1>2, <1>4 DEF ToSet
<1>6. {e} \cup ToSet(q) \subseteq ToSet(t)
  <2>1. 1 \in DOMAIN t /\ \A i \in DOMAIN q : i + 1 \in DOMAIN t
    BY <1>1
  <2>. QED BY <2>1, <1>2, <1>3 DEF ToSet
<1>. QED BY <1>1, <1>2, <1>3, <1>4, <1>5, <1>6 DEF t

\* An element is put last (the channel, the packets to a socket).
LEMMA PutLast ==
    ASSUME NEW S, NEW q \in Seq(S), NEW e \in S
    PROVE  /\ Append(q, e) \in Seq(S) /\ Len(Append(q, e)) = Len(q) + 1
           /\ DOMAIN Append(q, e) = 1 .. (Len(q) + 1) /\ DOMAIN q = 1 .. Len(q) /\ Len(q) \in Nat
           /\ Append(q, e)[Len(q) + 1] = e
           /\ \A i \in DOMAIN q : Append(q, e)[i] = q[i]
           /\ \A i \in DOMAIN Append(q, e) : i = Len(q) + 1 \/ i \in DOMAIN q
           /\ ToSet(Append(q, e)) = ToSet(q) \cup {e}
<1>. DEFINE t == Append(q, e)
<1>1. t \in Seq(S) /\ Len(t) = Len(q) + 1 /\ DOMAIN t = 1 .. Len(t) /\ DOMAIN q = 1 .. Len(q) /\ Len(q) \in Nat
  OBVIOUS
<1>2. t[Len(q) + 1] = e /\ \A i \in DOMAIN q : t[i] = q[i]
  OBVIOUS
<1>. HIDE DEF t
<1>3. \A i \in DOMAIN t : i = Len(q) + 1 \/ i \in DOMAIN q
  BY <1>1
<1>4. Len(q) + 1 \in DOMAIN t /\ \A i \in DOMAIN q : i \in DOMAIN t
  BY <1>1
<1>5. ToSet(t) = ToSet(q) \cup {e}
  BY <1>2, <1>3, <1>4 DEF ToSet
<1>. QED BY <1>1, <1>2, <1>3, <1>5 DEF t

\* The first element is taken.
LEMMA TakeFirst ==
    ASSUME NEW S, NEW q \in Seq(S), q # <<>>
    PROVE  /\ Head(q) \in S /\ Head(q) = q[1] /\ 1 \in DOMAIN q
           /\ Tail(q) \in Seq(S) /\ Len(Tail(q)) = Len(q) - 1
           /\ DOMAIN Tail(q) = 1 .. (Len(q) - 1) /\ DOMAIN q = 1 .. Len(q) /\ Len(q) \in Nat \ {0}
           /\ \A i \in DOMAIN Tail(q) : i + 1 \in DOMAIN q /\ Tail(q)[i] = q[i + 1]
           /\ \A i \in DOMAIN q : i # 1 => i - 1 \in DOMAIN Tail(q) /\ Tail(q)[i - 1] = q[i]
           /\ ToSet(q) = {Head(q)} \cup ToSet(Tail(q))
<1>1. /\ Head(q) \in S /\ Head(q) = q[1]
      /\ Tail(q) \in Seq(S) /\ Len(Tail(q)) = Len(q) - 1
      /\ DOMAIN Tail(q) = 1 .. (Len(q) - 1) /\ DOMAIN q = 1 .. Len(q) /\ Len(q) \in Nat \ {0}
  OBVIOUS
<1>2. 1 \in DOMAIN q
  BY <1>1
<1>3. \A i \in DOMAIN Tail(q) : i + 1 \in DOMAIN q /\ Tail(q)[i] = q[i + 1]
  BY <1>1
<1>4. \A i \in DOMAIN q : i # 1 => i - 1 \in DOMAIN Tail(q) /\ Tail(q)[i - 1] = q[i]
  <2>1. ASSUME NEW i \in DOMAIN q, i # 1 PROVE i - 1 \in DOMAIN Tail(q) /\ Tail(q)[i - 1] = q[i]
    <3>1. i - 1 \in DOMAIN Tail(q) /\ (i - 1) + 1 = i
      BY <1>1, <2>1
    <3>2. Tail(q)[i - 1] = q[(i - 1) + 1]
      BY <3>1, <1>3
    <3>. QED BY <3>1, <3>2, <2>1, <1>1
  <2>. QED BY <2>1
<1>5. ToSet(q) = {Head(q)} \cup ToSet(Tail(q))
  <2>. DEFINE t == Tail(q)
              e == Head(q)
  <2>1. \A i \in DOMAIN t : i + 1 \in DOMAIN q /\ t[i] = q[i + 1]
    BY <1>3
  <2>2. \A i \in DOMAIN q : q[i] # e => i - 1 \in DOMAIN t /\ t[i - 1] = q[i]
    BY <1>1, <1>4
  <2>3. e = q[1]
    BY <1>1
  <2>. HIDE DEF t, e
  <2>4. ToSet(q) = {e} \cup ToSet(t)
    BY <1>2, <2>1, <2>2, <2>3 DEF ToSet
  <2>. QED BY <2>4 DEF t, e
<1>. QED BY <1>1, <1>2, <1>3, <1>4, <1>5

\* A sequence is cut off (LTRIM, slice, pop).
LEMMA CutOff ==
    ASSUME NEW S, NEW q \in Seq(S), NEW n \in Nat, n <= Len(q)
    PROVE  /\ SubSeq(q, 1, n) \in Seq(S) /\ Len(SubSeq(q, 1, n)) = n
           /\ DOMAIN SubSeq(q, 1, n) = 1 .. n /\ DOMAIN q = 1 .. Len(q) /\ Len(q) \in Nat
           /\ \A i \in 1 .. n : i \in DOMAIN q /\ SubSeq(q, 1, n)[i] = q[i]
           /\ ToSet(SubSeq(q, 1, n)) \subseteq ToSet(q)
<1>1. /\ SubSeq(q, 1, n) \in Seq(S) /\ Len(SubSeq(q, 1, n)) = n
      /\ DOMAIN SubSeq(q, 1, n) = 1 .. n /\ DOMAIN q = 1 .. Len(q) /\ Len(q) \in Nat
  OBVIOUS
<1>2. \A i \in 1 .. n : i \in DOMAIN q /\ SubSeq(q, 1, n)[i] = q[i]
  OBVIOUS
<1>3. ToSet(SubSeq(q, 1, n)) \subseteq ToSet(q)
  BY <1>1, <1>2 DEF ToSet
<1>. QED BY <1>1, <1>2, <1>3

\* A prefix, position by position.
LEMMA PrefixByPlaces ==
    ASSUME NEW S, NEW q \in Seq(S), NEW t \in Seq(S)
    PROVE  IsPrefix(q, t) <=> Len(q) <= Len(t) /\ \A i \in DOMAIN q : q[i] = t[i]
<1>1. CASE Len(q) <= Len(t)
  <2>1. /\ SubSeq(q, 1, Len(q)) \in Seq(S) /\ Len(SubSeq(q, 1, Len(q))) = Len(q)
        /\ SubSeq(t, 1, Len(q)) \in Seq(S) /\ Len(SubSeq(t, 1, Len(q))) = Len(q)
        /\ DOMAIN q = 1 .. Len(q) /\ Len(q) \in Nat
    BY <1>1
  <2>2. /\ \A i \in DOMAIN q : SubSeq(q, 1, Len(q))[i] = q[i]
        /\ \A i \in DOMAIN q : SubSeq(t, 1, Len(q))[i] = t[i]
    BY <1>1
  <2>3. ASSUME \A i \in DOMAIN q : q[i] = t[i]
        PROVE  SubSeq(q, 1, Len(q)) = SubSeq(t, 1, Len(q))
    BY <2>1, <2>2, <2>3, SeqEqual
  <2>. QED BY <1>1, <2>2, <2>3 DEF IsPrefix
<1>. QED BY <1>1 DEF IsPrefix

\* The elements of a sequence are in the set it is made over, and finitely many.
LEMMA ElementsOf ==
    ASSUME NEW S, NEW q \in Seq(S)
    PROVE  ToSet(q) \subseteq S /\ IsFiniteSet(ToSet(q)) /\ (ToSet(q) = {} <=> q = <<>>)
<1>1. DOMAIN q = 1 .. Len(q) /\ Len(q) \in Nat /\ \A i \in DOMAIN q : q[i] \in S
  OBVIOUS
<1>2. IsFiniteSet(DOMAIN q)
  BY <1>1, FS_Interval
<1>3. IsFiniteSet(ToSet(q))
  <2>1. q \in Surjection(DOMAIN q, ToSet(q))
    BY <1>1 DEF Surjection, ToSet
  <2>. QED BY <1>2, <2>1, FS_Surjection
<1>4. ToSet(q) = {} <=> q = <<>>
  <2>1. q # <<>> => 1 \in DOMAIN q
    BY <1>1
  <2>. QED BY <2>1 DEF ToSet
<1>. QED BY <1>1, <1>3, <1>4 DEF ToSet

-----------------------------------------------------------------------------
(***************************************************************************)
(* Types.                                                                  *)
(***************************************************************************)
Cmd    == [command : {"lpush", "ltrim"}, list : Lists] \cup {Publish}
Task   == [msg : Messages, do : Cmd]
Socket == [room : Rooms, open : BOOLEAN, joined : BOOLEAN, inbox : Seq(Messages)]
Requests == [n : Int, for : Rooms, served : BOOLEAN, reply : Seq(Messages)]

LogTypeOK ==
    /\ lists \in [Lists -> Seq(Messages)] /\ said \in [Lists -> Seq(Messages)]
    /\ pipe \in [Services -> Seq(Seq(Task))]
    /\ emitted \in Nat
    /\ channel \in Seq(Messages)
    /\ sockets \in [Views -> Socket]
    /\ events \in Nat
    /\ \A s \in Services : \A i \in DOMAIN pipe[s] : pipe[s][i] # <<>>

ViewTypeOK ==
    /\ page \in [view : Views \cup {"other"}, account : Rooms]
    /\ log \in [entries : Seq(Messages), loading : BOOLEAN, error : BOOLEAN]
    /\ logRequests \in SUBSET Requests
    /\ messages \in Seq(Messages)
    /\ status \in [loading : BOOLEAN, connecting : BOOLEAN]
    /\ first \in [account : Rooms, mounted : BOOLEAN, set : BOOLEAN]
    /\ preload \in SUBSET Requests /\ \A q, r \in preload : q = r

\* A pipe after the reply to its first command.
Turned(q) == Tail(q) \o IF Tail(Head(q)) = <<>> THEN <<>> ELSE <<Tail(Head(q))>>

(* The next command of the first work is done, and what is left of it goes *)
(* to the end of the pipe.                                                 *)
LEMMA Turn ==
    ASSUME NEW q \in Seq(Seq(Task)), q # <<>>, q[1] # <<>>
    PROVE  /\ Turned(q) \in Seq(Seq(Task))
           /\ 1 \in DOMAIN q /\ DOMAIN q = 1 .. Len(q) /\ Len(q) \in Nat \ {0} /\ q[1] \in Seq(Task)
           /\ Head(q) = q[1]
           /\ \A i \in DOMAIN Turned(q) :
                /\ i \in Nat \ {0}
                /\ \/ i + 1 \in DOMAIN q /\ Turned(q)[i] = q[i + 1]
                   \/ i = Len(q) /\ Tail(q[1]) # <<>> /\ Turned(q)[i] = Tail(q[1])
           /\ \A i \in DOMAIN q : i # 1 => i - 1 \in DOMAIN Turned(q) /\ Turned(q)[i - 1] = q[i]
           /\ Tail(q[1]) # <<>> => Len(q) \in DOMAIN Turned(q) /\ Turned(q)[Len(q)] = Tail(q[1])
<1>. DEFINE t == Turned(q)
            h == Tail(q)
            w == Tail(q[1])
<1>1. /\ q[1] \in Seq(Task) /\ Head(q) = q[1] /\ 1 \in DOMAIN q
      /\ h \in Seq(Seq(Task)) /\ Len(h) = Len(q) - 1
      /\ DOMAIN h = 1 .. (Len(q) - 1) /\ DOMAIN q = 1 .. Len(q) /\ Len(q) \in Nat \ {0}
      /\ \A i \in DOMAIN h : i + 1 \in DOMAIN q /\ h[i] = q[i + 1]
      /\ \A i \in DOMAIN q : i # 1 => i - 1 \in DOMAIN h /\ h[i - 1] = q[i]
  BY TakeFirst
<1>2. w \in Seq(Task)
  BY <1>1, TakeFirst
<1>. HIDE DEF h, w, t
<1>3. CASE w = <<>>
  <2>1. t = h \o <<>>
    BY <1>1, <1>3 DEF h, w, t, Turned
  <2>2. t = h
    BY <1>1, <2>1, ConcatEmptySeq
  <2>3. \A i \in DOMAIN t : i \in Nat \ {0} /\ i + 1 \in DOMAIN q /\ t[i] = q[i + 1]
    <3>1. \A i \in DOMAIN h : i \in Nat \ {0}
      BY <1>1
    <3>. QED BY <1>1, <2>2, <3>1
  <2>. QED BY <1>1, <1>3, <2>2, <2>3 DEF w, t
<1>4. CASE w # <<>>
  <2>1. t = Append(h, w)
    BY <1>1, <1>2, <1>4 DEF h, w, t, Turned
  <2>2. /\ t \in Seq(Seq(Task))
        /\ t[Len(h) + 1] = w /\ Len(h) + 1 \in DOMAIN t
        /\ \A i \in DOMAIN h : i \in DOMAIN t /\ t[i] = h[i]
        /\ \A i \in DOMAIN t : i = Len(h) + 1 \/ i \in DOMAIN h
    BY <1>1, <1>2, <2>1, PutLast
  <2>3. Len(h) + 1 = Len(q)
    BY <1>1
  <2>4. \A i \in DOMAIN t : /\ i \in Nat \ {0}
                            /\ \/ i + 1 \in DOMAIN q /\ t[i] = q[i + 1]
                               \/ i = Len(q) /\ w # <<>> /\ t[i] = w
    <3>. SUFFICES ASSUME NEW i \in DOMAIN t
                  PROVE  /\ i \in Nat \ {0}
                         /\ \/ i + 1 \in DOMAIN q /\ t[i] = q[i + 1]
                            \/ i = Len(q) /\ w # <<>> /\ t[i] = w
      OBVIOUS
    <3>1. CASE i \in DOMAIN h
      <4>1. i \in Nat \ {0} /\ i + 1 \in DOMAIN q /\ h[i] = q[i + 1] /\ t[i] = h[i]
        <5>1. i \in Nat \ {0}
          BY <3>1, <1>1
        <5>. QED BY <3>1, <5>1, <1>1, <2>2
      <4>. QED BY <4>1
    <3>2. CASE i = Len(q)
      BY <3>2, <1>1, <1>4, <2>2, <2>3
    <3>. QED BY <3>1, <3>2, <2>2, <2>3
  <2>5. \A i \in DOMAIN q : i # 1 => i - 1 \in DOMAIN t /\ t[i - 1] = q[i]
    BY <1>1, <2>2
  <2>. QED BY <1>1, <2>2, <2>3, <2>4, <2>5 DEF w, t
<1>. QED BY <1>3, <1>4 DEF t

LEMMA CmdTypes ==
    /\ \A l \in Lists : Push(l) \in Cmd /\ Trim(l) \in Cmd
    /\ Publish \in Cmd
    /\ "general" \in Lists /\ "ops" \in Lists
BY DEF Push, Trim, Publish, Cmd, Lists

\* Two commands before others.
LEMMA PairBefore1 ==
    ASSUME NEW a \in Cmd, NEW b \in Cmd, NEW c \in Cmd
    PROVE  <<a, b>> \o <<c>> = <<a, b, c>>
<1>1. <<a, b>> \o <<c>> \in Seq(Cmd) /\ Len(<<a, b>> \o <<c>>) = 3
  OBVIOUS
<1>2. <<a, b, c>> \in Seq(Cmd) /\ Len(<<a, b, c>>) = 3
  OBVIOUS
<1>3. \A i \in 1 .. 3 : (<<a, b>> \o <<c>>)[i] = <<a, b, c>>[i]
  OBVIOUS
<1>. QED BY <1>1, <1>2, <1>3, SeqEqual

LEMMA PairBefore3 ==
    ASSUME NEW a \in Cmd, NEW b \in Cmd, NEW c \in Cmd, NEW d \in Cmd, NEW e \in Cmd
    PROVE  <<a, b>> \o <<c, d, e>> = <<a, b, c, d, e>>
<1>1. <<a, b>> \o <<c, d, e>> \in Seq(Cmd) /\ Len(<<a, b>> \o <<c, d, e>>) = 5
  OBVIOUS
<1>2. <<a, b, c, d, e>> \in Seq(Cmd) /\ Len(<<a, b, c, d, e>>) = 5
  OBVIOUS
<1>3. \A i \in 1 .. 5 : (<<a, b>> \o <<c, d, e>>)[i] = <<a, b, c, d, e>>[i]
  OBVIOUS
<1>. QED BY <1>1, <1>2, <1>3, SeqEqual

LEMMA PairBefore5 ==
    ASSUME NEW a \in Cmd, NEW b \in Cmd, NEW c \in Cmd, NEW d \in Cmd, NEW e \in Cmd,
           NEW f \in Cmd, NEW g \in Cmd
    PROVE  <<a, b>> \o <<c, d, e, f, g>> = <<a, b, c, d, e, f, g>>
<1>1. <<a, b>> \o <<c, d, e, f, g>> \in Seq(Cmd) /\ Len(<<a, b>> \o <<c, d, e, f, g>>) = 7
  OBVIOUS
<1>2. <<a, b, c, d, e, f, g>> \in Seq(Cmd) /\ Len(<<a, b, c, d, e, f, g>>) = 7
  OBVIOUS
<1>3. \A i \in 1 .. 7 : (<<a, b>> \o <<c, d, e, f, g>>)[i] = <<a, b, c, d, e, f, g>>[i]
  OBVIOUS
<1>. QED BY <1>1, <1>2, <1>3, SeqEqual

\* The commands of an emission, spelled out.
LEMMA CommandsOf ==
    ASSUME NEW m \in Messages, m.voter # None => m.delegator # None
    PROVE  Commands(m) =
             IF m.delegator = None THEN <<Push("general"), Trim("general"), Publish>>
             ELSE IF m.voter = None
             THEN <<Push(m.delegator), Trim(m.delegator), Push("general"), Trim("general"), Publish>>
             ELSE <<Push(m.delegator), Trim(m.delegator), Push("ops"), Trim("ops"),
                    Push("general"), Trim("general"), Publish>>
<1>. DEFINE G == <<Push("general"), Trim("general")>>
            A == IF m.delegator # None THEN PushTrim(m.delegator) ELSE <<>>
            B == IF m.voter # None THEN PushTrim("ops") ELSE <<>>
<1>1. /\ m.delegator # None => m.delegator \in Lists
      /\ A \in Seq(Cmd) /\ B \in Seq(Cmd) /\ G \in Seq(Cmd) /\ <<Publish>> \in Seq(Cmd)
  <2>1. m.delegator # None => m.delegator \in Lists
    BY DEF Messages, Rooms, Lists
  <2>. QED BY <2>1, CmdTypes DEF PushTrim
<1>2. Commands(m) = ((A \o B) \o G) \o <<Publish>>
  BY DEF Commands, PushTrim
<1>3. G \o <<Publish>> = <<Push("general"), Trim("general"), Publish>>
  <2>1. Push("general") \in Cmd /\ Trim("general") \in Cmd /\ Publish \in Cmd
    BY CmdTypes
  <2>. QED BY <2>1, PairBefore1
<1>4. Commands(m) = A \o (B \o (G \o <<Publish>>))
  <2>. HIDE DEF A, B, G
  <2>1. A \o B \in Seq(Cmd) /\ G \o <<Publish>> \in Seq(Cmd)
    BY <1>1, ConcatProperties
  <2>. QED BY <1>1, <1>2, <2>1, ConcatAssociative
<1>5. m.delegator = None => A = <<>> /\ B = <<>>
  OBVIOUS
<1>6. m.voter = None => B = <<>>
  OBVIOUS
<1>7. CASE m.delegator = None
  <2>1. Commands(m) = G \o <<Publish>>
    <3>. HIDE DEF G
    <3>1. G \o <<Publish>> \in Seq(Cmd)
      BY <1>1, ConcatProperties
    <3>. QED BY <1>4, <1>5, <1>7, <3>1, ConcatEmptySeq
  <2>. QED BY <2>1, <1>3, <1>7
<1>8. CASE m.delegator # None /\ m.voter = None
  <2>1. Commands(m) = A \o (G \o <<Publish>>)
    <3>. HIDE DEF G, A
    <3>1. G \o <<Publish>> \in Seq(Cmd)
      BY <1>1, ConcatProperties
    <3>. QED BY <1>4, <1>6, <1>8, <3>1, ConcatEmptySeq
  <2>2. A = <<Push(m.delegator), Trim(m.delegator)>>
    BY <1>8 DEF PushTrim
  <2>3. Push(m.delegator) \in Cmd /\ Trim(m.delegator) \in Cmd
    BY <1>1, <1>8, CmdTypes
  <2>4. <<Push(m.delegator), Trim(m.delegator)>> \o <<Push("general"), Trim("general"), Publish>>
          = <<Push(m.delegator), Trim(m.delegator), Push("general"), Trim("general"), Publish>>
    <3>1. Push("general") \in Cmd /\ Trim("general") \in Cmd /\ Publish \in Cmd
      BY CmdTypes
    <3>. QED BY <2>3, <3>1, PairBefore3
  <2>. QED BY <2>1, <2>2, <2>4, <1>3, <1>8
<1>9. CASE m.delegator # None /\ m.voter # None
  <2>1. A = <<Push(m.delegator), Trim(m.delegator)>> /\ B = <<Push("ops"), Trim("ops")>>
    BY <1>9 DEF PushTrim
  <2>2. Push(m.delegator) \in Cmd /\ Trim(m.delegator) \in Cmd
    BY <1>1, <1>9, CmdTypes
  <2>3. <<Push("ops"), Trim("ops")>> \o <<Push("general"), Trim("general"), Publish>>
          = <<Push("ops"), Trim("ops"), Push("general"), Trim("general"), Publish>>
    <3>1. /\ Push("general") \in Cmd /\ Trim("general") \in Cmd /\ Publish \in Cmd
          /\ Push("ops") \in Cmd /\ Trim("ops") \in Cmd
      BY CmdTypes
    <3>. QED BY <3>1, PairBefore3
  <2>4. <<Push(m.delegator), Trim(m.delegator)>>
            \o <<Push("ops"), Trim("ops"), Push("general"), Trim("general"), Publish>>
          = <<Push(m.delegator), Trim(m.delegator), Push("ops"), Trim("ops"),
              Push("general"), Trim("general"), Publish>>
    <3>1. /\ Push("general") \in Cmd /\ Trim("general") \in Cmd /\ Publish \in Cmd
          /\ Push("ops") \in Cmd /\ Trim("ops") \in Cmd
      BY CmdTypes
    <3>. QED BY <2>2, <3>1, PairBefore5
  <2>. QED BY <2>1, <2>3, <2>4, <1>3, <1>4, <1>9
<1>. QED BY <1>7, <1>8, <1>9

LEMMA WorkTypes ==
    ASSUME NEW m \in Messages, m.voter # None => m.delegator # None
    PROVE  Work(m, Commands(m)) \in Seq(Task)
<1>1. Commands(m) \in Seq(Cmd)
  <2>1. m.delegator # None => m.delegator \in Lists
    BY DEF Messages, Rooms, Lists
  <2>2. CASE m.delegator = None
    <3>1. Push("general") \in Cmd /\ Trim("general") \in Cmd /\ Publish \in Cmd
      BY CmdTypes
    <3>2. <<Push("general"), Trim("general"), Publish>> \in Seq(Cmd)
      BY <3>1
    <3>. QED BY <2>2, <3>2, CommandsOf
  <2>3. CASE m.delegator # None /\ m.voter = None
    <3>1. Push(m.delegator) \in Cmd /\ Trim(m.delegator) \in Cmd
      BY <2>1, <2>3, CmdTypes
    <3>2. <<Push(m.delegator), Trim(m.delegator), Push("general"), Trim("general"), Publish>> \in Seq(Cmd)
      BY <3>1, CmdTypes
    <3>. QED BY <2>3, <3>2, CommandsOf
  <2>4. CASE m.delegator # None /\ m.voter # None
    <3>1. Push(m.delegator) \in Cmd /\ Trim(m.delegator) \in Cmd
      BY <2>1, <2>4, CmdTypes
    <3>2. <<Push(m.delegator), Trim(m.delegator), Push("ops"), Trim("ops"),
            Push("general"), Trim("general"), Publish>> \in Seq(Cmd)
      BY <3>1, CmdTypes
    <3>. QED BY <2>4, <3>2, CommandsOf
  <2>. QED BY <2>2, <2>3, <2>4
<1>2. \A i \in DOMAIN Commands(m) : [msg |-> m, do |-> Commands(m)[i]] \in Task
  BY <1>1 DEF Task
<1>. QED BY <1>1, <1>2 DEF Work

\* The work of a preload: at 2k - 1 a push of an operation, at 2k the trim after it.
LEMMA PastWorkIs ==
    /\ PastWork \in Seq(Task) /\ Len(PastWork) = 2 * Len(Past) /\ Len(Past) \in Nat
    /\ \A i \in DOMAIN PastWork :
         /\ PastWork[i].msg = Past[Len(Past) - (i - 1) \div 2]
         /\ Len(Past) - (i - 1) \div 2 \in DOMAIN Past
         /\ PastWork[i].do = IF i % 2 = 1 THEN Push("ops") ELSE Trim("ops")
<1>1. Len(Past) \in Nat /\ DOMAIN Past = 1 .. Len(Past) /\ \A i \in DOMAIN Past : Past[i] \in Messages
  BY PastAssumption
<1>2. \A i \in 1 .. 2 * Len(Past) : Len(Past) - (i - 1) \div 2 \in DOMAIN Past
  BY <1>1
<1>3. \A i \in 1 .. 2 * Len(Past) :
        [msg |-> Past[Len(Past) - (i - 1) \div 2],
         do  |-> IF i % 2 = 1 THEN Push("ops") ELSE Trim("ops")] \in Task
  BY <1>1, <1>2, CmdTypes DEF Task
<1>4. 2 * Len(Past) \in Nat
  BY <1>1
<1>. DEFINE T(i) == [msg |-> Past[Len(Past) - (i - 1) \div 2],
                     do  |-> IF i % 2 = 1 THEN Push("ops") ELSE Trim("ops")]
<1>5. PastWork = [i \in 1 .. 2 * Len(Past) |-> T(i)]
  BY DEF PastWork
<1>6. \A i \in 1 .. 2 * Len(Past) : T(i) \in Task
  BY <1>3
<1>7. PastWork \in Seq(Task) /\ Len(PastWork) = 2 * Len(Past) /\ DOMAIN PastWork = 1 .. 2 * Len(Past)
  <2>. DEFINE n == 2 * Len(Past)
  <2>1. n \in Nat
    BY <1>4
  <2>. HIDE DEF T
  <2>2. PastWork \in [1 .. n -> Task]
    BY <1>5, <1>6
  <2>. HIDE DEF n
  <2>3. PastWork \in Seq(Task) /\ DOMAIN PastWork = 1 .. n
    BY <2>1, <2>2, SeqDef
  <2>4. Len(PastWork) \in Nat /\ DOMAIN PastWork = 1 .. Len(PastWork)
    BY <2>3, LenProperties
  <2>5. Len(PastWork) = n
    BY <2>1, <2>3, <2>4
  <2>. QED BY <2>3, <2>5 DEF n
<1>8. \A i \in DOMAIN PastWork : PastWork[i] = T(i)
  BY <1>5
<1>9. \A i \in DOMAIN PastWork :
        /\ PastWork[i].msg = Past[Len(Past) - (i - 1) \div 2]
        /\ PastWork[i].do = IF i % 2 = 1 THEN Push("ops") ELSE Trim("ops")
  BY <1>8
<1>10. \A i \in DOMAIN PastWork : Len(Past) - (i - 1) \div 2 \in DOMAIN Past
  BY <1>2, <1>7
<1>. HIDE DEF T
<1>. QED BY <1>1, <1>7, <1>9, <1>10

\* What a command does to lists and channel.
LEMMA ExecuteTypes ==
    ASSUME LogTypeOK, NEW w \in Task, Execute(w)
    PROVE  /\ lists' \in [Lists -> Seq(Messages)] /\ said' \in [Lists -> Seq(Messages)]
           /\ channel' \in Seq(Messages)
<1>1. w.msg \in Messages /\ w.do.list \in Lists
  BY DEF Task, Cmd, Publish, Lists
<1>2. \A l \in Lists : lists[l] \in Seq(Messages) /\ said[l] \in Seq(Messages)
  BY DEF LogTypeOK
<1>3. \A l \in Lists : <<w.msg>> \o lists[l] \in Seq(Messages) /\ <<w.msg>> \o said[l] \in Seq(Messages)
  BY <1>1, <1>2, PutFirst
<1>4. \A l \in Lists : (IF Len(lists[l]) > MaxHistory + 1 THEN SubSeq(lists[l], 1, MaxHistory + 1)
                        ELSE lists[l]) \in Seq(Messages)
  <2>. SUFFICES ASSUME NEW l \in Lists, Len(lists[l]) > MaxHistory + 1
                PROVE  SubSeq(lists[l], 1, MaxHistory + 1) \in Seq(Messages)
    BY <1>2
  <2>1. MaxHistory + 1 \in Nat /\ MaxHistory + 1 <= Len(lists[l])
    BY <1>2, LogBounds
  <2>. QED BY <1>2, <2>1, CutOff
<1>5. lists' \in [Lists -> Seq(Messages)]
  <2>1. CASE w.do.command = "lpush"
    BY <1>1, <1>2, <1>3, <2>1 DEF Execute, LogTypeOK
  <2>2. CASE w.do.command = "ltrim"
    BY <1>1, <1>2, <1>4, <2>2 DEF Execute, LogTypeOK
  <2>3. CASE w.do.command \notin {"lpush", "ltrim"}
    BY <2>3 DEF Execute, LogTypeOK
  <2>. QED BY <2>1, <2>2, <2>3
<1>6. said' \in [Lists -> Seq(Messages)]
  BY <1>1, <1>2, <1>3 DEF Execute, LogTypeOK
<1>7. channel' \in Seq(Messages)
  BY <1>1 DEF Execute, LogTypeOK
<1>. QED BY <1>5, <1>6, <1>7

\* The first command of a service that has work.
LEMMA FirstTask ==
    ASSUME LogTypeOK, NEW s \in Services, pipe[s] # <<>>
    PROVE  /\ pipe[s] \in Seq(Seq(Task)) /\ pipe[s][1] \in Seq(Task) /\ pipe[s][1] # <<>>
           /\ Head(pipe[s]) = pipe[s][1] /\ 1 \in DOMAIN pipe[s]
           /\ Head(Head(pipe[s])) = pipe[s][1][1] /\ pipe[s][1][1] \in Task
<1>1. pipe[s] \in Seq(Seq(Task)) /\ 1 \in DOMAIN pipe[s]
  <2>1. pipe[s] \in Seq(Seq(Task))
    BY DEF LogTypeOK
  <2>. QED BY <2>1, TakeFirst
<1>2. pipe[s][1] \in Seq(Task) /\ Head(pipe[s]) = pipe[s][1]
  BY <1>1, TakeFirst
<1>3. pipe[s][1] # <<>>
  BY <1>1 DEF LogTypeOK
<1>4. Head(pipe[s][1]) = pipe[s][1][1] /\ Head(pipe[s][1]) \in Task
  BY <1>2, <1>3, TakeFirst
<1>. QED BY <1>1, <1>2, <1>3, <1>4

\* What the pipe of a service is when it is started.
LEMMA PreloadTypes ==
    /\ Preload \in Seq(Seq(Task))
    /\ \A i \in DOMAIN Preload : i = 1 /\ Preload[i] = PastWork /\ PastWork # <<>>
<1>1. CASE lists["ops"] # <<>> \/ Past = <<>>
  BY <1>1 DEF Preload
<1>2. CASE ~(lists["ops"] # <<>> \/ Past = <<>>)
  <2>1. PastWork \in Seq(Task) /\ PastWork # <<>>
    <3>1. Len(Past) # 0
      BY <1>2, PastAssumption
    <3>. QED BY <3>1, PastWorkIs
  <2>2. Preload = <<PastWork>>
    BY <1>2 DEF Preload
  <2>. QED BY <2>1, <2>2
<1>. QED BY <1>1, <1>2

LEMMA SaysTypes ==
    ASSUME LogTypeOK, NEW s \in Services, NEW what \in Says[s]
    PROVE  LET m == Message(emitted + 1, what.delegator, what.voter) IN
           /\ m \in Messages
           /\ m.n = emitted + 1 /\ m.delegator = what.delegator /\ m.voter = what.voter
           /\ what.voter # None => s = "daemon" /\ what.delegator # None
<1>1. what \in [delegator : Rooms, voter : Rooms]
  BY SaysAssumption
<1>2. what.voter # None => s = "daemon" /\ what.delegator # None
  BY SaysAssumption
<1>3. emitted + 1 \in Int
  BY DEF LogTypeOK
<1>. QED BY <1>1, <1>2, <1>3 DEF Message, Messages

\* The steps of services and Redis.
LEMMA BackendTypes ==
    ASSUME LogTypeOK, LogNext
    PROVE  LogTypeOK'
<1>. USE DEF Services
<1>1. ASSUME NEW s \in Services, NEW what \in Says[s], Emit(s, what)
      PROVE  LogTypeOK'
  <2>. DEFINE m == Message(emitted + 1, what.delegator, what.voter)
              w == Work(m, Commands(m))
  <2>1. m \in Messages /\ (m.voter # None => m.delegator # None)
    BY <1>1, SaysTypes
  <2>2. w \in Seq(Task) /\ w # <<>>
    <3>1. w \in Seq(Task) /\ DOMAIN w = DOMAIN Commands(m)
      BY <2>1, WorkTypes DEF Work
    <3>2. 1 \in DOMAIN Commands(m)
      BY <2>1, CommandsOf
    <3>. QED BY <3>1, <3>2
  <2>3. pipe[s] \in Seq(Seq(Task)) /\ \A i \in DOMAIN pipe[s] : pipe[s][i] # <<>>
    BY DEF LogTypeOK
  <2>. HIDE DEF w
  <2>4. Append(pipe[s], w) \in Seq(Seq(Task)) /\ \A i \in DOMAIN Append(pipe[s], w) : Append(pipe[s], w)[i] # <<>>
    BY <2>2, <2>3, PutLast
  <2>5. pipe' = [pipe EXCEPT ![s] = Append(pipe[s], w)] /\ emitted' = emitted + 1
    BY <1>1 DEF Emit, w
  <2>6. pipe' \in [Services -> Seq(Seq(Task))]
    BY <2>4, <2>5 DEF LogTypeOK
  <2>7. \A u \in Services : \A i \in DOMAIN pipe'[u] : pipe'[u][i] # <<>>
    <3>. SUFFICES ASSUME NEW u \in Services PROVE \A i \in DOMAIN pipe'[u] : pipe'[u][i] # <<>>
      OBVIOUS
    <3>1. CASE u = s
      BY <3>1, <2>4, <2>5 DEF LogTypeOK
    <3>2. CASE u # s
      BY <3>2, <2>5 DEF LogTypeOK
    <3>. QED BY <3>1, <3>2
  <2>8. emitted' \in Nat /\ UNCHANGED <<lists, said, channel, sockets, events>>
    BY <1>1, <2>5 DEF Emit, LogTypeOK, redisVars
  <2>. QED BY <2>6, <2>7, <2>8 DEF LogTypeOK
<1>2. ASSUME NEW s \in Services, Reply(s)
      PROVE  LogTypeOK'
  <2>1. pipe[s] # <<>>
    BY <1>2 DEF Reply
  <2>2. Execute(pipe[s][1][1]) /\ pipe[s][1][1] \in Task
    BY <1>2, <2>1, FirstTask DEF Reply
  <2>3. /\ lists' \in [Lists -> Seq(Messages)] /\ said' \in [Lists -> Seq(Messages)]
        /\ channel' \in Seq(Messages)
    BY <2>2, ExecuteTypes
  <2>. DEFINE q == pipe[s]
              t == Turned(q)
  <2>4. q \in Seq(Seq(Task)) /\ q # <<>> /\ q[1] # <<>>
    BY <2>1, FirstTask
  <2>5. t \in Seq(Seq(Task)) /\ \A i \in DOMAIN t : t[i] # <<>>
    <3>1. \A i \in DOMAIN q : q[i] # <<>>
      BY DEF LogTypeOK
    <3>. HIDE DEF q
    <3>2. t \in Seq(Seq(Task))
      BY <2>4, Turn
    <3>3. \A i \in DOMAIN t : (i + 1 \in DOMAIN q /\ t[i] = q[i + 1]) \/ t[i] # <<>>
      BY <2>4, Turn
    <3>. QED BY <3>1, <3>2, <3>3
  <2>6. pipe' = [pipe EXCEPT ![s] = t]
    BY <1>2 DEF Reply, Turned
  <2>. HIDE DEF t
  <2>. QED BY <1>2, <2>3, <2>5, <2>6 DEF Reply, LogTypeOK, redisVars
<1>3. ASSUME NEW s \in Services, Resend(s)
      PROVE  LogTypeOK'
  <2>1. Execute(pipe[s][1][1]) /\ pipe[s][1][1] \in Task
    BY <1>3, FirstTask DEF Resend
  <2>2. /\ lists' \in [Lists -> Seq(Messages)] /\ said' \in [Lists -> Seq(Messages)]
        /\ channel' \in Seq(Messages)
    BY <2>1, ExecuteTypes
  <2>. QED BY <1>3, <2>2 DEF Resend, Event, LogTypeOK
<1>4. ASSUME NEW s \in Services, Rejected(s)
      PROVE  LogTypeOK'
  <2>1. <<>> \in Seq(Seq(Task)) /\ DOMAIN <<>> = {}
    OBVIOUS
  <2>. QED BY <1>4, <2>1 DEF Rejected, Event, LogTypeOK, redisVars
<1>5. ASSUME NEW s \in Services, Restart(s)
      PROVE  LogTypeOK'
  <2>. DEFINE t == IF s = "daemon" THEN Preload ELSE <<>>
  <2>1. t \in Seq(Seq(Task)) /\ \A i \in DOMAIN t : t[i] # <<>>
    BY PreloadTypes
  <2>2. pipe' = [pipe EXCEPT ![s] = t]
    BY <1>5 DEF Restart
  <2>. HIDE DEF t
  <2>. QED BY <1>5, <2>1, <2>2 DEF Restart, Event, LogTypeOK, redisVars
<1>6. CASE Dispatch
  <2>1. channel \in Seq(Messages) /\ channel # <<>> /\ Head(channel) \in Messages /\ Tail(channel) \in Seq(Messages)
    BY <1>6, TakeFirst DEF Dispatch, LogTypeOK
  <2>2. \A v \in Views : Append(sockets[v].inbox, Head(channel)) \in Seq(Messages)
    BY <2>1 DEF LogTypeOK, Socket
  <2>3. sockets' \in [Views -> Socket]
    BY <1>6, <2>2 DEF Dispatch, LogTypeOK, Socket
  <2>. QED BY <1>6, <2>1, <2>3 DEF Dispatch, LogTypeOK, redisVars
<1>7. CASE RealtimeRestart
  <2>1. <<>> \in Seq(Messages)
    OBVIOUS
  <2>2. \A v \in Views : [sockets[v] EXCEPT !.joined = FALSE, !.inbox = <<>>] \in Socket
    BY <2>1 DEF LogTypeOK, Socket
  <2>3. sockets' \in [Views -> Socket]
    BY <1>7, <2>2 DEF RealtimeRestart
  <2>4. events' \in Nat /\ channel' = <<>> /\ UNCHANGED <<lists, said, pipe, emitted>>
    <3>1. Event /\ channel' = <<>> /\ UNCHANGED <<redisVars, pipe, emitted>>
      BY <1>7 DEF RealtimeRestart
    <3>. QED BY <3>1 DEF LogTypeOK, redisVars, Event
  <2>5. channel' \in Seq(Messages)
    BY <2>1, <2>4
  <2>6. UNCHANGED <<lists, said, pipe, emitted>> /\ events' \in Nat
    BY <2>4
  <2>. QED BY <2>3, <2>5, <2>6 DEF LogTypeOK
<1>8. ASSUME NEW v \in Views, Join(v)
      PROVE  LogTypeOK'
  <2>1. sockets' \in [Views -> Socket]
    BY <1>8 DEF Join, LogTypeOK, Socket
  <2>. QED BY <1>8, <2>1 DEF Join, LogTypeOK, redisVars
<1>. QED BY <1>1, <1>2, <1>3, <1>4, <1>5, <1>6, <1>7, <1>8 DEF LogNext

\* The steps of the browser leave Redis and the services alone, and races are never forgotten.
LEMMA Steps ==
    ASSUME [Next]_vars
    PROVE  /\ LogNext \/ UNCHANGED <<lists, said, pipe, emitted, channel>>
           /\ slips \subseteq slips'
<1>1. CASE Backend
  <2>1. LogNext
    BY <1>1 DEF Backend
  <2>2. slips \subseteq slips'
    BY <2>1 DEF LogNext, Emit, Reply, Resend, Rejected, Restart, Dispatch, RealtimeRestart, Join
  <2>. QED BY <2>1, <2>2
<1>2. ASSUME NEW p \in Pages, Open(p)
      PROVE  UNCHANGED <<lists, said, pipe, emitted, channel>> /\ slips \subseteq slips'
  BY <1>2 DEF Open, Slip, redisVars
<1>3. ASSUME NEW r, ServeLog(r) \/ LogAnswer(r)
      PROVE  UNCHANGED <<lists, said, pipe, emitted, channel>> /\ slips \subseteq slips'
  BY <1>3 DEF ServeLog, LogAnswer, Slip, redisVars, logVars
<1>4. ASSUME NEW r, ServePreload(r) \/ PreloadAnswer(r)
      PROVE  UNCHANGED <<lists, said, pipe, emitted, channel>> /\ slips \subseteq slips'
  BY <1>4 DEF ServePreload, PreloadAnswer, Slip, redisVars, logVars
<1>5. ASSUME NEW r, RequestFails(r)
      PROVE  UNCHANGED <<lists, said, pipe, emitted, channel>> /\ slips \subseteq slips'
  BY <1>5 DEF RequestFails, redisVars
<1>6. CASE LogMessage \/ HistoryMessage
  BY <1>6 DEF LogMessage, HistoryMessage, Slip, redisVars
<1>7. CASE UNCHANGED vars
  BY <1>7 DEF vars, logVars, redisVars
<1>. QED BY <1>1, <1>2, <1>3, <1>4, <1>5, <1>6, <1>7 DEF Next

LEMMA SocketTypes ==
    /\ NoSocket \in Socket /\ ~NoSocket.open /\ ~NoSocket.joined /\ NoSocket.inbox = <<>>
    /\ \A a \in Rooms : /\ NewSocket(a) \in Socket
                       /\ NewSocket(a).room = a /\ NewSocket(a).open /\ ~NewSocket(a).joined
                       /\ NewSocket(a).inbox = <<>>
<1>1. NoSocket \in Socket
  BY DEF NoSocket, Socket, Rooms
<1>2. ~NoSocket.open /\ ~NoSocket.joined /\ NoSocket.inbox = <<>>
  BY DEF NoSocket
<1>3. ASSUME NEW a \in Rooms
      PROVE  /\ NewSocket(a) \in Socket
             /\ NewSocket(a).room = a /\ NewSocket(a).open /\ ~NewSocket(a).joined
             /\ NewSocket(a).inbox = <<>>
  <2>1. NewSocket(a) \in Socket
    <3>1. NewSocket(a) = [NoSocket EXCEPT !.room = a, !.open = TRUE]
      BY DEF NewSocket
    <3>. QED BY <1>1, <3>1 DEF Socket
  <2>2. NewSocket(a).room = a /\ NewSocket(a).open /\ ~NewSocket(a).joined
    BY DEF NewSocket, NoSocket
  <2>3. NewSocket(a).inbox = <<>>
    BY DEF NewSocket, NoSocket
  <2>. QED BY <2>1, <2>2, <2>3
<1>. QED BY <1>1, <1>2, <1>3

LEMMA PageTypes ==
    \A p \in Pages : p.view \in Views /\ p.account \in Rooms /\ p = Page(p.view, p.account)
BY DEF Pages, Page

LEMMA NextLogTypeOK == LogTypeOK /\ [Next]_vars => LogTypeOK'
<1>. SUFFICES ASSUME LogTypeOK, [Next]_vars PROVE LogTypeOK'
  OBVIOUS
<1>1. CASE LogNext
  BY <1>1, BackendTypes
<1>2. ASSUME UNCHANGED <<lists, said, pipe, emitted, channel>>, events' \in Nat, sockets' \in [Views -> Socket]
      PROVE  LogTypeOK'
  BY <1>2 DEF LogTypeOK
<1>3. events \in Nat /\ sockets \in [Views -> Socket] /\ events + 1 \in Nat
  BY DEF LogTypeOK
<1>4. ASSUME NEW p \in Pages, Open(p) PROVE events' \in Nat /\ sockets' \in [Views -> Socket]
  <2>1. events' = events + 1
    BY <1>4 DEF Open, Event
  <2>2. NoSocket \in Socket /\ NewSocket(p.account) \in Socket /\ NewSocket(None) \in Socket
    <3>1. p.account \in Rooms /\ None \in Rooms
      BY PageTypes DEF Rooms
    <3>. QED BY <3>1, SocketTypes
  <2>3. CASE sockets' = [sockets EXCEPT !["log"] = LogSocket(p.account)]
    <3>1. sockets' = [sockets EXCEPT !["log"] = NewSocket(p.account)]
      BY <2>3 DEF LogSocket
    <3>. QED BY <2>1, <2>2, <3>1, <1>3
  <2>4. CASE sockets' = [sockets EXCEPT !["log"] = NoSocket,
                                       !["history"] = IF first.set THEN @ ELSE NewSocket(None)]
    BY <2>1, <2>2, <2>4, <1>3 DEF Views
  <2>5. \/ sockets' = [sockets EXCEPT !["log"] = LogSocket(p.account)]
        \/ sockets' = [sockets EXCEPT !["log"] = NoSocket,
                                      !["history"] = IF first.set THEN @ ELSE NewSocket(None)]
    BY <1>4 DEF Open
  <2>. QED BY <1>3, <2>1, <2>3, <2>4, <2>5
<1>5. ASSUME NEW r, \/ ServeLog(r) \/ LogAnswer(r) \/ ServePreload(r) \/ PreloadAnswer(r)
      PROVE  events' \in Nat /\ sockets' \in [Views -> Socket]
  BY <1>3, <1>5 DEF ServeLog, LogAnswer, ServePreload, PreloadAnswer, logVars
<1>6. ASSUME NEW r, RequestFails(r)
      PROVE  events' \in Nat /\ sockets' \in [Views -> Socket]
  BY <1>3, <1>6 DEF RequestFails, Event
<1>7. ASSUME NEW v \in Views, sockets[v].inbox # <<>>, events' = events,
             sockets' = [sockets EXCEPT ![v].inbox = Tail(@)]
      PROVE  events' \in Nat /\ sockets' \in [Views -> Socket]
  <2>1. Tail(sockets[v].inbox) \in Seq(Messages)
    BY <1>3, <1>7, TakeFirst DEF Socket
  <2>2. [sockets[v] EXCEPT !.inbox = Tail(sockets[v].inbox)] \in Socket
    BY <1>3, <2>1 DEF Socket
  <2>3. sockets' = [sockets EXCEPT ![v] = [sockets[v] EXCEPT !.inbox = Tail(sockets[v].inbox)]]
    BY <1>3, <1>7 DEF Socket
  <2>. QED BY <1>3, <1>7, <2>2, <2>3
<1>8. ASSUME LogMessage PROVE events' \in Nat /\ sockets' \in [Views -> Socket]
  <2>1. /\ sockets["log"].inbox # <<>> /\ events' = events
        /\ sockets' = [sockets EXCEPT !["log"].inbox = Tail(@)]
    BY <1>8 DEF LogMessage
  <2>2. "log" \in Views
    BY DEF Views
  <2>. QED BY <1>7, <2>1, <2>2
<1>10. ASSUME HistoryMessage PROVE events' \in Nat /\ sockets' \in [Views -> Socket]
  <2>1. /\ sockets["history"].inbox # <<>> /\ events' = events
        /\ sockets' = [sockets EXCEPT !["history"].inbox = Tail(@)]
    BY <1>10 DEF HistoryMessage
  <2>2. "history" \in Views
    BY DEF Views
  <2>. QED BY <1>7, <2>1, <2>2
<1>9. ASSUME UNCHANGED vars PROVE events' \in Nat /\ sockets' \in [Views -> Socket]
  BY <1>3, <1>9 DEF vars, logVars
<1>11. CASE Next
  BY <1>1, <1>2, <1>4, <1>5, <1>6, <1>8, <1>10, <1>11, Steps DEF Next, Backend
<1>. QED BY <1>2, <1>9, <1>11, Steps DEF vars, logVars, redisVars

LEMMA InitLogTypeOK == Init => LogTypeOK
<1>. SUFFICES ASSUME Init PROVE LogTypeOK
  OBVIOUS
<1>1. lists = [l \in Lists |-> <<>>] /\ said = lists /\ emitted = 0 /\ channel = <<>> /\ events = 0
  BY DEF Init, LogInit
<1>2. <<>> \in Seq(Messages) /\ <<>> \in Seq(Seq(Task)) /\ DOMAIN <<>> = {}
  OBVIOUS
<1>3. pipe = [s \in Services |-> IF s = "daemon" THEN Preload ELSE <<>>]
  BY DEF Init, LogInit
<1>4. pipe \in [Services -> Seq(Seq(Task))] /\ \A s \in Services : \A i \in DOMAIN pipe[s] : pipe[s][i] # <<>>
  BY <1>2, <1>3, PreloadTypes
<1>5. sockets \in [Views -> Socket]
  BY <1>2 DEF Init, LogInit, NoSocket, Socket, Rooms
<1>. QED BY <1>1, <1>2, <1>4, <1>5 DEF LogTypeOK

-----------------------------------------------------------------------------
(***************************************************************************)
(* The shape of the work of a service.  A push is followed by its trim; an *)
(* emission ends with the publication, an operation is pushed four         *)
(* commands before; a preload pushes the past in order.                    *)
(***************************************************************************)
Num(w) == w[1].msg.n

PushesThenTrims(w) ==
    \A k \in DOMAIN w : \A l \in Lists :
        w[k].do = Push(l) => k + 1 \in DOMAIN w /\ w[k + 1].msg = w[k].msg /\ w[k + 1].do = Trim(l)

EmissionOK(s, w) ==
    /\ \A k \in DOMAIN w : w[k].msg = w[1].msg
    /\ \A k \in DOMAIN w : w[k].do = Publish <=> k = Len(w)
    /\ \A j, k \in DOMAIN w : j < k => w[j].do # w[k].do
    /\ \A k \in DOMAIN w : w[k].do = Push("ops") => k = Len(w) - 4 /\ w[1].msg.voter # None
    /\ \A k \in DOMAIN w : \A a \in Accounts : w[k].do = Push(a) => w[1].msg.delegator = a
    /\ w[1].msg.voter # None => s = "daemon" /\ Len(w) <= 7 /\ w[1].msg.delegator # None

PastOK(s, w) ==
    /\ s = "daemon"
    /\ \A k \in DOMAIN w : w[k].msg \in ToSet(Past) /\ w[k].do \in {Push("ops"), Trim("ops")}
    /\ \A j, k \in DOMAIN w :
          j < k /\ w[j].do = Push("ops") /\ w[k].do = Push("ops") => w[j].msg.n < w[k].msg.n

WorkOK(s, w) ==
    /\ PushesThenTrims(w)
    /\ Num(w) > 0 => EmissionOK(s, w)
    /\ Num(w) <= 0 => PastOK(s, w)

LEMMA CmdsDiffer ==
    ASSUME NEW l \in Lists, NEW k \in Lists
    PROVE  /\ Push(l) # Trim(k) /\ Push(l) # Publish /\ Trim(l) # Publish
           /\ (Push(l) = Push(k) \/ Trim(l) = Trim(k)) => l = k
BY DEF Push, Trim, Publish

\* What an emission is to do.
LEMMA EmissionShape ==
    ASSUME NEW m \in Messages, m.n > 0, NEW s \in Services,
           m.voter # None => s = "daemon" /\ m.delegator # None
    PROVE  LET w == Work(m, Commands(m)) IN
           /\ w \in Seq(Task) /\ w # <<>> /\ WorkOK(s, w)
           /\ \A k \in DOMAIN w : w[k].msg = m
           /\ w[1].msg = m
           /\ m.voter # None => Len(w) = 7
<1>. DEFINE c == Commands(m)
            w == Work(m, c)
<1>1. w \in Seq(Task)
  BY WorkTypes
<1>2. DOMAIN w = DOMAIN c /\ \A k \in DOMAIN c : w[k].msg = m /\ w[k].do = c[k]
  BY DEF Work
<1>3. m.delegator # None => m.delegator \in Lists /\ m.delegator # "ops" /\ m.delegator # "general"
  BY AccountsAssumption DEF Messages, Rooms, Lists
<1>4. "ops" \in Lists /\ "general" \in Lists /\ \A a \in Accounts : a \in Lists /\ a # "ops" /\ a # "general"
  BY AccountsAssumption DEF Lists
<1>. HIDE DEF w
<1>5. w[1].msg = m /\ Num(w) > 0
  <2>1. 1 \in DOMAIN c
    BY CommandsOf
  <2>. QED BY <1>2, <2>1 DEF Num
<1>6. ASSUME PushesThenTrims(w), EmissionOK(s, w), w # <<>>, m.voter # None => Len(w) = 7
      PROVE  /\ w \in Seq(Task) /\ w # <<>> /\ WorkOK(s, w)
             /\ \A k \in DOMAIN w : w[k].msg = m
             /\ w[1].msg = m
             /\ m.voter # None => Len(w) = 7
  <2>1. Num(w) = m.n /\ m.n \in Int
    BY <1>5 DEF Num, Messages
  <2>. QED BY <1>1, <1>2, <1>5, <1>6, <2>1 DEF WorkOK
<1>7. ASSUME m.delegator = None
      PROVE  PushesThenTrims(w) /\ EmissionOK(s, w) /\ w # <<>> /\ Len(w) = 3
  <2>1. c = <<Push("general"), Trim("general"), Publish>>
    BY <1>7, CommandsOf
  <2>2. /\ DOMAIN c = 1 .. 3
        /\ c[1] = Push("general")
        /\ c[2] = Trim("general")
        /\ c[3] = Publish
    BY <2>1
  <2>. HIDE DEF c
  <2>3. Len(w) = 3 /\ DOMAIN w = 1 .. 3 /\ w # <<>>
    <3>1. DOMAIN w = 1 .. 3 /\ DOMAIN w = 1 .. Len(w) /\ Len(w) \in Nat
      BY <1>1, <1>2, <2>2, LenProperties
    <3>. QED BY <3>1
  <2>5. PushesThenTrims(w)
    <3>1. \A k \in 1 .. 3, l \in Lists : c[k] = Push(l) => k + 1 \in 1 .. 3 /\ c[k + 1] = Trim(l)
      BY <1>4, <2>2, CmdsDiffer
    <3>. QED BY <1>2, <2>2, <2>3, <3>1 DEF PushesThenTrims
  <2>6. EmissionOK(s, w)
    <3>1. \A j, k \in 1 .. 3 : j < k => c[j] # c[k]
      BY <1>4, <2>2, CmdsDiffer
    <3>2. \A k \in 1 .. 3 : c[k] = Publish <=> k = 3
      BY <1>4, <2>2, CmdsDiffer
    <3>3. \A k \in 1 .. 3 : c[k] # Push("ops")
      BY <1>4, <2>2, CmdsDiffer
    <3>4. \A k \in 1 .. 3 : \A a \in Accounts : c[k] # Push(a)
      BY <1>4, <2>2, CmdsDiffer
    <3>. QED BY <1>2, <1>5, <1>7, <2>3, <3>1, <3>2, <3>3, <3>4 DEF EmissionOK
  <2>. QED BY <2>3, <2>5, <2>6
<1>8. ASSUME m.delegator # None, m.voter = None
      PROVE  PushesThenTrims(w) /\ EmissionOK(s, w) /\ w # <<>> /\ Len(w) = 5
  <2>1. c = <<Push(m.delegator), Trim(m.delegator), Push("general"), Trim("general"), Publish>>
    BY <1>8, CommandsOf
  <2>2. /\ DOMAIN c = 1 .. 5
        /\ c[1] = Push(m.delegator)
        /\ c[2] = Trim(m.delegator)
        /\ c[3] = Push("general")
        /\ c[4] = Trim("general")
        /\ c[5] = Publish
    BY <2>1
  <2>. HIDE DEF c
  <2>3. Len(w) = 5 /\ DOMAIN w = 1 .. 5 /\ w # <<>>
    <3>1. DOMAIN w = 1 .. 5 /\ DOMAIN w = 1 .. Len(w) /\ Len(w) \in Nat
      BY <1>1, <1>2, <2>2, LenProperties
    <3>. QED BY <3>1
  <2>4. m.delegator \in Lists /\ m.delegator # "ops" /\ m.delegator # "general"
    BY <1>8, <1>3
  <2>5. PushesThenTrims(w)
    <3>1. \A k \in 1 .. 5, l \in Lists : c[k] = Push(l) => k + 1 \in 1 .. 5 /\ c[k + 1] = Trim(l)
      BY <1>4, <2>2, <2>4, CmdsDiffer
    <3>. QED BY <1>2, <2>2, <2>3, <3>1 DEF PushesThenTrims
  <2>6. EmissionOK(s, w)
    <3>1. \A j, k \in 1 .. 5 : j < k => c[j] # c[k]
      BY <1>4, <2>2, <2>4, CmdsDiffer
    <3>2. \A k \in 1 .. 5 : c[k] = Publish <=> k = 5
      BY <1>4, <2>2, <2>4, CmdsDiffer
    <3>3. \A k \in 1 .. 5 : c[k] # Push("ops")
      BY <1>4, <2>2, <2>4, CmdsDiffer
    <3>4. \A k \in 1 .. 5 : \A a \in Accounts : c[k] = Push(a) => m.delegator = a
      BY <1>4, <2>2, <2>4, CmdsDiffer
    <3>. QED BY <1>2, <1>5, <1>8, <2>3, <3>1, <3>2, <3>3, <3>4 DEF EmissionOK
  <2>. QED BY <2>3, <2>5, <2>6
<1>9. ASSUME m.delegator # None, m.voter # None
      PROVE  PushesThenTrims(w) /\ EmissionOK(s, w) /\ w # <<>> /\ Len(w) = 7
  <2>1. c = <<Push(m.delegator), Trim(m.delegator), Push("ops"), Trim("ops"), Push("general"), Trim("general"), Publish>>
    BY <1>9, CommandsOf
  <2>2. /\ DOMAIN c = 1 .. 7
        /\ c[1] = Push(m.delegator)
        /\ c[2] = Trim(m.delegator)
        /\ c[3] = Push("ops")
        /\ c[4] = Trim("ops")
        /\ c[5] = Push("general")
        /\ c[6] = Trim("general")
        /\ c[7] = Publish
    BY <2>1
  <2>. HIDE DEF c
  <2>3. Len(w) = 7 /\ DOMAIN w = 1 .. 7 /\ w # <<>>
    <3>1. DOMAIN w = 1 .. 7 /\ DOMAIN w = 1 .. Len(w) /\ Len(w) \in Nat
      BY <1>1, <1>2, <2>2, LenProperties
    <3>. QED BY <3>1
  <2>4. m.delegator \in Lists /\ m.delegator # "ops" /\ m.delegator # "general"
    BY <1>9, <1>3
  <2>5. PushesThenTrims(w)
    <3>1. \A k \in 1 .. 7, l \in Lists : c[k] = Push(l) => k + 1 \in 1 .. 7 /\ c[k + 1] = Trim(l)
      BY <1>4, <2>2, <2>4, CmdsDiffer
    <3>. QED BY <1>2, <2>2, <2>3, <3>1 DEF PushesThenTrims
  <2>6. EmissionOK(s, w)
    <3>1. \A j, k \in 1 .. 7 : j < k => c[j] # c[k]
      BY <1>4, <2>2, <2>4, CmdsDiffer
    <3>2. \A k \in 1 .. 7 : c[k] = Publish <=> k = 7
      BY <1>4, <2>2, <2>4, CmdsDiffer
    <3>3. \A k \in 1 .. 7 : c[k] = Push("ops") => k = 3
      BY <1>4, <2>2, <2>4, CmdsDiffer
    <3>4. \A k \in 1 .. 7 : \A a \in Accounts : c[k] = Push(a) => m.delegator = a
      BY <1>4, <2>2, <2>4, CmdsDiffer
    <3>. QED BY <1>2, <1>5, <1>9, <2>3, <3>1, <3>2, <3>3, <3>4 DEF EmissionOK
  <2>. QED BY <2>3, <2>5, <2>6
<1>. QED BY <1>6, <1>7, <1>8, <1>9 DEF w, c

\* What a preload is to do.
LEMMA PastWorkShape ==
    ASSUME Past # <<>>
    PROVE  /\ PastWork \in Seq(Task) /\ PastWork # <<>> /\ WorkOK("daemon", PastWork)
           /\ Num(PastWork) <= 0 /\ Num(PastWork) \in Int
<1>. DEFINE w == PastWork
            at(k) == Len(Past) - (k - 1) \div 2
<1>1. w \in Seq(Task) /\ Len(w) = 2 * Len(Past) /\ Len(Past) \in Nat \ {0}
      /\ \A k \in DOMAIN w : /\ w[k].msg = Past[at(k)] /\ at(k) \in DOMAIN Past
                             /\ w[k].do = IF k % 2 = 1 THEN Push("ops") ELSE Trim("ops")
  BY PastWorkIs, PastAssumption
<1>2. DOMAIN w = 1 .. 2 * Len(Past)
  BY <1>1, LenProperties
<1>. HIDE DEF w
<1>3. "ops" \in Lists
  BY DEF Lists
<1>4. \A k \in DOMAIN w : w[k].do = Push("ops") <=> k % 2 = 1
  BY <1>1, <1>3, CmdsDiffer
<1>5. \A k \in DOMAIN w, l \in Lists : w[k].do = Push(l) => l = "ops"
  BY <1>1, <1>3, CmdsDiffer
<1>6. PushesThenTrims(w)
  <2>. SUFFICES ASSUME NEW k \in DOMAIN w, k % 2 = 1
                PROVE  k + 1 \in DOMAIN w /\ w[k + 1].msg = w[k].msg /\ w[k + 1].do = Trim("ops")
    BY <1>4, <1>5 DEF PushesThenTrims
  <2>1. k + 1 \in DOMAIN w /\ (k + 1) % 2 # 1 /\ at(k + 1) = at(k)
    <3>. DEFINE n == Len(Past)
                j == (k - 1) \div 2
    <3>1. n \in Nat /\ k \in 1 .. 2 * n
      BY <1>1, <1>2
    <3>. HIDE DEF n
    <3>2. j \in Nat /\ k = 2 * j + 1
      BY <3>1
    <3>. HIDE DEF j
    <3>3. k + 1 \in 1 .. 2 * n
      BY <3>1, <3>2
    <3>4. (k + 1) % 2 = 0
      BY <3>2
    <3>5. ((k + 1) - 1) \div 2 = j
      BY <3>2
    <3>. QED BY <1>2, <3>3, <3>4, <3>5 DEF n, j
  <2>. HIDE DEF at
  <2>. QED BY <1>1, <2>1
<1>7. \A k \in DOMAIN w : w[k].msg \in ToSet(Past) /\ w[k].do \in {Push("ops"), Trim("ops")} /\ w[k].msg.n <= 0
  <2>. HIDE DEF at
  <2>. QED BY <1>1, PastAssumption DEF ToSet
<1>8. ASSUME NEW j \in DOMAIN w, NEW k \in DOMAIN w, j < k, w[j].do = Push("ops"), w[k].do = Push("ops")
      PROVE  w[j].msg.n < w[k].msg.n
  <2>1. j % 2 = 1 /\ k % 2 = 1
    BY <1>4, <1>8
  <2>2. at(k) < at(j)
    <3>1. j \in Nat /\ k \in Nat /\ Len(Past) \in Nat
      BY <1>1, <1>2
    <3>. HIDE DEF at
    <3>2. j + 2 <= k
      BY <3>1, <2>1, <1>8
    <3>3. (j - 1) \div 2 < (k - 1) \div 2
      BY <3>1, <3>2
    <3>4. (j - 1) \div 2 \in Int /\ (k - 1) \div 2 \in Int
      BY <3>1
    <3>. QED BY <3>1, <3>3, <3>4 DEF at
  <2>3. at(k) \in DOMAIN Past /\ at(j) \in DOMAIN Past /\ w[k].msg = Past[at(k)] /\ w[j].msg = Past[at(j)]
    BY <1>1
  <2>. HIDE DEF at
  <2>4. Past[at(k)].n > Past[at(j)].n
    <3>1. \A x, y \in DOMAIN Past : x < y => Past[x].n > Past[y].n
      BY PastAssumption
    <3>2. at(k) \in DOMAIN Past /\ at(j) \in DOMAIN Past
      BY <2>3
    <3>. QED BY <3>1, <3>2, <2>2
  <2>5. Past[at(k)].n \in Int /\ Past[at(j)].n \in Int
    <3>1. \A x \in DOMAIN Past : Past[x].n \in Int
      <4>1. \A x \in DOMAIN Past : Past[x] \in Messages
        BY PastAssumption, ElementsOf DEF ToSet
      <4>. QED BY <4>1 DEF Messages
    <3>. QED BY <3>1, <2>3
  <2>6. \A x, y \in Int : x > y => y < x
    OBVIOUS
  <2>7. Past[at(j)].n < Past[at(k)].n
    BY <2>4, <2>5, <2>6
  <2>. QED BY <2>3, <2>7
<1>9. 1 \in DOMAIN w /\ w # <<>>
  BY <1>1, <1>2
<1>10. Num(w) <= 0 /\ Num(w) \in Int
  <2>1. w[1] \in Task
    BY <1>1, <1>9, LenProperties
  <2>2. w[1].msg.n \in Int
    BY <2>1 DEF Task, Messages
  <2>. QED BY <1>7, <1>9, <2>2 DEF Num
<1>11. PastOK("daemon", w)
  BY <1>7, <1>8 DEF PastOK
<1>. QED BY <1>1, <1>6, <1>9, <1>10, <1>11 DEF WorkOK, w

\* What is left of a work after a command.
LEMMA WorkGoesOn ==
    ASSUME NEW s \in Services, NEW w \in Seq(Task), w # <<>>, WorkOK(s, w)
    PROVE  /\ Num(w) \in Int
           /\ \A k \in DOMAIN w : w[k] \in Task /\ w[k].msg.n \in Int
           /\ \A k \in DOMAIN Tail(w) : k + 1 \in DOMAIN w /\ Tail(w)[k] = w[k + 1]
           /\ Len(Tail(w)) = Len(w) - 1 /\ Len(w) \in Nat \ {0}
           /\ Tail(w) # <<>> =>
                /\ WorkOK(s, Tail(w))
                /\ Num(Tail(w)) > 0 <=> Num(w) > 0
                /\ Num(w) > 0 => Tail(w)[1].msg = w[1].msg
                /\ Tail(w)[1].msg.voter # None <=> w[1].msg.voter # None
<1>. DEFINE r == Tail(w)
<1>1. /\ r \in Seq(Task) /\ Len(r) = Len(w) - 1 /\ DOMAIN r = 1 .. Len(w) - 1
      /\ Len(w) \in Nat \ {0} /\ DOMAIN w = 1 .. Len(w) /\ 1 \in DOMAIN w
      /\ \A k \in DOMAIN r : k + 1 \in DOMAIN w /\ r[k] = w[k + 1]
  BY TakeFirst
<1>2. \A k \in DOMAIN w : w[k] \in Task /\ w[k].msg.n \in Int
  <2>1. \A k \in DOMAIN w : w[k] \in Task
    BY <1>1, ElementsOf DEF ToSet
  <2>2. \A t \in Task : t.msg.n \in Int
    BY DEF Task, Messages
  <2>. QED BY <2>1, <2>2
<1>3. ASSUME r # <<>>
      PROVE  /\ WorkOK(s, r)
             /\ Num(r) > 0 <=> Num(w) > 0
             /\ Num(w) > 0 => r[1].msg = w[1].msg
             /\ r[1].msg.voter # None <=> w[1].msg.voter # None
  <2>. HIDE DEF r
  <2>1. 1 \in DOMAIN r /\ r[1] = w[2] /\ 2 \in DOMAIN w
    BY <1>1, <1>3
  <2>2. PushesThenTrims(r)
    <3>. SUFFICES ASSUME NEW k \in DOMAIN r, NEW l \in Lists, r[k].do = Push(l)
                  PROVE  k + 1 \in DOMAIN r /\ r[k + 1].msg = r[k].msg /\ r[k + 1].do = Trim(l)
      BY DEF PushesThenTrims
    <3>1. k + 1 \in DOMAIN w /\ w[k + 1].do = Push(l)
      BY <1>1
    <3>2. (k + 1) + 1 \in DOMAIN w /\ w[(k + 1) + 1].msg = w[k + 1].msg /\ w[(k + 1) + 1].do = Trim(l)
      BY <3>1 DEF WorkOK, PushesThenTrims
    <3>3. k + 1 \in DOMAIN r
      BY <1>1, <3>2
    <3>. QED BY <1>1, <3>2, <3>3
  <2>3. CASE Num(w) > 0
    <3>1. EmissionOK(s, w)
      BY <2>3 DEF WorkOK
    <3>2. r[1].msg = w[1].msg /\ \A k \in DOMAIN r : r[k].msg = w[1].msg
      BY <1>1, <2>1, <3>1 DEF EmissionOK
    <3>3. \A k \in DOMAIN r : r[k].do = Publish <=> k = Len(r)
      <4>. SUFFICES ASSUME NEW k \in DOMAIN r PROVE r[k].do = Publish <=> k = Len(r)
        OBVIOUS
      <4>1. k + 1 \in DOMAIN w /\ r[k] = w[k + 1] /\ (k = Len(r) <=> k + 1 = Len(w))
        BY <1>1
      <4>. QED BY <3>1, <4>1 DEF EmissionOK
    <3>4. \A j, k \in DOMAIN r : j < k => r[j].do # r[k].do
      <4>. SUFFICES ASSUME NEW j \in DOMAIN r, NEW k \in DOMAIN r, j < k PROVE r[j].do # r[k].do
        OBVIOUS
      <4>1. j + 1 \in DOMAIN w /\ k + 1 \in DOMAIN w /\ j + 1 < k + 1 /\ r[j] = w[j + 1] /\ r[k] = w[k + 1]
        BY <1>1
      <4>. QED BY <3>1, <4>1 DEF EmissionOK
    <3>5. \A k \in DOMAIN r : r[k].do = Push("ops") => k = Len(r) - 4 /\ w[1].msg.voter # None
      <4>. SUFFICES ASSUME NEW k \in DOMAIN r, r[k].do = Push("ops")
                    PROVE  k = Len(r) - 4 /\ w[1].msg.voter # None
        OBVIOUS
      <4>1. k + 1 \in DOMAIN w /\ r[k] = w[k + 1]
        BY <1>1
      <4>2. k + 1 = Len(w) - 4 /\ w[1].msg.voter # None
        BY <3>1, <4>1 DEF EmissionOK
      <4>. QED BY <1>1, <4>2
    <3>6. \A k \in DOMAIN r : \A a \in Accounts : r[k].do = Push(a) => w[1].msg.delegator = a
      BY <1>1, <3>1 DEF EmissionOK
    <3>7. w[1].msg.voter # None => s = "daemon" /\ Len(r) <= 7 /\ w[1].msg.delegator # None
      BY <1>1, <3>1 DEF EmissionOK
    <3>8. EmissionOK(s, r)
      BY <3>2, <3>3, <3>4, <3>5, <3>6, <3>7 DEF EmissionOK
    <3>9. Num(r) = Num(w) /\ Num(w) \in Int
      BY <1>1, <1>2, <3>2 DEF Num
    <3>. QED BY <2>2, <2>3, <3>2, <3>8, <3>9 DEF WorkOK
  <2>4. CASE ~(Num(w) > 0)
    <3>1. Num(w) \in Int /\ Num(w) <= 0 /\ PastOK(s, w)
      BY <1>1, <1>2, <2>4 DEF WorkOK, Num
    <3>2. s = "daemon" /\ \A k \in DOMAIN r : r[k].msg \in ToSet(Past) /\ r[k].do \in {Push("ops"), Trim("ops")}
      BY <1>1, <3>1 DEF PastOK
    <3>3. \A j, k \in DOMAIN r :
            j < k /\ r[j].do = Push("ops") /\ r[k].do = Push("ops") => r[j].msg.n < r[k].msg.n
      <4>. SUFFICES ASSUME NEW j \in DOMAIN r, NEW k \in DOMAIN r, j < k, r[j].do = Push("ops"), r[k].do = Push("ops")
                    PROVE  r[j].msg.n < r[k].msg.n
        OBVIOUS
      <4>1. j + 1 \in DOMAIN w /\ k + 1 \in DOMAIN w /\ j + 1 < k + 1 /\ r[j] = w[j + 1] /\ r[k] = w[k + 1]
        BY <1>1
      <4>. QED BY <3>1, <4>1 DEF PastOK
    <3>4. \A m \in ToSet(Past) : m.n <= 0 /\ m.voter # None
      BY PastAssumption DEF ToSet
    <3>5. r[1].msg \in ToSet(Past) /\ w[1].msg \in ToSet(Past) /\ Num(r) <= 0 /\ Num(r) \in Int
      BY <1>1, <1>2, <2>1, <3>1, <3>2, <3>4 DEF Num, PastOK
    <3>6. PastOK(s, r)
      BY <3>2, <3>3 DEF PastOK
    <3>. QED BY <2>2, <2>4, <3>1, <3>4, <3>5, <3>6 DEF WorkOK
  <2>. QED BY <2>3, <2>4
<1>. QED BY <1>1, <1>2, <1>3 DEF Num

-----------------------------------------------------------------------------
(***************************************************************************)
(* How the steps move the works of the services.                           *)
(***************************************************************************)
LEMMA QueueSteps ==
    ASSUME [Next]_vars
    PROVE  \/ \E s \in Services : \E what \in Says[s] : Emit(s, what)
           \/ \E s \in Services : Reply(s)
           \/ \E s \in Services : Resend(s)
           \/ \E s \in Services : Rejected(s)
           \/ \E s \in Services : Restart(s)
           \/ UNCHANGED <<lists, said, pipe, emitted>>
<1>1. CASE LogNext
  BY <1>1 DEF LogNext, Dispatch, RealtimeRestart, Join, redisVars
<1>. QED BY <1>1, Steps

\* An emission goes to the end of the pipe of its service.
LEMMA EmitMoves ==
    ASSUME LogTypeOK, NEW s \in Services, NEW what \in Says[s], Emit(s, what),
           NEW m, m = Message(emitted + 1, what.delegator, what.voter),
           NEW w, w = Work(m, Commands(m))
    PROVE  /\ emitted' = emitted + 1 /\ UNCHANGED <<lists, said, channel, sockets, slips>>
           /\ m \in Messages /\ m.n = emitted + 1 /\ m.voter = what.voter /\ m.delegator = what.delegator
           /\ m.voter # None => s = "daemon" /\ m.delegator # None /\ ~Preloading
           /\ w \in Seq(Task) /\ w # <<>> /\ WorkOK(s, w) /\ Num(w) = emitted + 1
           /\ \A k \in DOMAIN w : w[k].msg = m
           /\ w[1].msg = m
           /\ m.voter # None => Len(w) = 7
           /\ \A u \in Services : \A i \in DOMAIN pipe'[u] :
                \/ u = s /\ i = Len(pipe[s]) + 1 /\ pipe'[u][i] = w
                \/ i \in DOMAIN pipe[u] /\ pipe'[u][i] = pipe[u][i]
           /\ \A u \in Services : \A i \in DOMAIN pipe[u] :
                i \in DOMAIN pipe'[u] /\ pipe'[u][i] = pipe[u][i] /\ i \in Nat \ {0}
                /\ ~(u = s /\ i >= Len(pipe[s]) + 1)
           /\ Len(pipe[s]) + 1 \in DOMAIN pipe'[s] /\ pipe'[s][Len(pipe[s]) + 1] = w
<1>1. /\ m \in Messages /\ m.n = emitted + 1 /\ m.voter = what.voter /\ m.delegator = what.delegator
      /\ m.voter # None => s = "daemon" /\ m.delegator # None
  BY SaysTypes
<1>2. m.n > 0
  BY <1>1 DEF LogTypeOK
<1>3. /\ w \in Seq(Task) /\ w # <<>> /\ WorkOK(s, w)
      /\ \A k \in DOMAIN w : w[k].msg = m
      /\ w[1].msg = m
      /\ m.voter # None => Len(w) = 7
  BY <1>1, <1>2, EmissionShape
<1>4. Num(w) = emitted + 1
  BY <1>1, <1>3 DEF Num
<1>5. emitted' = emitted + 1 /\ UNCHANGED <<lists, said, channel, sockets, slips>>
      /\ pipe' = [pipe EXCEPT ![s] = Append(pipe[s], w)]
  BY DEF Emit, redisVars
<1>6. m.voter # None => ~Preloading
  BY <1>1 DEF Emit
<1>7. \A u \in Services : pipe[u] \in Seq(Seq(Task)) /\ pipe'[u] = IF u = s THEN Append(pipe[s], w) ELSE pipe[u]
  BY <1>5 DEF LogTypeOK
<1>8. /\ DOMAIN Append(pipe[s], w) = 1 .. (Len(pipe[s]) + 1) /\ Len(pipe[s]) \in Nat
      /\ Append(pipe[s], w)[Len(pipe[s]) + 1] = w
      /\ \A i \in DOMAIN pipe[s] : Append(pipe[s], w)[i] = pipe[s][i]
      /\ \A i \in DOMAIN Append(pipe[s], w) : i = Len(pipe[s]) + 1 \/ i \in DOMAIN pipe[s]
      /\ DOMAIN pipe[s] = 1 .. Len(pipe[s])
  BY <1>3, <1>7, PutLast
<1>9. \A u \in Services : \A i \in DOMAIN pipe'[u] :
        \/ u = s /\ i = Len(pipe[s]) + 1 /\ pipe'[u][i] = w
        \/ i \in DOMAIN pipe[u] /\ pipe'[u][i] = pipe[u][i]
  BY <1>7, <1>8
<1>10. ASSUME NEW u \in Services, NEW i \in DOMAIN pipe[u]
       PROVE  i \in DOMAIN pipe'[u] /\ pipe'[u][i] = pipe[u][i] /\ i \in Nat \ {0}
              /\ ~(u = s /\ i >= Len(pipe[s]) + 1)
  <2>1. i \in Nat \ {0} /\ i <= Len(pipe[u]) /\ Len(pipe[u]) \in Nat
    <3>1. DOMAIN pipe[u] = 1 .. Len(pipe[u]) /\ Len(pipe[u]) \in Nat
      BY <1>7, LenProperties
    <3>. QED BY <3>1
  <2>2. CASE u = s
    <3>1. i \in DOMAIN Append(pipe[s], w)
      BY <2>1, <2>2, <1>8
    <3>2. ~(i >= Len(pipe[s]) + 1)
      BY <2>1, <2>2
    <3>. QED BY <2>1, <2>2, <3>1, <3>2, <1>7, <1>8
  <2>3. CASE u # s
    BY <2>1, <2>3, <1>7
  <2>. QED BY <2>2, <2>3
<1>11. Len(pipe[s]) + 1 \in DOMAIN pipe'[s] /\ pipe'[s][Len(pipe[s]) + 1] = w
  <2>1. Len(pipe[s]) + 1 \in DOMAIN Append(pipe[s], w)
    BY <1>8
  <2>. QED BY <2>1, <1>7, <1>8
<1>. QED BY <1>1, <1>3, <1>4, <1>5, <1>6, <1>9, <1>10, <1>11

\* Where a work stood before the reply to a command of s.
Was(s, u, i) == IF u # s THEN i ELSE IF i = Len(pipe[s]) THEN 1 ELSE i + 1

LEMMA ReplyMoves ==
    ASSUME LogTypeOK, NEW s \in Services, Reply(s)
    PROVE  /\ pipe[s] # <<>> /\ 1 \in DOMAIN pipe[s] /\ pipe[s][1] \in Seq(Task) /\ pipe[s][1] # <<>>
           /\ pipe[s][1][1] \in Task /\ Execute(pipe[s][1][1])
           /\ UNCHANGED <<emitted, sockets, slips>>
           /\ \A u \in Services : \A i \in DOMAIN pipe'[u] :
                /\ Was(s, u, i) \in DOMAIN pipe[u]
                /\ u = s /\ Was(s, u, i) = 1 =>
                     i = Len(pipe[s]) /\ Tail(pipe[s][1]) # <<>> /\ pipe'[u][i] = Tail(pipe[s][1])
                /\ ~(u = s /\ Was(s, u, i) = 1) => pipe'[u][i] = pipe[u][Was(s, u, i)]
           /\ \A u \in Services : \A i, j \in DOMAIN pipe'[u] :
                i < j => \/ Was(s, u, i) < Was(s, u, j) /\ ~(u = s /\ Was(s, u, i) = 1)
                         \/ u = s /\ Was(s, u, j) = 1 /\ Was(s, u, i) > 1
           /\ \A u \in Services : \A i, j \in DOMAIN pipe'[u] : i # j => Was(s, u, i) # Was(s, u, j)
           /\ \A u \in Services : \A j \in DOMAIN pipe[u] :
                ~(u = s /\ j = 1) => \E i \in DOMAIN pipe'[u] : Was(s, u, i) = j
           /\ Tail(pipe[s][1]) # <<>> => Len(pipe[s]) \in DOMAIN pipe'[s]
                                         /\ pipe'[s][Len(pipe[s])] = Tail(pipe[s][1])
<1>. DEFINE q == pipe[s]
            t == Turned(q)
<1>1. /\ pipe[s] # <<>> /\ pipe[s][1] \in Seq(Task) /\ pipe[s][1] # <<>> /\ 1 \in DOMAIN pipe[s]
      /\ pipe[s][1][1] \in Task /\ pipe[s] \in Seq(Seq(Task))
      /\ Head(Head(pipe[s])) = pipe[s][1][1]
  BY FirstTask DEF Reply
<1>2. Execute(pipe[s][1][1]) /\ UNCHANGED <<emitted, sockets, slips>>
  BY <1>1 DEF Reply
<1>3. \A u \in Services : pipe'[u] = IF u = s THEN t ELSE pipe[u]
  <2>1. pipe' = [pipe EXCEPT ![s] = t]
    BY DEF Reply, Turned
  <2>. QED BY <2>1 DEF LogTypeOK
<1>. HIDE DEF t
<1>4. /\ DOMAIN q = 1 .. Len(q) /\ Len(q) \in Nat \ {0}
      /\ \A i \in DOMAIN t : /\ i \in Nat \ {0}
                             /\ \/ i + 1 \in DOMAIN q /\ t[i] = q[i + 1]
                                \/ i = Len(q) /\ Tail(q[1]) # <<>> /\ t[i] = Tail(q[1])
      /\ \A i \in DOMAIN q : i # 1 => i - 1 \in DOMAIN t /\ t[i - 1] = q[i]
      /\ Tail(q[1]) # <<>> => Len(q) \in DOMAIN t /\ t[Len(q)] = Tail(q[1])
  <2>. HIDE DEF q
  <2>1. q \in Seq(Seq(Task)) /\ q # <<>> /\ q[1] # <<>>
    BY <1>1 DEF q
  <2>2. t = Turned(q)
    BY DEF t
  <2>3. DOMAIN q = 1 .. Len(q) /\ Len(q) \in Nat \ {0}
    BY <2>1, TakeFirst
  <2>4. \A i \in DOMAIN t : /\ i \in Nat \ {0}
                             /\ \/ i + 1 \in DOMAIN q /\ t[i] = q[i + 1]
                                \/ i = Len(q) /\ Tail(q[1]) # <<>> /\ t[i] = Tail(q[1])
    BY <2>1, <2>2, Turn
  <2>5. \A i \in DOMAIN q : i # 1 => i - 1 \in DOMAIN t /\ t[i - 1] = q[i]
    BY <2>1, <2>2, Turn
  <2>6. Tail(q[1]) # <<>> => Len(q) \in DOMAIN t /\ t[Len(q)] = Tail(q[1])
    BY <2>1, <2>2, Turn
  <2>. QED BY <2>3, <2>4, <2>5, <2>6
<1>. HIDE DEF q
<1>5. \A i \in DOMAIN t :
        /\ Was(s, s, i) \in DOMAIN q
        /\ Was(s, s, i) = 1 => i = Len(q) /\ Tail(q[1]) # <<>> /\ t[i] = Tail(q[1])
        /\ Was(s, s, i) # 1 => t[i] = q[Was(s, s, i)] /\ i + 1 = Was(s, s, i)
  <2>. SUFFICES ASSUME NEW i \in DOMAIN t
                PROVE  /\ Was(s, s, i) \in DOMAIN q
                       /\ Was(s, s, i) = 1 => i = Len(q) /\ Tail(q[1]) # <<>> /\ t[i] = Tail(q[1])
                       /\ Was(s, s, i) # 1 => t[i] = q[Was(s, s, i)] /\ i + 1 = Was(s, s, i)
    OBVIOUS
  <2>1. CASE i = Len(q)
    <3>1. i + 1 \notin DOMAIN q
      BY <2>1, <1>4
    <3>2. Was(s, s, i) = 1
      BY <2>1 DEF Was, q
    <3>. QED BY <2>1, <3>1, <3>2, <1>4
  <2>2. CASE i # Len(q)
    <3>1. i + 1 \in DOMAIN q /\ t[i] = q[i + 1] /\ i + 1 # 1
      BY <2>2, <1>4
    <3>2. Was(s, s, i) = i + 1
      BY <2>2 DEF Was, q
    <3>. QED BY <3>1, <3>2
  <2>. QED BY <2>1, <2>2
<1>6. ASSUME NEW u \in Services
      PROVE  /\ \A i \in DOMAIN pipe'[u] :
                /\ Was(s, u, i) \in DOMAIN pipe[u]
                /\ u = s /\ Was(s, u, i) = 1 =>
                     i = Len(pipe[s]) /\ Tail(pipe[s][1]) # <<>> /\ pipe'[u][i] = Tail(pipe[s][1])
                /\ ~(u = s /\ Was(s, u, i) = 1) => pipe'[u][i] = pipe[u][Was(s, u, i)]
             /\ \A i, j \in DOMAIN pipe'[u] :
                i < j => \/ Was(s, u, i) < Was(s, u, j) /\ ~(u = s /\ Was(s, u, i) = 1)
                         \/ u = s /\ Was(s, u, j) = 1 /\ Was(s, u, i) > 1
             /\ \A i, j \in DOMAIN pipe'[u] : i # j => Was(s, u, i) # Was(s, u, j)
             /\ \A j \in DOMAIN pipe[u] :
                ~(u = s /\ j = 1) => \E i \in DOMAIN pipe'[u] : Was(s, u, i) = j
  <2>1. CASE u # s
    BY <2>1, <1>3 DEF Was
  <2>2. CASE u = s
    <3>1. pipe'[u] = t /\ pipe[u] = q
      BY <2>2, <1>3 DEF q
    <3>2. \A i, j \in DOMAIN t :
             i < j => \/ Was(s, s, i) < Was(s, s, j) /\ Was(s, s, i) # 1
                      \/ Was(s, s, j) = 1 /\ Was(s, s, i) > 1
      <4>. SUFFICES ASSUME NEW i \in DOMAIN t, NEW j \in DOMAIN t, i < j
                    PROVE  \/ Was(s, s, i) < Was(s, s, j) /\ Was(s, s, i) # 1
                           \/ Was(s, s, j) = 1 /\ Was(s, s, i) > 1
        OBVIOUS
      <4>1. i \in Nat \ {0} /\ j \in Nat \ {0}
        BY <1>4
      <4>2. i # Len(q)
        <5>1. j <= Len(q)
          BY <1>4
        <5>. QED BY <4>1, <5>1, <1>4
      <4>3. Was(s, s, i) = i + 1
        BY <4>2 DEF Was, q
      <4>4. CASE j = Len(q)
        <5>1. Was(s, s, j) = 1
          BY <4>4 DEF Was, q
        <5>. QED BY <5>1, <4>1, <4>3
      <4>5. CASE j # Len(q)
        <5>1. Was(s, s, j) = j + 1
          BY <4>5 DEF Was, q
        <5>. QED BY <5>1, <4>1, <4>3
      <4>. QED BY <4>4, <4>5
    <3>3. \A i, j \in DOMAIN t : i # j => Was(s, s, i) # Was(s, s, j)
      <4>1. \A i \in DOMAIN t : /\ i \in Nat \ {0}
                                /\ Was(s, s, i) = 1 => i = Len(q)
                                /\ Was(s, s, i) # 1 => i + 1 = Was(s, s, i)
        BY <1>4, <1>5
      <4>. QED BY <4>1
    <3>4. \A j \in DOMAIN q : j # 1 => \E i \in DOMAIN t : Was(s, s, i) = j
      <4>. SUFFICES ASSUME NEW j \in DOMAIN q, j # 1 PROVE \E i \in DOMAIN t : Was(s, s, i) = j
        OBVIOUS
      <4>1. j - 1 \in DOMAIN t /\ j - 1 # Len(q) /\ (j - 1) + 1 = j
        BY <1>4
      <4>2. Was(s, s, j - 1) = j
        BY <4>1 DEF Was, q
      <4>. QED BY <4>1, <4>2
    <3>. QED BY <2>2, <3>1, <1>5, <3>2, <3>3, <3>4 DEF q
  <2>. QED BY <2>1, <2>2
<1>7. Tail(pipe[s][1]) # <<>> => Len(pipe[s]) \in DOMAIN pipe'[s] /\ pipe'[s][Len(pipe[s])] = Tail(pipe[s][1])
  BY <1>3, <1>4 DEF q
<1>. QED BY <1>1, <1>2, <1>6, <1>7

\* What is due after a preload has started anew, or nothing has.
LEMMA Afresh ==
    ASSUME LogTypeOK, NEW s \in Services, Rejected(s) \/ Restart(s)
    PROVE  /\ UNCHANGED <<lists, said, channel, sockets, emitted>> /\ "lost" \in slips'
           /\ \A u \in Services : u # s => pipe'[u] = pipe[u]
           /\ \A i \in DOMAIN pipe'[s] : /\ i = 1 /\ s = "daemon" /\ lists["ops"] = <<>>
                                         /\ Past # <<>> /\ pipe'[s][i] = PastWork
<1>1. UNCHANGED <<lists, said, channel, sockets, emitted>> /\ "lost" \in slips'
  BY DEF Rejected, Restart, redisVars
<1>2. \A u \in Services : u # s => pipe'[u] = pipe[u]
  BY DEF Rejected, Restart, LogTypeOK
<1>3. pipe'[s] = <<>> \/ (pipe'[s] = Preload /\ s = "daemon")
  BY DEF Rejected, Restart, LogTypeOK
<1>4. \A i \in DOMAIN Preload : i = 1 /\ Preload[i] = PastWork /\ lists["ops"] = <<>> /\ Past # <<>>
  <2>1. CASE lists["ops"] # <<>> \/ Past = <<>>
    BY <2>1 DEF Preload
  <2>2. CASE ~(lists["ops"] # <<>> \/ Past = <<>>)
    BY <2>2, PreloadTypes
  <2>. QED BY <2>1, <2>2
<1>5. \A i \in DOMAIN <<>> : FALSE
  OBVIOUS
<1>. QED BY <1>1, <1>2, <1>3, <1>4, <1>5

-----------------------------------------------------------------------------
(***************************************************************************)
(* The works under way: each is an emission or what is left of the one     *)
(* preload; they are told apart by their numbers; emissions of operations  *)
(* stay in their order, give or take a turn.                               *)
(***************************************************************************)
WorksOK ==
    \A s \in Services : \A i \in DOMAIN pipe[s] :
        WorkOK(s, pipe[s][i]) /\ Num(pipe[s][i]) <= emitted

Apart ==
    \A s, t \in Services : \A i \in DOMAIN pipe[s] : \A j \in DOMAIN pipe[t] :
        ~(s = t /\ i = j) =>
            /\ Num(pipe[s][i]) # Num(pipe[t][j])
            /\ Num(pipe[s][i]) <= 0 => Num(pipe[t][j]) > 0 /\ pipe[t][j][1].msg.voter = None

InTurn(v, w) == \/ Num(v) < Num(w) /\ Len(v) <= Len(w)
                \/ Num(w) < Num(v) /\ Len(w) < Len(v)
Rounds ==
    \A i, j \in DOMAIN pipe["daemon"] :
        /\ i < j
        /\ pipe["daemon"][i][1].msg.voter # None
        /\ pipe["daemon"][j][1].msg.voter # None
        => InTurn(pipe["daemon"][i], pipe["daemon"][j])

QueueInv == WorksOK /\ Apart /\ Rounds

LEMMA WorksTyped ==
    ASSUME LogTypeOK, NEW s \in Services, NEW i \in DOMAIN pipe[s]
    PROVE  /\ pipe[s][i] \in Seq(Task) /\ pipe[s][i] # <<>> /\ i \in Nat \ {0}
           /\ 1 \in DOMAIN pipe[s][i] /\ pipe[s][i][1] \in Task
           /\ DOMAIN pipe[s][i] = 1 .. Len(pipe[s][i]) /\ Len(pipe[s][i]) \in Nat \ {0}
           /\ Num(pipe[s][i]) \in Int
           /\ pipe[s][i][1].msg \in Messages
<1>1. pipe[s] \in Seq(Seq(Task)) /\ pipe[s][i] # <<>>
  BY DEF LogTypeOK
<1>2. pipe[s][i] \in Seq(Task) /\ i \in Nat \ {0}
  <2>1. DOMAIN pipe[s] = 1 .. Len(pipe[s]) /\ Len(pipe[s]) \in Nat
    BY <1>1, LenProperties
  <2>2. pipe[s][i] \in Seq(Task)
    BY <1>1, ElementsOf DEF ToSet
  <2>. QED BY <2>1, <2>2
<1>. DEFINE w == pipe[s][i]
<1>. HIDE DEF w
<1>3. w \in Seq(Task) /\ w # <<>>
  BY <1>1, <1>2 DEF w
<1>4. 1 \in DOMAIN w /\ DOMAIN w = 1 .. Len(w) /\ Len(w) \in Nat \ {0} /\ Head(w) \in Task /\ Head(w) = w[1]
  BY <1>3, TakeFirst
<1>5. w[1].msg \in Messages
  BY <1>4 DEF Task
<1>6. Num(w) \in Int
  BY <1>5 DEF Num, Messages
<1>. QED BY <1>1, <1>2, <1>4, <1>5, <1>6 DEF w

LEMMA QueueEmit ==
    ASSUME LogTypeOK, QueueInv, NEW s \in Services, NEW what \in Says[s], Emit(s, what)
    PROVE  QueueInv'
<1>. DEFINE m == Message(emitted + 1, what.delegator, what.voter)
            w == Work(m, Commands(m))
<1>1. /\ emitted' = emitted + 1
      /\ m.voter # None => s = "daemon" /\ ~Preloading
      /\ w \in Seq(Task) /\ w # <<>> /\ WorkOK(s, w) /\ Num(w) = emitted + 1
      /\ w[1].msg = m
      /\ m.voter # None => Len(w) = 7
      /\ \A u \in Services : \A i \in DOMAIN pipe'[u] :
           \/ u = s /\ i = Len(pipe[s]) + 1 /\ pipe'[u][i] = w
           \/ i \in DOMAIN pipe[u] /\ pipe'[u][i] = pipe[u][i]
      /\ \A u \in Services : \A i \in DOMAIN pipe[u] :
           i \in DOMAIN pipe'[u] /\ pipe'[u][i] = pipe[u][i] /\ i \in Nat \ {0}
           /\ ~(u = s /\ i >= Len(pipe[s]) + 1)
  BY EmitMoves
<1>. HIDE DEF m, w
<1>2. emitted \in Nat /\ Len(pipe[s]) \in Nat
  BY LenProperties DEF LogTypeOK
<1>3. \A u \in Services : \A i \in DOMAIN pipe[u] :
         Num(pipe[u][i]) \in Int /\ Num(pipe[u][i]) <= emitted /\ WorkOK(u, pipe[u][i])
  BY WorksTyped DEF QueueInv, WorksOK
<1>4. WorksOK'
  <2>. SUFFICES ASSUME NEW u \in Services, NEW i \in DOMAIN pipe'[u]
                PROVE  WorkOK(u, pipe'[u][i]) /\ Num(pipe'[u][i]) <= emitted'
    BY DEF WorksOK
  <2>1. CASE u = s /\ pipe'[u][i] = w
    BY <2>1, <1>1, <1>2
  <2>2. CASE i \in DOMAIN pipe[u] /\ pipe'[u][i] = pipe[u][i]
    BY <2>2, <1>1, <1>2, <1>3
  <2>. QED BY <2>1, <2>2, <1>1
<1>5. Apart'
  <2>. SUFFICES ASSUME NEW u \in Services, NEW v \in Services, NEW i \in DOMAIN pipe'[u], NEW j \in DOMAIN pipe'[v],
                       ~(u = v /\ i = j)
                PROVE  /\ Num(pipe'[u][i]) # Num(pipe'[v][j])
                       /\ Num(pipe'[u][i]) <= 0 => Num(pipe'[v][j]) > 0 /\ pipe'[v][j][1].msg.voter = None
    BY DEF Apart
  <2>1. CASE i \in DOMAIN pipe[u] /\ pipe'[u][i] = pipe[u][i] /\ j \in DOMAIN pipe[v] /\ pipe'[v][j] = pipe[v][j]
    BY <2>1 DEF QueueInv, Apart
  <2>2. CASE pipe'[u][i] = w /\ j \in DOMAIN pipe[v] /\ pipe'[v][j] = pipe[v][j]
    BY <2>2, <1>1, <1>2, <1>3
  <2>3. CASE i \in DOMAIN pipe[u] /\ pipe'[u][i] = pipe[u][i] /\ pipe'[v][j] = w
    <3>1. Num(pipe[u][i]) \in Int /\ Num(pipe[u][i]) < Num(w) /\ Num(w) > 0
      BY <2>3, <1>1, <1>2, <1>3
    <3>2. ASSUME Num(pipe[u][i]) <= 0 PROVE w[1].msg.voter = None
      <4>1. u = "daemon"
        BY <2>3, <3>2, <1>3 DEF WorkOK, PastOK
      <4>2. Preloading
        BY <2>3, <3>2, <4>1 DEF Preloading, Num
      <4>. QED BY <4>2, <1>1
    <3>. QED BY <2>3, <3>1, <3>2
  <2>. QED BY <2>1, <2>2, <2>3, <1>1
<1>6. Rounds'
  <2>. SUFFICES ASSUME NEW i \in DOMAIN pipe'["daemon"], NEW j \in DOMAIN pipe'["daemon"], i < j,
                       pipe'["daemon"][i][1].msg.voter # None, pipe'["daemon"][j][1].msg.voter # None
                PROVE  InTurn(pipe'["daemon"][i], pipe'["daemon"][j])
    BY DEF Rounds
  <2>. DEFINE D == "daemon"
  <2>1. D \in Services
    BY DEF Services
  <2>2. CASE i \in DOMAIN pipe[D] /\ pipe'[D][i] = pipe[D][i] /\ j \in DOMAIN pipe[D] /\ pipe'[D][j] = pipe[D][j]
    BY <2>2 DEF QueueInv, Rounds
  <2>3. CASE s = D /\ i = Len(pipe[s]) + 1 /\ j \in DOMAIN pipe[D]
    <3>1. j \in Nat \ {0} /\ ~(j >= Len(pipe[s]) + 1)
      BY <2>3, <1>1, <2>1
    <3>. QED BY <2>3, <3>1, <1>2
  <2>4. CASE i \in DOMAIN pipe[D] /\ pipe'[D][i] = pipe[D][i] /\ s = D /\ pipe'[D][j] = w
    <3>1. Num(pipe[D][i]) \in Int /\ Num(pipe[D][i]) < Num(w)
      BY <2>1, <2>4, <1>1, <1>2, <1>3
    <3>2. Len(w) = 7
      BY <2>4, <1>1
    <3>3. Len(pipe[D][i]) <= 7
      <4>1. CASE Num(pipe[D][i]) > 0
        BY <2>1, <2>4, <4>1, <1>3 DEF WorkOK, EmissionOK
      <4>2. CASE ~(Num(pipe[D][i]) > 0)
        <5>1. Num(pipe[D][i]) <= 0
          BY <3>1, <4>2
        <5>2. Preloading
          BY <2>4, <5>1 DEF Preloading, Num
        <5>. QED BY <5>2, <2>4, <1>1
      <4>. QED BY <4>1, <4>2
    <3>4. Len(pipe[D][i]) \in Nat
      BY <2>1, <2>4, WorksTyped
    <3>. QED BY <2>4, <3>1, <3>2, <3>3, <3>4 DEF InTurn
  <2>. QED BY <2>1, <2>2, <2>3, <2>4, <1>1, <1>2
<1>. QED BY <1>4, <1>5, <1>6 DEF QueueInv

\* What has become of a work after a reply.
LEMMA WorkAfterReply ==
    ASSUME LogTypeOK, WorksOK, NEW s \in Services, Reply(s), NEW u \in Services, NEW i \in DOMAIN pipe'[u],
           NEW o, o = pipe[u][Was(s, u, i)], NEW w, w = pipe'[u][i]
    PROVE  /\ Was(s, u, i) \in DOMAIN pipe[u]
           /\ WorkOK(u, o) /\ WorkOK(u, w)
           /\ Num(o) \in Int /\ Num(w) \in Int
           /\ Num(w) > 0 <=> Num(o) > 0
           /\ Num(o) > 0 => w[1].msg = o[1].msg /\ Num(w) = Num(o) /\ Num(o) <= emitted
           /\ w[1].msg.voter # None <=> o[1].msg.voter # None
           /\ Len(o) \in Nat \ {0} /\ Len(w) \in Nat
           /\ IF u = s /\ Was(s, u, i) = 1
              THEN Len(w) = Len(o) - 1 /\ w = Tail(o) /\ \A k \in DOMAIN w : k + 1 \in DOMAIN o /\ w[k] = o[k + 1]
              ELSE w = o
<1>1. /\ Was(s, u, i) \in DOMAIN pipe[u]
      /\ u = s /\ Was(s, u, i) = 1 => w = Tail(o) /\ w # <<>>
      /\ ~(u = s /\ Was(s, u, i) = 1) => w = o
  <2>1. /\ Was(s, u, i) \in DOMAIN pipe[u]
        /\ u = s /\ Was(s, u, i) = 1 => Tail(pipe[s][1]) # <<>> /\ pipe'[u][i] = Tail(pipe[s][1])
        /\ ~(u = s /\ Was(s, u, i) = 1) => pipe'[u][i] = pipe[u][Was(s, u, i)]
    BY ReplyMoves
  <2>. QED BY <2>1
<1>2. /\ o \in Seq(Task) /\ o # <<>> /\ Num(o) \in Int /\ Len(o) \in Nat \ {0}
      /\ WorkOK(u, o) /\ Num(o) <= emitted
  BY <1>1, WorksTyped DEF WorksOK
<1>3. CASE u = s /\ Was(s, u, i) = 1
  <2>0. w = Tail(o) /\ w # <<>>
    BY <1>1, <1>3
  <2>1. /\ w = Tail(o) /\ w # <<>> /\ Len(w) = Len(o) - 1
        /\ \A k \in DOMAIN w : k + 1 \in DOMAIN o /\ w[k] = o[k + 1]
        /\ WorkOK(u, w)
        /\ Num(w) > 0 <=> Num(o) > 0
        /\ Num(o) > 0 => w[1].msg = o[1].msg
        /\ w[1].msg.voter # None <=> o[1].msg.voter # None
    <3>1. /\ Len(Tail(o)) = Len(o) - 1
          /\ \A k \in DOMAIN Tail(o) : k + 1 \in DOMAIN o /\ Tail(o)[k] = o[k + 1]
      BY <1>2, WorkGoesOn
    <3>2. /\ WorkOK(u, Tail(o))
          /\ Num(Tail(o)) > 0 <=> Num(o) > 0
          /\ Num(o) > 0 => Tail(o)[1].msg = o[1].msg
          /\ Tail(o)[1].msg.voter # None <=> o[1].msg.voter # None
      BY <1>2, <2>0, WorkGoesOn
    <3>. QED BY <2>0, <3>1, <3>2
  <2>2. Num(w) \in Int
    <3>1. w \in Seq(Task)
      BY <1>2, <2>1, TakeFirst
    <3>2. Head(w) = w[1] /\ Head(w) \in Task
      BY <2>1, <3>1, TakeFirst
    <3>. QED BY <3>2 DEF Num, Task, Messages
  <2>3. Num(o) > 0 => Num(w) = Num(o)
    BY <2>1 DEF Num
  <2>. QED BY <1>1, <1>2, <1>3, <2>1, <2>2, <2>3
<1>4. CASE ~(u = s /\ Was(s, u, i) = 1)
  BY <1>1, <1>2, <1>4
<1>. QED BY <1>3, <1>4

LEMMA QueueReply ==
    ASSUME LogTypeOK, QueueInv, NEW s \in Services, Reply(s)
    PROVE  QueueInv'
<1>1. emitted' = emitted /\ emitted \in Nat
  BY DEF Reply, LogTypeOK
<1>. DEFINE old(u, i) == pipe[u][Was(s, u, i)]
<1>2. \A u \in Services : \A i \in DOMAIN pipe'[u] :
           /\ Was(s, u, i) \in DOMAIN pipe[u]
           /\ WorkOK(u, pipe'[u][i])
           /\ Num(old(u, i)) \in Int /\ Num(pipe'[u][i]) \in Int
           /\ Num(pipe'[u][i]) > 0 <=> Num(old(u, i)) > 0
           /\ Num(old(u, i)) > 0 => Num(pipe'[u][i]) = Num(old(u, i)) /\ Num(old(u, i)) <= emitted
           /\ pipe'[u][i][1].msg.voter # None <=> old(u, i)[1].msg.voter # None
           /\ Len(old(u, i)) \in Nat \ {0} /\ Len(pipe'[u][i]) \in Nat
           /\ IF u = s /\ Was(s, u, i) = 1 THEN Len(pipe'[u][i]) = Len(old(u, i)) - 1 ELSE pipe'[u][i] = old(u, i)
  BY WorkAfterReply DEF QueueInv
<1>3. WorksOK'
  <2>. SUFFICES ASSUME NEW u \in Services, NEW i \in DOMAIN pipe'[u]
                PROVE  WorkOK(u, pipe'[u][i]) /\ Num(pipe'[u][i]) <= emitted'
    BY DEF WorksOK
  <2>. HIDE DEF old
  <2>. QED BY <1>1, <1>2
<1>4. Apart'
  <2>. SUFFICES ASSUME NEW u \in Services, NEW v \in Services, NEW i \in DOMAIN pipe'[u], NEW j \in DOMAIN pipe'[v],
                       ~(u = v /\ i = j)
                PROVE  /\ Num(pipe'[u][i]) # Num(pipe'[v][j])
                       /\ Num(pipe'[u][i]) <= 0 => Num(pipe'[v][j]) > 0 /\ pipe'[v][j][1].msg.voter = None
    BY DEF Apart
  <2>1. ~(u = v /\ Was(s, u, i) = Was(s, v, j))
    BY ReplyMoves
  <2>2. /\ Num(old(u, i)) # Num(old(v, j))
        /\ Num(old(u, i)) <= 0 => Num(old(v, j)) > 0 /\ old(v, j)[1].msg.voter = None
        /\ Num(old(v, j)) <= 0 => Num(old(u, i)) > 0
    BY <1>2, <2>1 DEF QueueInv, Apart
  <2>. HIDE DEF old
  <2>. QED BY <1>2, <2>2
<1>5. Rounds'
  <2>. DEFINE D == "daemon"
  <2>. SUFFICES ASSUME NEW i \in DOMAIN pipe'[D], NEW j \in DOMAIN pipe'[D], i < j,
                       pipe'[D][i][1].msg.voter # None, pipe'[D][j][1].msg.voter # None
                PROVE  InTurn(pipe'[D][i], pipe'[D][j])
    BY DEF Rounds
  <2>1. D \in Services
    BY DEF Services
  <2>2. Was(s, D, i) \in DOMAIN pipe[D] /\ Was(s, D, j) \in DOMAIN pipe[D]
        /\ Was(s, D, i) \in Nat \ {0} /\ Was(s, D, j) \in Nat \ {0}
    BY <1>2, <2>1, WorksTyped
  <2>3. \/ Was(s, D, i) < Was(s, D, j) /\ ~(D = s /\ Was(s, D, i) = 1)
        \/ D = s /\ Was(s, D, j) = 1 /\ Was(s, D, i) > 1
    BY <2>1, ReplyMoves
  <2>4. old(D, i)[1].msg.voter # None /\ old(D, j)[1].msg.voter # None
    BY <1>2, <2>1
  <2>5. Num(old(D, i)) > 0 /\ Num(old(D, j)) > 0
    <3>1. ~(D = D /\ Was(s, D, i) = Was(s, D, j))
      BY <2>2, <2>3
    <3>2. ~(Num(old(D, i)) <= 0) /\ ~(Num(old(D, j)) <= 0)
      BY <2>1, <2>2, <2>4, <3>1 DEF QueueInv, Apart
    <3>. HIDE DEF old
    <3>. QED BY <3>2, <1>2, <2>1
  <2>6. Num(pipe'[D][i]) = Num(old(D, i)) /\ Num(pipe'[D][j]) = Num(old(D, j))
    BY <1>2, <2>1, <2>5
  <2>7. CASE Was(s, D, i) < Was(s, D, j)
    <3>1. InTurn(old(D, i), old(D, j))
      BY <2>2, <2>4, <2>7 DEF QueueInv, Rounds
    <3>2. pipe'[D][j] = old(D, j)
      BY <1>2, <2>1, <2>2, <2>7
    <3>3. Len(pipe'[D][i]) <= Len(old(D, i)) /\ (Was(s, D, i) # 1 \/ D # s => pipe'[D][i] = old(D, i))
      <4>. HIDE DEF old
      <4>. QED BY <1>2, <2>1
    <3>4. ~(D = s /\ Was(s, D, i) = 1)
      BY <2>2, <2>3, <2>7
    <3>. QED BY <3>1, <3>2, <3>3, <3>4
  <2>8. CASE D = s /\ Was(s, D, j) = 1 /\ Was(s, D, i) > 1
    <3>1. InTurn(old(D, j), old(D, i))
      BY <2>2, <2>4, <2>8 DEF QueueInv, Rounds
    <3>2. pipe'[D][i] = old(D, i) /\ Len(pipe'[D][j]) = Len(old(D, j)) - 1
      BY <1>2, <2>1, <2>2, <2>8
    <3>3. /\ Num(old(D, i)) \in Int /\ Num(old(D, j)) \in Int
          /\ Len(old(D, i)) \in Nat /\ Len(old(D, j)) \in Nat
      BY <1>2, <2>1
    <3>. HIDE DEF old
    <3>. QED BY <2>6, <3>1, <3>2, <3>3 DEF InTurn
  <2>. QED BY <2>3, <2>7, <2>8
<1>. QED BY <1>3, <1>4, <1>5 DEF QueueInv

LEMMA QueueAfresh ==
    ASSUME LogTypeOK, QueueInv, NEW s \in Services, Rejected(s) \/ Restart(s)
    PROVE  QueueInv'
<1>1. /\ emitted' = emitted /\ emitted \in Nat
      /\ \A u \in Services : u # s => pipe'[u] = pipe[u]
      /\ \A i \in DOMAIN pipe'[s] : i = 1 /\ s = "daemon" /\ Past # <<>> /\ pipe'[s][i] = PastWork
  BY Afresh DEF LogTypeOK
<1>2. Past # <<>> => WorkOK("daemon", PastWork) /\ Num(PastWork) <= 0 /\ Num(PastWork) \in Int
  BY PastWorkShape
<1>3. WorksOK'
  <2>. SUFFICES ASSUME NEW u \in Services, NEW i \in DOMAIN pipe'[u]
                PROVE  WorkOK(u, pipe'[u][i]) /\ Num(pipe'[u][i]) <= emitted'
    BY DEF WorksOK
  <2>1. CASE u = s
    <3>1. u = "daemon" /\ pipe'[u][i] = PastWork /\ Past # <<>>
      BY <1>1, <2>1
    <3>2. Num(PastWork) <= emitted
      <4>1. \A n \in Int : n <= 0 => n <= emitted
        BY <1>1
      <4>. QED BY <3>1, <1>2, <4>1
    <3>. QED BY <3>1, <3>2, <1>1, <1>2
  <2>2. CASE u # s
    BY <2>2, <1>1 DEF QueueInv, WorksOK
  <2>. QED BY <2>1, <2>2
<1>4. Apart'
  <2>. SUFFICES ASSUME NEW u \in Services, NEW v \in Services, NEW i \in DOMAIN pipe'[u], NEW j \in DOMAIN pipe'[v],
                       ~(u = v /\ i = j)
                PROVE  /\ Num(pipe'[u][i]) # Num(pipe'[v][j])
                       /\ Num(pipe'[u][i]) <= 0 => Num(pipe'[v][j]) > 0 /\ pipe'[v][j][1].msg.voter = None
    BY DEF Apart
  <2>1. CASE u # s /\ v # s
    BY <2>1, <1>1 DEF QueueInv, Apart
  <2>2. CASE u = s /\ v = s
    BY <2>2, <1>1
  <2>3. ASSUME NEW t \in Services, t # s, s = "daemon", NEW k \in DOMAIN pipe[t]
        PROVE  Num(pipe[t][k]) \in Int /\ Num(pipe[t][k]) > 0 /\ pipe[t][k][1].msg.voter = None
    <3>1. Num(pipe[t][k]) \in Int /\ WorkOK(t, pipe[t][k])
      BY <2>3, WorksTyped DEF QueueInv, WorksOK
    <3>2. ~(Num(pipe[t][k]) <= 0)
      BY <2>3, <3>1 DEF WorkOK, PastOK
    <3>3. Num(pipe[t][k]) > 0
      BY <3>1, <3>2
    <3>. QED BY <2>3, <3>1, <3>3 DEF WorkOK, EmissionOK
  <2>4. CASE u = s /\ v # s
    <3>1. Num(pipe[v][j]) \in Int /\ Num(pipe[v][j]) > 0 /\ pipe[v][j][1].msg.voter = None /\ pipe'[v][j] = pipe[v][j]
      BY <2>3, <2>4, <1>1
    <3>2. Num(pipe'[u][i]) = Num(PastWork) /\ Num(PastWork) <= 0 /\ Num(PastWork) \in Int
      BY <2>4, <1>1, <1>2
    <3>. QED BY <3>1, <3>2
  <2>5. CASE u # s /\ v = s
    <3>1. Num(pipe[u][i]) \in Int /\ Num(pipe[u][i]) > 0 /\ pipe'[u][i] = pipe[u][i]
      BY <2>3, <2>5, <1>1
    <3>2. Num(pipe'[v][j]) = Num(PastWork) /\ Num(PastWork) <= 0 /\ Num(PastWork) \in Int
      BY <2>5, <1>1, <1>2
    <3>. QED BY <3>1, <3>2
  <2>. QED BY <2>1, <2>2, <2>4, <2>5
<1>5. Rounds'
  <2>. SUFFICES ASSUME NEW i \in DOMAIN pipe'["daemon"], NEW j \in DOMAIN pipe'["daemon"], i < j,
                       pipe'["daemon"][i][1].msg.voter # None, pipe'["daemon"][j][1].msg.voter # None
                PROVE  InTurn(pipe'["daemon"][i], pipe'["daemon"][j])
    BY DEF Rounds
  <2>1. CASE s = "daemon"
    <3>1. i = 1 /\ j = 1
      BY <2>1, <1>1
    <3>. QED BY <3>1
  <2>2. CASE s # "daemon"
    <3>1. pipe'["daemon"] = pipe["daemon"]
      BY <2>2, <1>1 DEF Services
    <3>. QED BY <3>1 DEF QueueInv, Rounds
  <2>. QED BY <2>1, <2>2
<1>. QED BY <1>3, <1>4, <1>5 DEF QueueInv

LEMMA QueueInit == Init => QueueInv
<1>. SUFFICES ASSUME Init PROVE QueueInv
  OBVIOUS
<1>1. emitted = 0
  BY DEF Init, LogInit
<1>2. \A s \in Services : \A i \in DOMAIN pipe[s] :
        i = 1 /\ s = "daemon" /\ Past # <<>> /\ pipe[s][i] = PastWork
  <2>1. pipe = [s \in Services |-> IF s = "daemon" THEN Preload ELSE <<>>]
    BY DEF Init, LogInit
  <2>2. \A i \in DOMAIN Preload : i = 1 /\ Preload[i] = PastWork /\ Past # <<>>
    <3>1. CASE lists["ops"] # <<>> \/ Past = <<>>
      BY <3>1 DEF Preload
    <3>2. CASE ~(lists["ops"] # <<>> \/ Past = <<>>)
      BY <3>2, PreloadTypes
    <3>. QED BY <3>1, <3>2
  <2>. QED BY <2>1, <2>2
<1>3. Past # <<>> => WorkOK("daemon", PastWork) /\ Num(PastWork) <= 0 /\ Num(PastWork) \in Int
  BY PastWorkShape
<1>4. WorksOK
  BY <1>1, <1>2, <1>3 DEF WorksOK
<1>5. Apart
  BY <1>2 DEF Apart
<1>6. Rounds
  <2>1. \A i, j \in DOMAIN pipe["daemon"] : ~(i < j)
    <3>1. \A i \in DOMAIN pipe["daemon"] : i = 1
      BY <1>2 DEF Services
    <3>. QED BY <3>1
  <2>. QED BY <2>1 DEF Rounds
<1>. QED BY <1>4, <1>5, <1>6 DEF QueueInv

LEMMA NextQueueInv == LogTypeOK /\ QueueInv /\ [Next]_vars => QueueInv'
<1>. SUFFICES ASSUME LogTypeOK, QueueInv, [Next]_vars PROVE QueueInv'
  OBVIOUS
<1>1. ASSUME pipe' = pipe, emitted' = emitted
      PROVE  QueueInv'
  BY <1>1 DEF QueueInv, WorksOK, Apart, Rounds
<1>2. ASSUME NEW s \in Services, Resend(s)
      PROVE  QueueInv'
  BY <1>1, <1>2 DEF Resend
<1>. QED BY <1>1, <1>2, QueueSteps, QueueEmit, QueueReply, QueueAfresh

-----------------------------------------------------------------------------
(***************************************************************************)
(* What the steps do to the lists.                                         *)
(***************************************************************************)
LEMMA Executed ==
    ASSUME LogTypeOK, NEW w \in Task, Execute(w), NEW l \in Lists
    PROVE  /\ w.do = Push(l) => lists'[l] = <<w.msg>> \o lists[l] /\ said'[l] = <<w.msg>> \o said[l]
           /\ w.do = Trim(l) => /\ said'[l] = said[l]
                                /\ lists'[l] = IF Len(lists[l]) > MaxHistory + 1
                                               THEN SubSeq(lists[l], 1, MaxHistory + 1) ELSE lists[l]
           /\ w.do # Push(l) /\ w.do # Trim(l) => lists'[l] = lists[l] /\ said'[l] = said[l]
           /\ channel' = IF w.do = Publish THEN Append(channel, w.msg) ELSE channel
<1>1. /\ DOMAIN lists = Lists /\ DOMAIN said = Lists
      /\ lists = [k \in Lists |-> lists[k]] /\ said = [k \in Lists |-> said[k]]
  BY DEF LogTypeOK
<1>2. w.do \in Cmd
  BY DEF Task
<1>3. PICK k \in Lists : w.do = Push(k) \/ w.do = Trim(k) \/ w.do = Publish
  BY <1>2 DEF Cmd, Push, Trim, Lists
<1>4. CASE w.do = Push(k)
  <2>1. w.do.command = "lpush" /\ w.do.list = k
    BY <1>4 DEF Push
  <2>2. /\ lists' = [lists EXCEPT ![k] = <<w.msg>> \o @]
        /\ said' = [said EXCEPT ![k] = <<w.msg>> \o @]
        /\ channel' = channel
    BY <2>1 DEF Execute
  <2>. QED BY <1>1, <1>4, <2>2, CmdsDiffer
<1>5. CASE w.do = Trim(k)
  <2>1. w.do.command = "ltrim" /\ w.do.list = k
    BY <1>5 DEF Trim
  <2>2. /\ lists' = [lists EXCEPT ![k] = IF Len(@) > MaxHistory + 1 THEN SubSeq(@, 1, MaxHistory + 1) ELSE @]
        /\ said' = said
        /\ channel' = channel
    BY <2>1 DEF Execute
  <2>. QED BY <1>1, <1>5, <2>2, CmdsDiffer
<1>6. CASE w.do = Publish
  <2>1. w.do.command = "publish"
    BY <1>6 DEF Publish
  <2>2. lists' = lists /\ said' = said /\ channel' = Append(channel, w.msg)
    BY <2>1 DEF Execute
  <2>. QED BY <1>6, <2>2, CmdsDiffer
<1>. QED BY <1>3, <1>4, <1>5, <1>6

LEMMA ListStep ==
    ASSUME LogTypeOK, [Next]_vars, NEW l \in Lists
    PROVE  \/ lists'[l] = lists[l] /\ said'[l] = said[l]
           \/ /\ said'[l] = said[l] /\ Len(lists[l]) > MaxHistory + 1
              /\ lists'[l] = SubSeq(lists[l], 1, MaxHistory + 1)
           \/ \E s \in Services :
                /\ Reply(s) \/ Resend(s)
                /\ pipe[s] # <<>> /\ pipe[s][1][1].do = Push(l)
                /\ lists'[l] = <<pipe[s][1][1].msg>> \o lists[l]
                /\ said'[l] = <<pipe[s][1][1].msg>> \o said[l]
<1>1. ASSUME NEW s \in Services, Reply(s) \/ Resend(s)
      PROVE  \/ lists'[l] = lists[l] /\ said'[l] = said[l]
             \/ /\ said'[l] = said[l] /\ Len(lists[l]) > MaxHistory + 1
                /\ lists'[l] = SubSeq(lists[l], 1, MaxHistory + 1)
             \/ /\ pipe[s] # <<>> /\ pipe[s][1][1].do = Push(l)
                /\ lists'[l] = <<pipe[s][1][1].msg>> \o lists[l]
                /\ said'[l] = <<pipe[s][1][1].msg>> \o said[l]
  <2>1. pipe[s] # <<>> /\ Execute(Head(Head(pipe[s])))
    BY <1>1 DEF Reply, Resend
  <2>2. Execute(pipe[s][1][1]) /\ pipe[s][1][1] \in Task
    BY <2>1, FirstTask
  <2>. DEFINE w == pipe[s][1][1]
  <2>. HIDE DEF w
  <2>3. /\ w.do = Push(l) => lists'[l] = <<w.msg>> \o lists[l] /\ said'[l] = <<w.msg>> \o said[l]
        /\ w.do = Trim(l) => /\ said'[l] = said[l]
                             /\ lists'[l] = IF Len(lists[l]) > MaxHistory + 1
                                            THEN SubSeq(lists[l], 1, MaxHistory + 1) ELSE lists[l]
        /\ w.do # Push(l) /\ w.do # Trim(l) => lists'[l] = lists[l] /\ said'[l] = said[l]
    BY <2>2, Executed DEF w
  <2>. QED BY <2>1, <2>3 DEF w
<1>2. ASSUME UNCHANGED <<lists, said>> PROVE lists'[l] = lists[l] /\ said'[l] = said[l]
  BY <1>2
<1>. QED BY <1>1, <1>2, QueueSteps DEF Emit, Rejected, Restart, redisVars

\* What is pushed to a list.
LEMMA Pushed ==
    ASSUME NEW s \in Services, NEW w \in Seq(Task), w # <<>>, WorkOK(s, w), NEW l \in Lists,
           NEW k \in DOMAIN w, w[k].do = Push(l)
    PROVE  /\ w[k].msg \in Messages /\ w[k].msg.n \in Int
           /\ Num(w) > 0 => w[k].msg = w[1].msg
           /\ Num(w) <= 0 => w[k].msg.n <= 0 /\ l = "ops"
           /\ l # "ops" => w[k].msg.n > 0
           /\ l \in Accounts => w[k].msg.delegator = l
           /\ l = "ops" => /\ s = "daemon" /\ w[k].msg.voter # None /\ w[k].msg.delegator # None
                           /\ w[1].msg.voter # None
                           /\ w[k].msg.n <= 0 => w[k].msg \in ToSet(Past)
           /\ w[1].msg.n \in Int
<1>1. 1 \in DOMAIN w /\ w[1] \in Task /\ w[k] \in Task
  <2>1. 1 \in DOMAIN w
    BY TakeFirst
  <2>. QED BY <2>1, ElementsOf DEF ToSet
<1>2. w[1].msg \in Messages /\ w[k].msg \in Messages /\ w[1].msg.n \in Int /\ w[k].msg.n \in Int
  BY <1>1 DEF Task, Messages
<1>3. "ops" \in Lists /\ "ops" \notin Accounts
  BY AccountsAssumption DEF Lists
<1>4. CASE Num(w) > 0
  <2>1. EmissionOK(s, w)
    BY <1>4 DEF WorkOK
  <2>2. w[k].msg = w[1].msg /\ w[1].msg.n > 0
    BY <1>1, <1>4, <2>1 DEF EmissionOK, Num
  <2>3. l \in Accounts => w[1].msg.delegator = l
    BY <2>1 DEF EmissionOK
  <2>4. l = "ops" => w[1].msg.voter # None /\ s = "daemon" /\ w[1].msg.delegator # None
    BY <2>1 DEF EmissionOK
  <2>. QED BY <1>2, <1>4, <2>2, <2>3, <2>4 DEF Num
<1>5. CASE ~(Num(w) > 0)
  <2>1. Num(w) <= 0 /\ PastOK(s, w)
    BY <1>2, <1>5 DEF WorkOK, Num
  <2>2. \A m \in ToSet(Past) : m.n <= 0 /\ m.voter # None /\ m.delegator # None
    BY PastAssumption DEF ToSet
  <2>3. w[k].msg \in ToSet(Past) /\ w[1].msg \in ToSet(Past) /\ w[k].do \in {Push("ops"), Trim("ops")} /\ s = "daemon"
    BY <1>1, <2>1 DEF PastOK
  <2>4. l = "ops"
    BY <1>3, <2>3, CmdsDiffer
  <2>. QED BY <1>2, <1>3, <1>5, <2>1, <2>2, <2>3, <2>4
<1>. QED BY <1>4, <1>5

LEMMA PrefixPut ==
    ASSUME NEW S, NEW q \in Seq(S), NEW t \in Seq(S), NEW e \in S, IsPrefix(q, t)
    PROVE  IsPrefix(<<e>> \o q, <<e>> \o t)
<1>1. Len(q) <= Len(t) /\ \A i \in DOMAIN q : q[i] = t[i]
  BY PrefixByPlaces
<1>. DEFINE eq == <<e>> \o q
            et == <<e>> \o t
<1>2. /\ eq \in Seq(S) /\ Len(eq) = Len(q) + 1 /\ Len(q) \in Nat /\ eq[1] = e
      /\ \A i \in DOMAIN eq : i # 1 => i - 1 \in DOMAIN q /\ eq[i] = q[i - 1]
      /\ DOMAIN eq = 1 .. Len(q) + 1 /\ DOMAIN q = 1 .. Len(q)
  BY PutFirst
<1>3. /\ et \in Seq(S) /\ Len(et) = Len(t) + 1 /\ Len(t) \in Nat /\ et[1] = e
      /\ \A i \in DOMAIN et : i # 1 => i - 1 \in DOMAIN t /\ et[i] = t[i - 1]
      /\ DOMAIN et = 1 .. Len(t) + 1
  BY PutFirst
<1>. HIDE DEF eq, et
<1>4. \A i \in DOMAIN eq : eq[i] = et[i]
  <2>. SUFFICES ASSUME NEW i \in DOMAIN eq PROVE eq[i] = et[i]
    OBVIOUS
  <2>1. i \in DOMAIN et
    BY <1>1, <1>2, <1>3
  <2>2. CASE i = 1
    BY <2>2, <1>2, <1>3
  <2>3. CASE i # 1
    <3>1. eq[i] = q[i - 1] /\ et[i] = t[i - 1] /\ i - 1 \in DOMAIN q
      BY <2>1, <2>3, <1>2, <1>3
    <3>. QED BY <3>1, <1>1
  <2>. QED BY <2>2, <2>3
<1>5. Len(eq) <= Len(et)
  BY <1>1, <1>2, <1>3
<1>6. IsPrefix(eq, et)
  BY <1>2, <1>3, <1>4, <1>5, PrefixByPlaces
<1>. QED BY <1>6 DEF eq, et

LEMMA PrefixCut ==
    ASSUME NEW S, NEW q \in Seq(S), NEW t \in Seq(S), IsPrefix(q, t), NEW n \in Nat, n <= Len(q)
    PROVE  IsPrefix(SubSeq(q, 1, n), t)
<1>1. Len(q) <= Len(t) /\ \A i \in DOMAIN q : q[i] = t[i]
  BY PrefixByPlaces
<1>. DEFINE c == SubSeq(q, 1, n)
<1>2. c \in Seq(S) /\ Len(c) = n /\ DOMAIN c = 1 .. n /\ \A i \in 1 .. n : i \in DOMAIN q /\ c[i] = q[i]
  BY CutOff
<1>. HIDE DEF c
<1>3. \A i \in DOMAIN c : c[i] = t[i]
  BY <1>1, <1>2
<1>4. Len(c) <= Len(t)
  <2>1. Len(q) \in Nat /\ Len(t) \in Nat
    BY LenProperties
  <2>. QED BY <1>1, <1>2, <2>1
<1>5. IsPrefix(c, t)
  BY <1>2, <1>3, <1>4, PrefixByPlaces
<1>. QED BY <1>5 DEF c

-----------------------------------------------------------------------------
(***************************************************************************)
(* The lists hold the newest of what was pushed, and never too few.        *)
(***************************************************************************)
ListsKept ==
    \A l \in Lists : /\ IsPrefix(lists[l], said[l])
                     /\ Len(lists[l]) > MaxHistory \/ lists[l] = said[l]

LEMMA InitListsKept == Init => ListsKept
<1>. SUFFICES ASSUME Init, NEW l \in Lists
              PROVE  IsPrefix(lists[l], said[l]) /\ lists[l] = said[l]
  BY DEF ListsKept
<1>1. lists[l] = <<>> /\ said[l] = <<>>
  BY DEF Init, LogInit
<1>2. <<>> \in Seq(Messages) /\ Len(<<>>) <= Len(<<>>)
  OBVIOUS
<1>. QED BY <1>1, <1>2, PrefixByPlaces

LEMMA NextListsKept == LogTypeOK /\ QueueInv /\ ListsKept /\ [Next]_vars => ListsKept'
<1>. SUFFICES ASSUME LogTypeOK, QueueInv, ListsKept, [Next]_vars, NEW l \in Lists
              PROVE  /\ IsPrefix(lists'[l], said'[l])
                     /\ Len(lists'[l]) > MaxHistory \/ lists'[l] = said'[l]
  BY DEF ListsKept
<1>1. /\ lists[l] \in Seq(Messages) /\ said[l] \in Seq(Messages)
      /\ IsPrefix(lists[l], said[l])
      /\ Len(lists[l]) > MaxHistory \/ lists[l] = said[l]
      /\ MaxHistory \in Nat /\ Len(lists[l]) \in Nat
  BY LogBounds, LenProperties DEF LogTypeOK, ListsKept
<1>2. CASE lists'[l] = lists[l] /\ said'[l] = said[l]
  BY <1>1, <1>2
<1>3. CASE /\ said'[l] = said[l] /\ Len(lists[l]) > MaxHistory + 1
           /\ lists'[l] = SubSeq(lists[l], 1, MaxHistory + 1)
  <2>1. MaxHistory + 1 \in Nat /\ MaxHistory + 1 <= Len(lists[l])
    BY <1>1, <1>3
  <2>2. IsPrefix(lists'[l], said'[l]) /\ Len(lists'[l]) = MaxHistory + 1
    BY <1>1, <1>3, <2>1, PrefixCut, CutOff
  <2>. QED BY <1>1, <2>2
<1>4. ASSUME NEW s \in Services, pipe[s] # <<>>,
             lists'[l] = <<pipe[s][1][1].msg>> \o lists[l],
             said'[l] = <<pipe[s][1][1].msg>> \o said[l]
      PROVE  /\ IsPrefix(lists'[l], said'[l])
             /\ Len(lists'[l]) > MaxHistory \/ lists'[l] = said'[l]
  <2>. DEFINE m == pipe[s][1][1].msg
  <2>1. m \in Messages
    BY <1>4, FirstTask DEF Task
  <2>. HIDE DEF m
  <2>2. IsPrefix(<<m>> \o lists[l], <<m>> \o said[l]) /\ Len(<<m>> \o lists[l]) = Len(lists[l]) + 1
    BY <1>1, <2>1, PrefixPut, PutFirst
  <2>3. lists'[l] = <<m>> \o lists[l] /\ said'[l] = <<m>> \o said[l]
    BY <1>4 DEF m
  <2>4. CASE Len(lists[l]) > MaxHistory
    BY <1>1, <2>2, <2>3, <2>4
  <2>5. CASE lists[l] = said[l]
    BY <2>2, <2>3, <2>5
  <2>. QED BY <1>1, <2>4, <2>5
<1>. QED BY <1>2, <1>3, <1>4, ListStep

LEMMA ElementsTyped ==
    ASSUME NEW q \in Seq(Messages), NEW x \in ToSet(q)
    PROVE  x \in Messages /\ x.n \in Int
<1>1. x \in Messages
  BY ElementsOf
<1>. QED BY <1>1 DEF Messages

LEMMA DescendingPut ==
    ASSUME NEW q \in Seq(Messages), NEW m \in Messages, Descending(q), \A x \in ToSet(q) : x.n < m.n
    PROVE  Descending(<<m>> \o q)
<1>. DEFINE t == <<m>> \o q
<1>1. /\ DOMAIN t = 1 .. (Len(q) + 1) /\ Len(q) \in Nat /\ t[1] = m
      /\ \A i \in DOMAIN t : i # 1 => i - 1 \in DOMAIN q /\ t[i] = q[i - 1]
  BY PutFirst
<1>. HIDE DEF t
<1>2. \A x \in ToSet(q) : x.n \in Int
  BY ElementsTyped
<1>3. ASSUME NEW i \in DOMAIN t, NEW j \in DOMAIN t, i < j
      PROVE  t[i].n > t[j].n
  <2>1. i \in Nat \ {0} /\ j \in Nat \ {0} /\ j # 1
    BY <1>1, <1>3
  <2>2. j - 1 \in DOMAIN q /\ t[j] = q[j - 1]
    BY <1>1, <2>1
  <2>3. CASE i = 1
    <3>1. q[j - 1] \in ToSet(q)
      BY <2>2 DEF ToSet
    <3>2. q[j - 1].n < m.n /\ q[j - 1].n \in Int /\ m.n \in Int
      BY <3>1, <1>2 DEF Messages
    <3>3. t[i].n = m.n /\ t[j].n = q[j - 1].n
      BY <1>1, <2>2, <2>3
    <3>. QED BY <3>2, <3>3
  <2>4. CASE i # 1
    <3>1. i - 1 \in DOMAIN q /\ t[i] = q[i - 1] /\ i - 1 < j - 1
      BY <1>1, <1>3, <2>1, <2>4
    <3>. QED BY <2>2, <3>1 DEF Descending
  <2>. QED BY <2>3, <2>4
<1>. QED BY <1>3 DEF Descending, t

LEMMA DescendingPrefix ==
    ASSUME NEW q \in Seq(Messages), NEW t \in Seq(Messages), IsPrefix(q, t), Descending(t)
    PROVE  Descending(q)
<1>1. Len(q) <= Len(t) /\ \A i \in DOMAIN q : q[i] = t[i]
  BY PrefixByPlaces
<1>2. DOMAIN q \subseteq DOMAIN t
  BY <1>1, LenProperties
<1>. QED BY <1>1, <1>2 DEF Descending

-----------------------------------------------------------------------------
(***************************************************************************)
(* What has been pushed.                                                   *)
(***************************************************************************)
ListNumbers ==
    /\ \A l \in Lists : \A m \in ToSet(said[l]) : m.n <= emitted
    /\ \A l \in Lists \ {"ops"} : \A m \in ToSet(said[l]) : m.n > 0
    /\ \A a \in Accounts : \A m \in ToSet(said[a]) : m.delegator = a
    /\ \A m \in ToSet(said["ops"]) : m.voter # None /\ m.delegator # None
    /\ \A m \in ToSet(said["ops"]) : m.n <= 0 => m \in ToSet(Past)

LEMMA InitListNumbers == Init => ListNumbers
<1>. SUFFICES ASSUME Init PROVE ListNumbers
  OBVIOUS
<1>1. \A l \in Lists : said[l] = <<>>
  BY DEF Init, LogInit
<1>2. \A l \in Lists : \A m \in ToSet(said[l]) : FALSE
  BY <1>1 DEF ToSet
<1>3. "ops" \in Lists /\ \A a \in Accounts : a \in Lists
  BY DEF Lists
<1>. QED BY <1>2, <1>3 DEF ListNumbers

\* Numbers only grow.
LEMMA Grows == ASSUME LogTypeOK, [Next]_vars PROVE emitted' \in Nat /\ emitted <= emitted'
<1>1. emitted \in Nat
  BY DEF LogTypeOK
<1>2. emitted' = emitted \/ emitted' = emitted + 1
  BY QueueSteps DEF Emit, Reply, Resend, Rejected, Restart
<1>. QED BY <1>1, <1>2

LEMMA NextListNumbers == LogTypeOK /\ QueueInv /\ ListNumbers /\ [Next]_vars => ListNumbers'
<1>. SUFFICES ASSUME LogTypeOK, QueueInv, ListNumbers, [Next]_vars PROVE ListNumbers'
  OBVIOUS
<1>1. emitted \in Nat /\ emitted' \in Nat /\ emitted <= emitted'
  BY Grows DEF LogTypeOK
<1>2. \A l \in Lists : \A m \in ToSet(said[l]) : m.n \in Int
  BY ElementsTyped DEF LogTypeOK
<1>3. ASSUME NEW l \in Lists, NEW m \in ToSet(said'[l])
      PROVE  \/ m \in ToSet(said[l])
             \/ /\ m.n \in Int /\ m.n <= emitted'
                /\ l # "ops" => m.n > 0
                /\ l \in Accounts => m.delegator = l
                /\ l = "ops" => /\ m.voter # None /\ m.delegator # None
                                /\ m.n <= 0 => m \in ToSet(Past)
  <2>1. CASE said'[l] = said[l]
    BY <1>3, <2>1
  <2>2. ASSUME NEW s \in Services, pipe[s] # <<>>, pipe[s][1][1].do = Push(l),
               said'[l] = <<pipe[s][1][1].msg>> \o said[l]
        PROVE  \/ m \in ToSet(said[l])
               \/ /\ m.n \in Int /\ m.n <= emitted'
                  /\ l # "ops" => m.n > 0
                  /\ l \in Accounts => m.delegator = l
                  /\ l = "ops" => /\ m.voter # None /\ m.delegator # None
                                  /\ m.n <= 0 => m \in ToSet(Past)
    <3>. DEFINE h == pipe[s][1]
    <3>1. h \in Seq(Task) /\ h # <<>> /\ 1 \in DOMAIN h /\ h[1].msg \in Messages /\ h[1].msg.n \in Int
      <4>1. 1 \in DOMAIN pipe[s]
        BY <2>2, FirstTask
      <4>. QED BY <4>1, WorksTyped DEF Messages
    <3>2. WorkOK(s, h) /\ Num(h) <= emitted
      <4>1. 1 \in DOMAIN pipe[s]
        BY <2>2, FirstTask
      <4>. QED BY <4>1 DEF QueueInv, WorksOK
    <3>3. said'[l] = <<h[1].msg>> \o said[l] /\ h[1].do = Push(l)
      BY <2>2
    <3>. HIDE DEF h
    <3>4. m = h[1].msg \/ m \in ToSet(said[l])
      <4>1. ToSet(<<h[1].msg>> \o said[l]) = {h[1].msg} \cup ToSet(said[l])
        BY <3>1, PutFirst DEF LogTypeOK
      <4>. QED BY <1>3, <3>3, <4>1
    <3>5. /\ l # "ops" => h[1].msg.n > 0
          /\ l \in Accounts => h[1].msg.delegator = l
          /\ l = "ops" => h[1].msg.voter # None /\ h[1].msg.delegator # None
          /\ l = "ops" /\ h[1].msg.n <= 0 => h[1].msg \in ToSet(Past)
      BY <3>1, <3>2, <3>3, Pushed
    <3>6. h[1].msg.n <= emitted'
      BY <1>1, <3>1, <3>2 DEF Num
    <3>. QED BY <3>1, <3>4, <3>5, <3>6
  <2>. QED BY <2>1, <2>2, ListStep
<1>4. "ops" \in Lists /\ "ops" \notin Accounts /\ \A a \in Accounts : a \in Lists
  BY AccountsAssumption DEF Lists
<1>5. \A l \in Lists : \A m \in ToSet(said'[l]) : m.n <= emitted'
  BY <1>1, <1>2, <1>3 DEF ListNumbers
<1>6. \A l \in Lists \ {"ops"} : \A m \in ToSet(said'[l]) : m.n > 0
  BY <1>3 DEF ListNumbers
<1>7. \A a \in Accounts : \A m \in ToSet(said'[a]) : m.delegator = a
  BY <1>3, <1>4 DEF ListNumbers
<1>8. \A m \in ToSet(said'["ops"]) : m.voter # None /\ m.delegator # None
  BY <1>3, <1>4 DEF ListNumbers
<1>9. \A m \in ToSet(said'["ops"]) : m.n <= 0 => m \in ToSet(Past)
  BY <1>3, <1>4 DEF ListNumbers
<1>. QED BY <1>5, <1>6, <1>7, <1>8, <1>9 DEF ListNumbers

-----------------------------------------------------------------------------
(***************************************************************************)
(* The list of operations is in order.                                     *)
(***************************************************************************)
OpsInOrder ==
    "resent" \notin slips =>
        /\ Descending(said["ops"])
        /\ \A m \in ToSet(said["ops"]) : \A s \in Services : \A i \in DOMAIN pipe[s] :
              \A k \in DOMAIN pipe[s][i] :
                  pipe[s][i][k].do = Push("ops") => m.n < pipe[s][i][k].msg.n

LEMMA InitOpsInOrder == Init => OpsInOrder
<1>. SUFFICES ASSUME Init PROVE OpsInOrder
  OBVIOUS
<1>1. said["ops"] = <<>>
  BY DEF Init, LogInit, Lists
<1>2. \A m \in ToSet(said["ops"]) : FALSE
  BY <1>1 DEF ToSet
<1>3. Descending(said["ops"])
  BY <1>1 DEF Descending
<1>. QED BY <1>2, <1>3 DEF OpsInOrder

\* The commands of a work after a reply are commands it had before.
LEMMA CommandsStay ==
    ASSUME LogTypeOK, WorksOK, NEW s \in Services, Reply(s), NEW u \in Services, NEW i \in DOMAIN pipe'[u],
           NEW k \in DOMAIN pipe'[u][i]
    PROVE  \E j \in DOMAIN pipe[u] : \E c \in DOMAIN pipe[u][j] : pipe'[u][i][k] = pipe[u][j][c]
<1>. DEFINE j == Was(s, u, i)
<1>1. /\ j \in DOMAIN pipe[u]
      /\ IF u = s /\ j = 1
         THEN \A c \in DOMAIN pipe'[u][i] : c + 1 \in DOMAIN pipe[u][j] /\ pipe'[u][i][c] = pipe[u][j][c + 1]
         ELSE pipe'[u][i] = pipe[u][j]
  BY WorkAfterReply
<1>. HIDE DEF j
<1>. QED BY <1>1

\* An operation that is pushed is older than those whose push is still to come.
LEMMA OldestFirst ==
    ASSUME LogTypeOK, QueueInv, NEW s \in Services, Reply(s), pipe[s][1][1].do = Push("ops"),
           NEW u \in Services, NEW i \in DOMAIN pipe'[u], NEW k \in DOMAIN pipe'[u][i],
           pipe'[u][i][k].do = Push("ops")
    PROVE  pipe[s][1][1].msg.n < pipe'[u][i][k].msg.n
<1>. DEFINE h == pipe[s][1]
            o == pipe[u][Was(s, u, i)]
            w == pipe'[u][i]
<1>1. /\ Was(s, u, i) \in DOMAIN pipe[u]
      /\ WorkOK(u, o)
      /\ IF u = s /\ Was(s, u, i) = 1
         THEN \A c \in DOMAIN w : c + 1 \in DOMAIN o /\ w[c] = o[c + 1]
         ELSE w = o
  BY WorkAfterReply DEF QueueInv
<1>2. /\ 1 \in DOMAIN pipe[s] /\ h \in Seq(Task) /\ h # <<>> /\ 1 \in DOMAIN h /\ Num(h) \in Int
      /\ WorkOK(s, h) /\ DOMAIN h = 1 .. Len(h) /\ Len(h) \in Nat
  <2>1. 1 \in DOMAIN pipe[s]
    BY ReplyMoves
  <2>. QED BY <2>1, WorksTyped DEF QueueInv, WorksOK
<1>3. /\ o \in Seq(Task) /\ o # <<>> /\ 1 \in DOMAIN o /\ Num(o) \in Int
      /\ DOMAIN o = 1 .. Len(o) /\ Len(o) \in Nat /\ Was(s, u, i) \in Nat \ {0}
  BY <1>1, WorksTyped
<1>4. CASE u = s /\ Was(s, u, i) = 1
  <2>1. o = h
    BY <1>4
  <2>. HIDE DEF h, o, w
  <2>2. k + 1 \in DOMAIN h /\ w[k] = h[k + 1]
    BY <1>1, <1>4, <2>1 DEF w
  <2>3. 1 < k + 1
    <3>1. k \in Nat \ {0}
      <4>1. w = Tail(h)
        BY <1>4, <2>1, WorkAfterReply DEF QueueInv, w, o
      <4>2. DOMAIN Tail(h) = 1 .. (Len(h) - 1)
        BY <1>2, TakeFirst
      <4>. QED BY <4>1, <4>2, <1>2 DEF w
    <3>. QED BY <3>1
  <2>4. h[1].do = Push("ops") /\ h[k + 1].do = Push("ops")
    BY <2>2 DEF h, w
  <2>5. ~(Num(h) > 0)
    BY <1>2, <2>2, <2>3, <2>4 DEF WorkOK, EmissionOK
  <2>6. Num(h) <= 0 /\ PastOK(s, h)
    BY <1>2, <2>5 DEF WorkOK
  <2>7. h[1].msg.n < h[k + 1].msg.n
    BY <1>2, <2>2, <2>3, <2>4, <2>6 DEF PastOK
  <2>. QED BY <2>2, <2>7 DEF h, w
<1>5. CASE ~(u = s /\ Was(s, u, i) = 1)
  <2>1. w = o
    BY <1>1, <1>5
  <2>2. "ops" \in Lists
    BY DEF Lists
  <2>3. s = "daemon" /\ h[1].msg.voter # None
    BY <1>2, <2>2, Pushed
  <2>4. k \in DOMAIN o /\ o[k].do = Push("ops")
    BY <2>1
  <2>5. u = "daemon" /\ o[1].msg.voter # None /\ (Num(o) > 0 => o[k].msg = o[1].msg)
    BY <1>1, <1>3, <2>2, <2>4, Pushed
  <2>6. ~(Num(h) <= 0) /\ ~(Num(o) <= 0)
    BY <1>1, <1>2, <1>5, <2>3, <2>5 DEF QueueInv, Apart
  <2>7. InTurn(h, o)
    <3>1. 1 < Was(s, u, i)
      BY <1>3, <1>5, <2>3, <2>5
    <3>. QED BY <1>1, <1>2, <2>3, <2>5, <3>1 DEF QueueInv, Rounds
  <2>. HIDE DEF h, o, w
  <2>8. Num(h) > 0 /\ Num(o) > 0
    BY <1>2, <1>3, <2>6
  <2>9. 1 = Len(h) - 4 /\ k = Len(o) - 4
    <3>1. h[1].do = Push("ops")
      BY DEF h
    <3>. QED BY <1>1, <1>2, <2>4, <2>8, <3>1 DEF WorkOK, EmissionOK
  <2>10. k >= 1
    BY <1>3, <2>4
  <2>11. Num(h) < Num(o)
    BY <1>2, <1>3, <2>7, <2>9, <2>10 DEF InTurn
  <2>12. h[1].msg.n = Num(h) /\ w[k].msg.n = Num(o)
    BY <2>1, <2>5, <2>8 DEF Num
  <2>. QED BY <2>11, <2>12 DEF h, w
<1>. QED BY <1>4, <1>5

LEMMA NextOpsInOrder ==
    LogTypeOK /\ QueueInv /\ ListsKept /\ ListNumbers /\ OpsInOrder /\ [Next]_vars => OpsInOrder'
<1>. SUFFICES ASSUME LogTypeOK, QueueInv, ListsKept, ListNumbers, OpsInOrder, [Next]_vars, "resent" \notin slips'
              PROVE  /\ Descending(said'["ops"])
                     /\ \A m \in ToSet(said'["ops"]) : \A s \in Services : \A i \in DOMAIN pipe'[s] :
                           \A k \in DOMAIN pipe'[s][i] :
                               pipe'[s][i][k].do = Push("ops") => m.n < pipe'[s][i][k].msg.n
  BY DEF OpsInOrder
<1>. DEFINE Newer(m) == \A s \in Services : \A i \in DOMAIN pipe[s] : \A k \in DOMAIN pipe[s][i] :
                            pipe[s][i][k].do = Push("ops") => m.n < pipe[s][i][k].msg.n
            After(m) == \A s \in Services : \A i \in DOMAIN pipe'[s] : \A k \in DOMAIN pipe'[s][i] :
                            pipe'[s][i][k].do = Push("ops") => m.n < pipe'[s][i][k].msg.n
            Goal == /\ Descending(said'["ops"])
                    /\ \A m \in ToSet(said'["ops"]) : After(m)
<1>1. /\ Descending(said["ops"]) /\ \A m \in ToSet(said["ops"]) : Newer(m)
      /\ "ops" \in Lists /\ said["ops"] \in Seq(Messages)
  <2>1. "resent" \notin slips
    BY Steps
  <2>. QED BY <2>1 DEF OpsInOrder, Lists, LogTypeOK
<1>2. ASSUME NEW s \in Services, NEW what \in Says[s], Emit(s, what)
      PROVE  Goal
  <2>. DEFINE e == Message(emitted + 1, what.delegator, what.voter)
              w == Work(e, Commands(e))
  <2>1. /\ said' = said
        /\ e.n = emitted + 1
        /\ \A k \in DOMAIN w : w[k].msg = e
        /\ \A u \in Services : \A i \in DOMAIN pipe'[u] :
             \/ u = s /\ i = Len(pipe[s]) + 1 /\ pipe'[u][i] = w
             \/ i \in DOMAIN pipe[u] /\ pipe'[u][i] = pipe[u][i]
    <3>1. said' = said /\ e.n = emitted + 1
      BY <1>2, EmitMoves
    <3>2. \A k \in DOMAIN w : w[k].msg = e
      BY <1>2, EmitMoves
    <3>3. \A u \in Services : \A i \in DOMAIN pipe'[u] :
             \/ u = s /\ i = Len(pipe[s]) + 1 /\ pipe'[u][i] = w
             \/ i \in DOMAIN pipe[u] /\ pipe'[u][i] = pipe[u][i]
      BY <1>2, EmitMoves
    <3>. QED BY <3>1, <3>2, <3>3
  <2>. HIDE DEF e, w
  <2>2. \A m \in ToSet(said["ops"]) : m.n < e.n
    <3>1. \A m \in ToSet(said["ops"]) : m.n \in Int /\ m.n <= emitted
      BY <1>1, ElementsTyped DEF ListNumbers
    <3>2. emitted \in Nat
      BY DEF LogTypeOK
    <3>. QED BY <2>1, <3>1, <3>2
  <2>. QED BY <1>1, <2>1, <2>2
<1>3. ASSUME NEW s \in Services, Reply(s)
      PROVE  Goal
  <2>. DEFINE h == pipe[s][1]
  <2>1. ASSUME NEW m, Newer(m) PROVE After(m)
    <3>. SUFFICES ASSUME NEW u \in Services, NEW i \in DOMAIN pipe'[u], NEW k \in DOMAIN pipe'[u][i],
                         pipe'[u][i][k].do = Push("ops")
                  PROVE  m.n < pipe'[u][i][k].msg.n
      OBVIOUS
    <3>. QED BY <1>3, <2>1, CommandsStay DEF QueueInv
  <2>2. /\ h[1] \in Task /\ Execute(h[1]) /\ 1 \in DOMAIN pipe[s] /\ 1 \in DOMAIN h
    <3>1. /\ h[1] \in Task /\ Execute(h[1]) /\ 1 \in DOMAIN pipe[s]
      BY <1>3, ReplyMoves
    <3>. QED BY <3>1, WorksTyped
  <2>3. CASE h[1].do = Push("ops")
    <3>1. said'["ops"] = <<h[1].msg>> \o said["ops"]
      BY <1>1, <2>2, <2>3, Executed
    <3>2. h[1].msg \in Messages
      BY <2>2 DEF Task
    <3>3. \A m \in ToSet(said["ops"]) : m.n < h[1].msg.n
      BY <1>1, <2>2, <2>3
    <3>4. Descending(said'["ops"])
      BY <1>1, <3>1, <3>2, <3>3, DescendingPut
    <3>5. ToSet(said'["ops"]) = {h[1].msg} \cup ToSet(said["ops"])
      BY <1>1, <3>1, <3>2, PutFirst
    <3>6. After(h[1].msg)
      BY <1>3, <2>3, OldestFirst
    <3>. QED BY <1>1, <2>1, <3>4, <3>5, <3>6
  <2>4. CASE h[1].do # Push("ops")
    <3>1. said'["ops"] = said["ops"]
      BY <1>1, <2>2, <2>4, Executed
    <3>. QED BY <1>1, <2>1, <3>1
  <2>. QED BY <2>3, <2>4
<1>4. ASSUME NEW s \in Services, Resend(s)
      PROVE  FALSE
  BY <1>4 DEF Resend
<1>5. ASSUME NEW s \in Services, Rejected(s) \/ Restart(s)
      PROVE  Goal
  <2>1. /\ UNCHANGED <<lists, said>>
        /\ \A u \in Services : u # s => pipe'[u] = pipe[u]
        /\ \A i \in DOMAIN pipe'[s] : lists["ops"] = <<>>
    BY <1>5, Afresh
  <2>2. lists["ops"] = <<>> => said["ops"] = <<>>
    BY <1>1, LogBounds DEF ListsKept
  <2>3. said["ops"] = <<>> => \A m \in ToSet(said["ops"]) : FALSE
    BY DEF ToSet
  <2>. QED BY <1>1, <2>1, <2>2, <2>3
<1>6. CASE UNCHANGED <<lists, said, pipe, emitted>>
  BY <1>1, <1>6
<1>. QED BY <1>2, <1>3, <1>4, <1>5, <1>6, QueueSteps

-----------------------------------------------------------------------------
(***************************************************************************)
(* A list is too long by one entry at most per trim under way.             *)
(***************************************************************************)
TrimsDue ==
    slips \cap {"lost", "resent"} = {} =>
        \A l \in Lists : Len(lists[l]) <= MaxHistory + 1 + Cardinality(Pending(l))

LEMMA PendingIs ==
    ASSUME NEW l \in Lists, NEW m
    PROVE  m \in Pending(l) <=> \E s \in Services : \E i \in DOMAIN pipe[s] :
                                    pipe[s][i][1].do = Trim(l) /\ pipe[s][i][1].msg = m
BY DEF Pending

LEMMA PendingFinite ==
    ASSUME LogTypeOK, NEW l \in Lists
    PROVE  IsFiniteSet(Pending(l)) /\ Cardinality(Pending(l)) \in Nat
<1>. DEFINE D(s) == {i \in DOMAIN pipe[s] : pipe[s][i][1].do = Trim(l)}
            P(s) == {pipe[s][i][1].msg : i \in D(s)}
<1>1. ASSUME NEW s \in Services PROVE IsFiniteSet(P(s))
  <2>. DEFINE f == [i \in D(s) |-> pipe[s][i][1].msg]
  <2>1. DOMAIN pipe[s] = 1 .. Len(pipe[s]) /\ Len(pipe[s]) \in Nat
    BY LenProperties DEF LogTypeOK
  <2>2. IsFiniteSet(D(s))
    <3>1. IsFiniteSet(DOMAIN pipe[s])
      BY <2>1, FS_Interval
    <3>. QED BY <3>1, FS_Subset
  <2>3. f \in Surjection(D(s), P(s))
    BY DEF Surjection
  <2>. HIDE DEF f, D, P
  <2>. QED BY <2>2, <2>3, FS_Surjection
<1>2. Pending(l) = P("daemon") \cup P("publisher")
  BY DEF Pending, Services
<1>. HIDE DEF P
<1>3. IsFiniteSet(Pending(l))
  BY <1>1, <1>2, FS_Union DEF Services
<1>. QED BY <1>3, FS_CardinalityType

LEMMA PendingFiniteAfter ==
    LogTypeOK' => \A l \in Lists : IsFiniteSet(Pending(l)') /\ Cardinality(Pending(l)') \in Nat
<1>1. LogTypeOK => \A l \in Lists : IsFiniteSet(Pending(l)) /\ Cardinality(Pending(l)) \in Nat
  BY PendingFinite
<1>2. LogTypeOK' => (\A l \in Lists : IsFiniteSet(Pending(l)) /\ Cardinality(Pending(l)) \in Nat)'
  BY <1>1, PTL
<1>. QED BY <1>2

LEMMA InitTrimsDue == Init => TrimsDue
<1>. SUFFICES ASSUME Init, NEW l \in Lists
              PROVE  Len(lists[l]) <= MaxHistory + 1 + Cardinality(Pending(l))
  BY DEF TrimsDue
<1>1. Len(lists[l]) = 0
  BY DEF Init, LogInit
<1>2. Cardinality(Pending(l)) \in Nat /\ MaxHistory \in Nat
  BY InitLogTypeOK, PendingFinite, LogBounds
<1>. QED BY <1>1, <1>2

LEMMA NextTrimsDue == LogTypeOK /\ QueueInv /\ TrimsDue /\ [Next]_vars => TrimsDue'
<1>. SUFFICES ASSUME LogTypeOK, QueueInv, TrimsDue, [Next]_vars, slips' \cap {"lost", "resent"} = {},
                     NEW l \in Lists
              PROVE  Len(lists'[l]) <= MaxHistory + 1 + Cardinality(Pending(l)')
  BY DEF TrimsDue
<1>. DEFINE P == Pending(l)
            Q == Pending(l)'
<1>1. /\ Len(lists[l]) <= MaxHistory + 1 + Cardinality(P)
      /\ Len(lists[l]) \in Nat /\ MaxHistory \in Nat /\ lists[l] \in Seq(Messages)
  <2>1. slips \cap {"lost", "resent"} = {}
    BY Steps
  <2>2. lists[l] \in Seq(Messages)
    BY DEF LogTypeOK
  <2>. QED BY <2>1, <2>2, LogBounds, LenProperties DEF TrimsDue
<1>2. IsFiniteSet(P) /\ Cardinality(P) \in Nat /\ IsFiniteSet(Q) /\ Cardinality(Q) \in Nat
  <2>1. LogTypeOK'
    BY NextLogTypeOK
  <2>2. IsFiniteSet(Q) /\ Cardinality(Q) \in Nat
    BY <2>1, PendingFiniteAfter
  <2>. QED BY <2>2, PendingFinite
<1>3. \A m : /\ m \in P <=> \E s \in Services : \E i \in DOMAIN pipe[s] :
                                pipe[s][i][1].do = Trim(l) /\ pipe[s][i][1].msg = m
             /\ m \in Q <=> \E s \in Services : \E i \in DOMAIN pipe'[s] :
                                pipe'[s][i][1].do = Trim(l) /\ pipe'[s][i][1].msg = m
  BY DEF Pending
<1>. HIDE DEF P, Q
<1>4. ASSUME lists'[l] = lists[l], P \subseteq Q
      PROVE  Len(lists'[l]) <= MaxHistory + 1 + Cardinality(Q)
  <2>1. Cardinality(P) <= Cardinality(Q)
    BY <1>2, <1>4, FS_Subset
  <2>. QED BY <1>1, <1>2, <1>4, <2>1
<1>5. ASSUME NEW s \in Services, NEW what \in Says[s], Emit(s, what)
      PROVE  Len(lists'[l]) <= MaxHistory + 1 + Cardinality(Q)
  <2>1. lists' = lists /\ \A u \in Services : \A i \in DOMAIN pipe[u] :
                              i \in DOMAIN pipe'[u] /\ pipe'[u][i] = pipe[u][i]
    <3>1. lists' = lists
      BY <1>5, EmitMoves
    <3>2. \A u \in Services : \A i \in DOMAIN pipe[u] : i \in DOMAIN pipe'[u] /\ pipe'[u][i] = pipe[u][i]
      BY <1>5, EmitMoves
    <3>. QED BY <3>1, <3>2
  <2>2. P \subseteq Q
    BY <1>3, <2>1
  <2>. QED BY <1>4, <2>1, <2>2
<1>6. ASSUME NEW s \in Services, Reply(s)
      PROVE  Len(lists'[l]) <= MaxHistory + 1 + Cardinality(Q)
  <2>. DEFINE h == pipe[s][1]
  <2>1. /\ h[1] \in Task /\ Execute(h[1]) /\ h \in Seq(Task) /\ h # <<>> /\ 1 \in DOMAIN pipe[s]
        /\ \A u \in Services : \A j \in DOMAIN pipe[u] :
                ~(u = s /\ j = 1) => \E i \in DOMAIN pipe'[u] : pipe'[u][i] = pipe[u][j]
    <3>1. /\ h[1] \in Task /\ Execute(h[1]) /\ h \in Seq(Task) /\ h # <<>> /\ 1 \in DOMAIN pipe[s]
      BY <1>6, ReplyMoves
    <3>2. \A u \in Services : \A j \in DOMAIN pipe[u] :
                ~(u = s /\ j = 1) => \E i \in DOMAIN pipe'[u] : Was(s, u, i) = j
      BY <1>6, ReplyMoves
    <3>3. \A u \in Services : \A i \in DOMAIN pipe'[u] :
             ~(u = s /\ Was(s, u, i) = 1) => pipe'[u][i] = pipe[u][Was(s, u, i)]
      BY <1>6, ReplyMoves
    <3>. QED BY <3>1, <3>2, <3>3
  <2>2. CASE h[1].do = Trim(l)
    <3>1. lists'[l] = IF Len(lists[l]) > MaxHistory + 1
                      THEN SubSeq(lists[l], 1, MaxHistory + 1) ELSE lists[l]
      BY <2>1, <2>2, Executed
    <3>2. Len(lists'[l]) <= MaxHistory + 1 /\ Len(lists'[l]) \in Nat
      <4>1. CASE Len(lists[l]) > MaxHistory + 1
        <5>1. MaxHistory + 1 \in Nat /\ MaxHistory + 1 <= Len(lists[l])
          BY <1>1, <4>1
        <5>2. Len(SubSeq(lists[l], 1, MaxHistory + 1)) = MaxHistory + 1
          BY <1>1, <5>1, CutOff
        <5>. QED BY <3>1, <4>1, <5>1, <5>2
      <4>2. CASE ~(Len(lists[l]) > MaxHistory + 1)
        BY <1>1, <3>1, <4>2
      <4>. QED BY <4>1, <4>2
    <3>. QED BY <1>1, <1>2, <3>2
  <2>3. ASSUME h[1].do # Trim(l) PROVE P \subseteq Q
    BY <1>3, <2>1, <2>3
  <2>4. CASE h[1].do \notin {Push(l), Trim(l)}
    <3>1. lists'[l] = lists[l]
      BY <2>1, <2>4, Executed
    <3>. QED BY <1>4, <2>3, <2>4, <3>1
  <2>5. CASE h[1].do = Push(l)
    <3>1. h[1].do # Trim(l)
      BY <2>5, CmdsDiffer
    <3>2. lists'[l] = <<h[1].msg>> \o lists[l] /\ h[1].msg \in Messages
      <4>1. h[1].msg \in Messages
        BY <2>1 DEF Task
      <4>. QED BY <2>1, <2>5, <4>1, Executed
    <3>3. Len(lists'[l]) = Len(lists[l]) + 1
      BY <1>1, <3>2, PutFirst
    <3>4. WorkOK(s, h)
      BY <2>1 DEF QueueInv, WorksOK
    <3>5. h[1].msg \in Q
      <4>1. 2 \in DOMAIN h /\ h[2].msg = h[1].msg /\ h[2].do = Trim(l)
        <5>1. 1 \in DOMAIN h
          BY <2>1, TakeFirst
        <5>2. 1 + 1 \in DOMAIN h /\ h[1 + 1].msg = h[1].msg /\ h[1 + 1].do = Trim(l)
          BY <2>5, <3>4, <5>1 DEF WorkOK, PushesThenTrims
        <5>. QED BY <5>2
      <4>2. Tail(h) # <<>> /\ Tail(h)[1] = h[2]
        <5>1. /\ DOMAIN Tail(h) = 1 .. (Len(h) - 1) /\ DOMAIN h = 1 .. Len(h) /\ Len(h) \in Nat
              /\ \A i \in DOMAIN Tail(h) : Tail(h)[i] = h[i + 1]
          BY <2>1, TakeFirst
        <5>2. 1 \in DOMAIN Tail(h) /\ 1 + 1 = 2
          BY <4>1, <5>1
        <5>3. DOMAIN <<>> = {}
          OBVIOUS
        <5>. QED BY <5>1, <5>2, <5>3
      <4>3. Len(pipe[s]) \in DOMAIN pipe'[s] /\ pipe'[s][Len(pipe[s])] = Tail(h)
        BY <1>6, <4>2, ReplyMoves
      <4>. DEFINE e == pipe'[s][Len(pipe[s])]
      <4>4. e[1].do = Trim(l) /\ e[1].msg = h[1].msg
        BY <4>1, <4>2, <4>3
      <4>. QED BY <1>3, <4>3, <4>4
    <3>6. h[1].msg \notin P
      <4>. SUFFICES ASSUME h[1].msg \in P PROVE FALSE
        OBVIOUS
      <4>1. PICK u \in Services : \E i \in DOMAIN pipe[u] :
                pipe[u][i][1].do = Trim(l) /\ pipe[u][i][1].msg = h[1].msg
        BY <1>3
      <4>2. PICK i \in DOMAIN pipe[u] : pipe[u][i][1].do = Trim(l) /\ pipe[u][i][1].msg = h[1].msg
        BY <4>1
      <4>3. ~(u = s /\ i = 1)
        BY <3>1, <4>2
      <4>4. Num(pipe[u][i]) # Num(pipe[s][1])
        BY <2>1, <4>3 DEF QueueInv, Apart
      <4>. QED BY <4>2, <4>4 DEF Num
    <3>7. Cardinality(P) + 1 <= Cardinality(Q)
      <4>1. P \cup {h[1].msg} \subseteq Q
        BY <2>3, <3>1, <3>5
      <4>2. Cardinality(P \cup {h[1].msg}) = Cardinality(P) + 1
        BY <1>2, <3>6, FS_AddElement
      <4>3. Cardinality(P \cup {h[1].msg}) <= Cardinality(Q)
        BY <1>2, <4>1, FS_Subset
      <4>. QED BY <4>2, <4>3
    <3>. QED BY <1>1, <1>2, <3>3, <3>7
  <2>. QED BY <2>2, <2>4, <2>5
<1>7. ASSUME NEW s \in Services, Resend(s) \/ Rejected(s) \/ Restart(s)
      PROVE  FALSE
  BY <1>7 DEF Resend, Rejected, Restart
<1>8. ASSUME UNCHANGED <<lists, said, pipe, emitted>>
      PROVE  Len(lists'[l]) <= MaxHistory + 1 + Cardinality(Q)
  <2>1. P \subseteq Q
    BY <1>3, <1>8
  <2>. QED BY <1>4, <1>8, <2>1
<1>9. Len(lists'[l]) <= MaxHistory + 1 + Cardinality(Q)
  BY <1>5, <1>6, <1>7, <1>8, QueueSteps
<1>. QED BY <1>9 DEF Q

-----------------------------------------------------------------------------
ListsInv == LogTypeOK /\ QueueInv /\ ListsKept /\ ListNumbers /\ OpsInOrder /\ TrimsDue

LEMMA ListsInvariant == Spec => []ListsInv
<1>1. Init => ListsInv
  BY InitLogTypeOK, QueueInit, InitListsKept, InitListNumbers, InitOpsInOrder, InitTrimsDue
     DEF ListsInv
<1>2. ListsInv /\ [Next]_vars => ListsInv'
  BY NextLogTypeOK, NextQueueInv, NextListsKept, NextListNumbers, NextOpsInOrder, NextTrimsDue
     DEF ListsInv
<1>. QED BY <1>1, <1>2, PTL DEF Spec

(* Each list in Redis holds the newest of the entries pushed to it, as     *)
(* many as the bound asks for and one too many at most for each trim under *)
(* way; the operations in it are in the order of the emissions.            *)
THEOREM LiveLogNewestKept == Spec => []NewestKept
<1>1. ListsInv => NewestKept
  <2>. SUFFICES ASSUME ListsInv PROVE NewestKept
    OBVIOUS
  <2>1. \A l \in Lists :
         /\ IsPrefix(lists[l], said[l])
         /\ Len(lists[l]) > MaxHistory \/ lists[l] = said[l]
         /\ slips \cap {"lost", "resent"} = {} => Len(lists[l]) <= MaxHistory + 1 + Cardinality(Pending(l))
    BY DEF ListsInv, ListsKept, TrimsDue
  <2>2. "resent" \notin slips => Descending(lists["ops"])
    <3>1. "ops" \in Lists /\ lists["ops"] \in Seq(Messages) /\ said["ops"] \in Seq(Messages)
      BY DEF Lists, ListsInv, LogTypeOK
    <3>2. IsPrefix(lists["ops"], said["ops"])
      BY <2>1, <3>1
    <3>3. "resent" \notin slips => Descending(said["ops"])
      BY DEF ListsInv, OpsInOrder
    <3>. QED BY <3>1, <3>2, <3>3, DescendingPrefix
  <2>. QED BY <2>1, <2>2 DEF NewestKept
<1>. QED BY <1>1, ListsInvariant, PTL

-----------------------------------------------------------------------------
(***************************************************************************)
(* Messages with numbers of their own have an order.                       *)
(***************************************************************************)
Numbers(S) == \A x, y \in S : x.n = y.n => x = y

LEMMA NewestFirstIs ==
    ASSUME NEW S, IsFiniteSet(S), S \subseteq Messages, Numbers(S)
    PROVE  LET t == NewestFirst(S) IN
           /\ t \in Seq(Messages) /\ Len(t) = Cardinality(S) /\ ToSet(t) = S /\ Descending(t)
<1>. DEFINE N == Cardinality(S)
            up(m) == {x \in S : x.n >= m.n}
            rank(m) == Cardinality(up(m))
            f == [m \in S |-> rank(m)]
            t == NewestFirst(S)
<1>1. N \in Nat
  BY FS_CardinalityType
<1>2. \A m \in S : m.n \in Int
  BY DEF Messages
<1>3. \A m \in S : IsFiniteSet(up(m)) /\ rank(m) \in 1 .. N
  <2>. SUFFICES ASSUME NEW m \in S PROVE IsFiniteSet(up(m)) /\ rank(m) \in 1 .. N
    OBVIOUS
  <2>1. up(m) \subseteq S /\ m \in up(m)
    BY <1>2
  <2>. HIDE DEF up
  <2>2. IsFiniteSet(up(m)) /\ Cardinality(up(m)) <= N
    BY <2>1, FS_Subset
  <2>3. Cardinality(up(m)) \in Nat /\ Cardinality(up(m)) # 0
    BY <2>1, <2>2, FS_CardinalityType, FS_EmptySet
  <2>. QED BY <1>1, <2>2, <2>3
<1>4. \A x, y \in S : x.n > y.n => rank(x) < rank(y)
  <2>. SUFFICES ASSUME NEW x \in S, NEW y \in S, x.n > y.n PROVE rank(x) < rank(y)
    OBVIOUS
  <2>1. up(x) \subseteq up(y) /\ y \in up(y) /\ y \notin up(x)
    BY <1>2
  <2>. HIDE DEF up
  <2>2. Cardinality(up(x)) <= Cardinality(up(y)) /\ Cardinality(up(x)) # Cardinality(up(y))
    BY <1>3, <2>1, FS_Subset
  <2>. QED BY <1>3, <2>2
<1>. HIDE DEF up
<1>5. f \in Injection(S, 1 .. N)
  <2>1. f \in [S -> 1 .. N]
    BY <1>3
  <2>2. ASSUME NEW x \in S, NEW y \in S, rank(x) = rank(y) PROVE x = y
    <3>1. ~(rank(x) < rank(y)) /\ ~(rank(y) < rank(x))
      BY <1>3, <2>2
    <3>2. ~(x.n > y.n) /\ ~(y.n > x.n)
      BY <1>4, <3>1
    <3>3. x.n = y.n
      BY <1>2, <3>2
    <3>. QED BY <3>3 DEF Numbers
  <2>. HIDE DEF rank
  <2>. QED BY <2>1, <2>2 DEF Injection, IsInjective
<1>. HIDE DEF rank
<1>6. f \in Surjection(S, 1 .. N)
  <2>1. IsFiniteSet(1 .. N) /\ Cardinality(1 .. N) = N
    BY <1>1, FS_Interval
  <2>. HIDE DEF f
  <2>. QED BY <1>5, <2>1, FS_Injection
<1>7. \A k \in 1 .. N : \E m \in S : rank(m) = k
  BY <1>6 DEF Surjection
<1>8. \A x, y \in S : rank(x) = rank(y) => x = y
  BY <1>5 DEF Injection, IsInjective
<1>9. t = [k \in 1 .. N |-> CHOOSE m \in S : rank(m) = k]
  BY DEF NewestFirst, rank, up
<1>. HIDE DEF f, t
<1>10. \A k \in 1 .. N : t[k] \in S /\ rank(t[k]) = k
  BY <1>7, <1>9
<1>11. \A m \in S : t[rank(m)] = m
  BY <1>3, <1>8, <1>10
<1>12. t \in Seq(Messages) /\ Len(t) = N /\ DOMAIN t = 1 .. N
  <2>1. DOMAIN t = 1 .. N /\ t \in [1 .. N -> Messages]
    BY <1>9, <1>10
  <2>. HIDE DEF N
  <2>2. t \in Seq(Messages)
    BY <1>1, <2>1, SeqDef
  <2>3. Len(t) \in Nat /\ DOMAIN t = 1 .. Len(t)
    BY <2>2, LenProperties
  <2>. QED BY <1>1, <2>1, <2>2, <2>3
<1>13. ToSet(t) = S
  <2>1. \A m \in S : \E k \in DOMAIN t : t[k] = m
    BY <1>3, <1>11, <1>12
  <2>. QED BY <1>10, <1>12, <2>1 DEF ToSet
<1>14. Descending(t)
  <2>. SUFFICES ASSUME NEW i \in DOMAIN t, NEW j \in DOMAIN t, i < j PROVE t[i].n > t[j].n
    BY DEF Descending
  <2>1. /\ t[i] \in S /\ t[j] \in S /\ rank(t[i]) = i /\ rank(t[j]) = j
        /\ i \in 1 .. N /\ j \in 1 .. N
    BY <1>10, <1>12
  <2>2. ~(t[j].n > t[i].n)
    BY <1>1, <1>4, <2>1
  <2>3. t[i].n # t[j].n
    <3>1. t[i] # t[j]
      BY <2>1
    <3>. QED BY <2>1, <3>1 DEF Numbers
  <2>4. t[i].n \in Int /\ t[j].n \in Int
    BY <1>2, <2>1
  <2>. QED BY <2>2, <2>3, <2>4
<1>. QED BY <1>12, <1>13, <1>14 DEF t, N

LEMMA CappedIs ==
    ASSUME NEW q \in Seq(Messages), NEW n \in Nat \ {0}
    PROVE  LET c == Capped(q, n) IN
           /\ c \in Seq(Messages) /\ Len(c) <= n /\ Len(c) <= Len(q) /\ Len(c) \in Nat
           /\ ToSet(c) \subseteq ToSet(q)
           /\ Len(c) < n => c = q
           /\ \A i \in DOMAIN c : i \in DOMAIN q /\ c[i] = q[i]
           /\ q # <<>> => c # <<>>
<1>1. Len(q) \in Nat /\ DOMAIN q = 1 .. Len(q)
  BY LenProperties
<1>2. CASE Len(q) > n
  <2>. DEFINE c == SubSeq(q, 1, n)
  <2>1. Capped(q, n) = c
    BY <1>2 DEF Capped
  <2>2. n <= Len(q)
    BY <1>1, <1>2
  <2>3. /\ c \in Seq(Messages) /\ Len(c) = n /\ DOMAIN c = 1 .. n
        /\ \A i \in 1 .. n : i \in DOMAIN q /\ c[i] = q[i]
        /\ ToSet(c) \subseteq ToSet(q)
    BY <2>2, CutOff
  <2>. HIDE DEF c
  <2>4. c # <<>>
    BY <2>3
  <2>. QED BY <1>1, <1>2, <2>1, <2>3, <2>4
<1>3. CASE ~(Len(q) > n)
  <2>1. Capped(q, n) = q
    BY <1>3 DEF Capped
  <2>. QED BY <1>1, <1>3, <2>1
<1>. QED BY <1>2, <1>3

LEMMA DescendingCapped ==
    ASSUME NEW q \in Seq(Messages), NEW n \in Nat \ {0}, Descending(q)
    PROVE  Descending(Capped(q, n))
<1>1. \A i \in DOMAIN Capped(q, n) : i \in DOMAIN q /\ Capped(q, n)[i] = q[i]
  BY CappedIs
<1>. QED BY <1>1 DEF Descending

-----------------------------------------------------------------------------
(***************************************************************************)
(* A number names one message.                                             *)
(***************************************************************************)
Numbered ==
    /\ Numbers(Known)
    /\ \A s \in Services : \A i \in DOMAIN pipe[s] :
          Num(pipe[s][i]) > 0 => \A m \in Known : m.n = Num(pipe[s][i]) => m = pipe[s][i][1].msg

LEMMA PastTyped == IsFiniteSet(ToSet(Past)) /\ Numbers(ToSet(Past))
                   /\ \A m \in ToSet(Past) : m \in Messages /\ m.n \in Int /\ m.n <= 0 /\ m.voter # None
<1>1. IsFiniteSet(ToSet(Past))
  BY PastAssumption, ElementsOf
<1>2. \A m \in ToSet(Past) : m \in Messages /\ m.n \in Int
  BY PastAssumption, ElementsTyped
<1>3. \A m \in ToSet(Past) : m.n <= 0 /\ m.voter # None
  BY PastAssumption DEF ToSet
<1>4. Numbers(ToSet(Past))
  <2>. SUFFICES ASSUME NEW i \in DOMAIN Past, NEW j \in DOMAIN Past, Past[i].n = Past[j].n
                PROVE  Past[i] = Past[j]
    BY DEF Numbers, ToSet
  <2>1. i \in Int /\ j \in Int
    BY PastAssumption, LenProperties
  <2>2. Past[i] \in ToSet(Past) /\ Past[j] \in ToSet(Past)
    BY DEF ToSet
  <2>3. Past[i].n \in Int /\ Past[j].n \in Int
    BY <1>2, <2>2
  <2>4. ~(Past[i].n > Past[j].n) /\ ~(Past[j].n > Past[i].n)
    BY <2>3
  <2>5. ~(i < j) /\ ~(j < i)
    <3>1. \A x, y \in DOMAIN Past : x < y => Past[x].n > Past[y].n
      BY PastAssumption
    <3>. QED BY <2>4, <3>1
  <2>6. i = j
    BY <2>1, <2>5
  <2>. QED BY <2>6
<1>. QED BY <1>1, <1>2, <1>3, <1>4

LEMMA KnownTyped ==
    ASSUME LogTypeOK
    PROVE  /\ IsFiniteSet(Known) /\ Known \subseteq Messages /\ \A m \in Known : m.n \in Int
           /\ \A a : IsFiniteSet(KnownOf(a)) /\ KnownOf(a) \subseteq Known
<1>1. said["ops"] \in Seq(Messages)
  BY DEF LogTypeOK, Lists
<1>2. IsFiniteSet(ToSet(said["ops"])) /\ \A m \in ToSet(said["ops"]) : m \in Messages /\ m.n \in Int
  BY <1>1, ElementsOf, ElementsTyped
<1>3. IsFiniteSet(Known)
  BY <1>2, PastTyped, FS_Union DEF Known
<1>4. \A a : KnownOf(a) \subseteq Known
  BY DEF KnownOf
<1>5. \A a : IsFiniteSet(KnownOf(a))
  BY <1>3, <1>4, FS_Subset
<1>. QED BY <1>2, <1>3, <1>4, <1>5, PastTyped DEF Known

LEMMA InitNumbered == Init => Numbered
<1>. SUFFICES ASSUME Init PROVE Numbered
  OBVIOUS
<1>1. said["ops"] = <<>>
  BY DEF Init, LogInit, Lists
<1>2. Known = ToSet(Past)
  BY <1>1 DEF Known, ToSet
<1>3. \A s \in Services : \A i \in DOMAIN pipe[s] : \A m \in Known : Num(pipe[s][i]) > 0 => m.n # Num(pipe[s][i])
  <2>1. \A s \in Services : \A i \in DOMAIN pipe[s] : Num(pipe[s][i]) \in Int
    BY InitLogTypeOK, WorksTyped
  <2>. QED BY <1>2, <2>1, PastTyped
<1>. QED BY <1>2, <1>3, PastTyped DEF Numbered

\* What a step makes known.
LEMMA KnownStep ==
    ASSUME LogTypeOK, QueueInv, [Next]_vars
    PROVE  \/ Known' = Known
           \/ \E s \in Services :
                /\ Reply(s) \/ Resend(s)
                /\ pipe[s] # <<>> /\ pipe[s][1][1].do = Push("ops")
                /\ Num(pipe[s][1]) > 0
                /\ Known' = Known \cup {pipe[s][1][1].msg}
<1>1. "ops" \in Lists /\ said["ops"] \in Seq(Messages)
  BY DEF LogTypeOK, Lists
<1>2. CASE said'["ops"] = said["ops"]
  BY <1>2 DEF Known
<1>3. ASSUME NEW s \in Services, Reply(s) \/ Resend(s), pipe[s] # <<>>, pipe[s][1][1].do = Push("ops"),
             said'["ops"] = <<pipe[s][1][1].msg>> \o said["ops"]
      PROVE  Known' = Known \/ (Num(pipe[s][1]) > 0 /\ Known' = Known \cup {pipe[s][1][1].msg})
  <2>. DEFINE h == pipe[s][1]
              m == h[1].msg
  <2>1. 1 \in DOMAIN pipe[s]
    BY <1>3, FirstTask
  <2>2. h \in Seq(Task) /\ h # <<>> /\ 1 \in DOMAIN h /\ m \in Messages /\ Num(h) \in Int /\ WorkOK(s, h)
    BY <2>1, WorksTyped DEF QueueInv, WorksOK
  <2>3. said'["ops"] = <<m>> \o said["ops"] /\ h[1].do = Push("ops")
    BY <1>3
  <2>. HIDE DEF h
  <2>4. ToSet(said'["ops"]) = {m} \cup ToSet(said["ops"])
    <3>. HIDE DEF m
    <3>. QED BY <1>1, <2>2, <2>3, PutFirst
  <2>5. Known' = Known \cup {m}
    BY <2>4 DEF Known
  <2>6. ~(Num(h) > 0) => m \in Known
    <3>1. Num(h) <= 0 => m.n <= 0
      BY DEF Num
    <3>2. m.n <= 0 => m \in ToSet(Past)
      BY <1>1, <2>2, <2>3, Pushed
    <3>. QED BY <2>2, <3>1, <3>2 DEF Known
  <2>7. ~(Num(h) > 0) => Known' = Known
    BY <2>5, <2>6
  <2>. QED BY <2>5, <2>7 DEF h
<1>. QED BY <1>1, <1>2, <1>3, ListStep

LEMMA NextNumbered == LogTypeOK /\ QueueInv /\ ListNumbers /\ Numbered /\ [Next]_vars => Numbered'
<1>. SUFFICES ASSUME LogTypeOK, QueueInv, ListNumbers, Numbered, [Next]_vars PROVE Numbered'
  OBVIOUS
<1>1. Numbers(Known')
  <2>1. CASE Known' = Known
    BY <2>1 DEF Numbered
  <2>2. ASSUME NEW s \in Services, pipe[s] # <<>>, Num(pipe[s][1]) > 0,
               Known' = Known \cup {pipe[s][1][1].msg}
        PROVE  Numbers(Known')
    <3>1. 1 \in DOMAIN pipe[s]
      BY <2>2, FirstTask
    <3>2. \A m \in Known : m.n = pipe[s][1][1].msg.n => m = pipe[s][1][1].msg
      BY <2>2, <3>1 DEF Numbered, Num
    <3>. QED BY <2>2, <3>2 DEF Numbered, Numbers
  <2>. QED BY <2>1, <2>2, KnownStep
<1>. DEFINE Names(w, K) == Num(w) > 0 => \A m \in K : m.n = Num(w) => m = w[1].msg
<1>2. \A s \in Services : \A i \in DOMAIN pipe'[s] : Names(pipe'[s][i], Known')
  <2>0. \A s \in Services : \A i \in DOMAIN pipe[s] : Names(pipe[s][i], Known)
    BY DEF Numbered
  <2>1. ASSUME NEW s \in Services, NEW what \in Says[s], Emit(s, what)
        PROVE  \A u \in Services : \A i \in DOMAIN pipe'[u] : Names(pipe'[u][i], Known')
    <3>. DEFINE e == Message(emitted + 1, what.delegator, what.voter)
                w == Work(e, Commands(e))
    <3>1. said' = said /\ Num(w) = emitted + 1
      BY <2>1, EmitMoves
    <3>2. \A u \in Services : \A i \in DOMAIN pipe'[u] :
             \/ u = s /\ i = Len(pipe[s]) + 1 /\ pipe'[u][i] = w
             \/ i \in DOMAIN pipe[u] /\ pipe'[u][i] = pipe[u][i]
      BY <2>1, EmitMoves
    <3>. HIDE DEF w, e
    <3>3. Known' = Known
      BY <3>1 DEF Known
    <3>4. \A m \in Known : m.n # emitted + 1
      <4>1. emitted \in Nat /\ \A m \in Known : m.n \in Int
        BY KnownTyped DEF LogTypeOK
      <4>2. \A m \in Known : m.n <= emitted
        <5>1. \A m \in ToSet(said["ops"]) : m.n <= emitted
          BY DEF ListNumbers, Lists
        <5>2. \A m \in ToSet(Past) : m.n <= emitted
          BY <4>1, PastTyped
        <5>. QED BY <5>1, <5>2 DEF Known
      <4>. QED BY <4>1, <4>2
    <3>5. Names(w, Known)
      BY <3>1, <3>4
    <3>. HIDE DEF Names
    <3>. QED BY <2>0, <3>2, <3>3, <3>5
  <2>2. ASSUME NEW s \in Services, pipe[s] # <<>>, Num(pipe[s][1]) > 0,
               Known' = Known \cup {pipe[s][1][1].msg},
               NEW u \in Services, NEW j \in DOMAIN pipe[u]
        PROVE  Names(pipe[u][j], Known')
    <3>1. 1 \in DOMAIN pipe[s]
      BY <2>2, FirstTask
    <3>2. CASE u = s /\ j = 1
      BY <2>0, <2>2, <3>1, <3>2
    <3>3. CASE ~(u = s /\ j = 1)
      <4>1. Num(pipe[u][j]) # Num(pipe[s][1])
        BY <3>1, <3>3 DEF QueueInv, Apart
      <4>. QED BY <2>0, <2>2, <4>1 DEF Num
    <3>. QED BY <3>2, <3>3
  <2>3. \A u \in Services : \A j \in DOMAIN pipe[u] : Names(pipe[u][j], Known')
    BY <2>0, <2>2, KnownStep
  <2>4. ASSUME NEW s \in Services, Reply(s)
        PROVE  \A u \in Services : \A i \in DOMAIN pipe'[u] : Names(pipe'[u][i], Known')
    <3>. SUFFICES ASSUME NEW u \in Services, NEW i \in DOMAIN pipe'[u] PROVE Names(pipe'[u][i], Known')
      OBVIOUS
    <3>. DEFINE o == pipe[u][Was(s, u, i)]
                w == pipe'[u][i]
    <3>1. /\ Was(s, u, i) \in DOMAIN pipe[u]
          /\ Num(w) > 0 <=> Num(o) > 0
          /\ Num(o) > 0 => w[1].msg = o[1].msg /\ Num(w) = Num(o)
      BY <2>4, WorkAfterReply DEF QueueInv
    <3>2. Names(o, Known')
      BY <2>3, <3>1
    <3>. HIDE DEF o, w
    <3>3. Names(w, Known')
      BY <3>1, <3>2
    <3>. QED BY <3>3 DEF w
  <2>5. ASSUME NEW s \in Services, Rejected(s) \/ Restart(s)
        PROVE  \A u \in Services : \A i \in DOMAIN pipe'[u] : Names(pipe'[u][i], Known')
    <3>1. /\ \A u \in Services : u # s => pipe'[u] = pipe[u]
          /\ \A i \in DOMAIN pipe'[s] : Past # <<>> /\ pipe'[s][i] = PastWork
      BY <2>5, Afresh
    <3>2. Past # <<>> => Names(PastWork, Known')
      BY PastWorkShape
    <3>. HIDE DEF Names
    <3>. QED BY <2>3, <3>1, <3>2
  <2>6. ASSUME pipe' = pipe
        PROVE  \A u \in Services : \A i \in DOMAIN pipe'[u] : Names(pipe'[u][i], Known')
    BY <2>3, <2>6
  <2>. HIDE DEF Names
  <2>. QED BY <2>1, <2>4, <2>5, <2>6, QueueSteps DEF Resend
<1>. QED BY <1>1, <1>2 DEF Numbered

-----------------------------------------------------------------------------
(***************************************************************************)
(* The views.                                                              *)
(***************************************************************************)
LEMMA InitViewTypeOK == Init => ViewTypeOK
<1>. SUFFICES ASSUME Init PROVE ViewTypeOK
  OBVIOUS
<1>1. <<>> \in Seq(Messages) /\ None \in Rooms
  BY DEF Rooms
<1>2. page \in [view : Views \cup {"other"}, account : Rooms]
  BY <1>1 DEF Init, Page
<1>3. log \in [entries : Seq(Messages), loading : BOOLEAN, error : BOOLEAN]
  BY <1>1 DEF Init, Loading
<1>4. logRequests = {} /\ preload = {} /\ messages = <<>>
  BY DEF Init
<1>5. status \in [loading : BOOLEAN, connecting : BOOLEAN]
  BY DEF Init
<1>6. first \in [account : Rooms, mounted : BOOLEAN, set : BOOLEAN]
  BY <1>1 DEF Init
<1>. QED BY <1>1, <1>2, <1>3, <1>4, <1>5, <1>6 DEF ViewTypeOK

LEMMA RequestTypes ==
    /\ \A n \in Int, a \in Rooms : /\ Request(n, a) \in Requests /\ Request(n, a).for = a
                                   /\ ~Request(n, a).served
    /\ \A r \in Requests, q \in Seq(Messages) :
          /\ Served(r, q) \in Requests
          /\ Served(r, q).for = r.for /\ Served(r, q).served /\ Served(r, q).reply = q
<1>1. <<>> \in Seq(Messages)
  OBVIOUS
<1>2. ASSUME NEW n \in Int, NEW a \in Rooms
      PROVE  Request(n, a) \in Requests /\ Request(n, a).for = a /\ ~Request(n, a).served
  <2>1. Request(n, a) \in Requests
    BY <1>1 DEF Request, Requests
  <2>2. Request(n, a).for = a /\ ~Request(n, a).served
    BY DEF Request
  <2>. QED BY <2>1, <2>2
<1>3. ASSUME NEW r \in Requests, NEW q \in Seq(Messages)
      PROVE  /\ Served(r, q) \in Requests
             /\ Served(r, q).for = r.for /\ Served(r, q).served /\ Served(r, q).reply = q
  BY DEF Served, Requests
<1>. QED BY <1>2, <1>3

LEMMA PagesDiffer ==
    \A p \in Pages : /\ p \in [view : Views \cup {"other"}, account : Rooms]
                     /\ p.view = "log" \/ p.view = "history"
BY DEF Pages, Page, Views

LEMMA AppendTypes ==
    ASSUME ViewTypeOK, NEW q \in Seq(Messages), AppendMessages(q)
    PROVE  /\ messages' \in Seq(Messages) /\ messages' = Capped(q \o messages, TailLength)
           /\ q \o messages \in Seq(Messages)
           /\ messages # <<>> => messages' # <<>>
<1>1. messages \in Seq(Messages) /\ TailLength \in Nat \ {0}
  BY ViewBounds DEF ViewTypeOK
<1>2. /\ q \o messages \in Seq(Messages)
      /\ Len(q \o messages) = Len(q) + Len(messages) /\ Len(q) \in Nat /\ Len(messages) \in Nat
  BY <1>1
<1>3. messages # <<>> => q \o messages # <<>>
  <2>1. messages # <<>> => Len(messages) # 0
    BY <1>1
  <2>2. Len(<<>>) = 0
    OBVIOUS
  <2>. QED BY <1>2, <2>1, <2>2
<1>4. messages' = Capped(q \o messages, TailLength)
  BY DEF AppendMessages
<1>. QED BY <1>1, <1>2, <1>3, <1>4, CappedIs

\* The first packet of a socket.
LEMMA Packet ==
    ASSUME LogTypeOK, NEW v \in Views, sockets[v].inbox # <<>>,
           sockets' = [sockets EXCEPT ![v].inbox = Tail(@)]
    PROVE  /\ Head(sockets[v].inbox) \in Messages /\ sockets[v].inbox \in Seq(Messages)
           /\ sockets'[v].inbox = Tail(sockets[v].inbox)
           /\ \A u \in Views : /\ u # v => sockets'[u] = sockets[u]
                               /\ sockets'[u].room = sockets[u].room
                               /\ sockets'[u].open = sockets[u].open
                               /\ sockets'[u].joined = sockets[u].joined
<1>1. sockets \in [Views -> Socket] /\ sockets[v] \in Socket
  BY DEF LogTypeOK
<1>2. sockets[v].inbox \in Seq(Messages)
  BY <1>1 DEF Socket
<1>3. sockets' = [sockets EXCEPT ![v] = [sockets[v] EXCEPT !.inbox = Tail(sockets[v].inbox)]]
  BY <1>1 DEF Socket
<1>4. \A u \in Views : u # v => sockets'[u] = sockets[u]
  BY <1>1, <1>3
<1>5. sockets'[v] = [sockets[v] EXCEPT !.inbox = Tail(sockets[v].inbox)]
  BY <1>1, <1>3
<1>6. /\ sockets'[v].inbox = Tail(sockets[v].inbox) /\ sockets'[v].room = sockets[v].room
      /\ sockets'[v].open = sockets[v].open /\ sockets'[v].joined = sockets[v].joined
  BY <1>1, <1>5 DEF Socket
<1>7. Head(sockets[v].inbox) \in Messages
  BY <1>2, TakeFirst
<1>. QED BY <1>2, <1>4, <1>6, <1>7

LEMMA NextViewTypeOK == LogTypeOK /\ Numbered /\ ViewTypeOK /\ [Next]_vars => ViewTypeOK'
<1>. SUFFICES ASSUME LogTypeOK, Numbered, ViewTypeOK, [Next]_vars PROVE ViewTypeOK'
  OBVIOUS
<1>0. /\ page \in [view : Views \cup {"other"}, account : Rooms]
      /\ log \in [entries : Seq(Messages), loading : BOOLEAN, error : BOOLEAN]
      /\ logRequests \in SUBSET Requests
      /\ messages \in Seq(Messages)
      /\ status \in [loading : BOOLEAN, connecting : BOOLEAN]
      /\ first \in [account : Rooms, mounted : BOOLEAN, set : BOOLEAN]
      /\ preload \in SUBSET Requests /\ \A q, r \in preload : q = r
  BY DEF ViewTypeOK
<1>1. CASE Backend
  <2>1. UNCHANGED <<page, log, logRequests, messages, first, preload>>
    BY <1>1 DEF Backend, logViewVars
  <2>2. status' = [status EXCEPT !.connecting =
                     IF sockets'["history"].joined # sockets["history"].joined
                     THEN ~sockets'["history"].joined ELSE @]
    BY <1>1 DEF Backend
  <2>3. status' \in [loading : BOOLEAN, connecting : BOOLEAN]
    BY <1>0, <2>2
  <2>. QED BY <1>0, <2>1, <2>3 DEF ViewTypeOK
<1>2. ASSUME NEW p \in Pages, Open(p) PROVE ViewTypeOK'
  <2>1. /\ p \in [view : Views \cup {"other"}, account : Rooms]
        /\ p.account \in Rooms /\ page' = p /\ events' \in Int
    <3>1. events' = events + 1 /\ events \in Nat
      BY <1>2 DEF Open, Event, LogTypeOK
    <3>2. page' = p
      BY <1>2 DEF Open
    <3>3. p \in [view : Views \cup {"other"}, account : Rooms]
      BY PagesDiffer
    <3>4. p.account \in Rooms
      BY <3>3
    <3>5. events' \in Int
      BY <3>1
    <3>. QED BY <3>2, <3>3, <3>4, <3>5
  <2>2. Request(events', p.account) \in Requests
    BY <2>1, RequestTypes
  <2>3. Loading \in [entries : Seq(Messages), loading : BOOLEAN, error : BOOLEAN]
    <3>1. <<>> \in Seq(Messages)
      OBVIOUS
    <3>. QED BY <3>1 DEF Loading
  <2>4. /\ [first EXCEPT !.mounted = FALSE] \in [account : Rooms, mounted : BOOLEAN, set : BOOLEAN]
        /\ [first EXCEPT !.account = p.account] \in [account : Rooms, mounted : BOOLEAN, set : BOOLEAN]
        /\ [account |-> p.account, mounted |-> TRUE, set |-> TRUE] \in [account : Rooms, mounted : BOOLEAN, set : BOOLEAN]
    BY <1>0, <2>1
  <2>5. CASE /\ Reload(p)
             /\ first' = [first EXCEPT !.mounted = FALSE]
             /\ UNCHANGED <<messages, status, preload>>
    <3>1. log' = [log EXCEPT !.loading = TRUE, !.error = FALSE] \/ log' = Loading
      BY <2>5 DEF Reload
    <3>2. log' \in [entries : Seq(Messages), loading : BOOLEAN, error : BOOLEAN]
      BY <1>0, <2>3, <3>1
    <3>3. logRequests' \in SUBSET Requests
      BY <1>0, <2>2, <2>5 DEF Reload
    <3>4. first' \in [account : Rooms, mounted : BOOLEAN, set : BOOLEAN]
      BY <2>4, <2>5
    <3>. QED BY <1>0, <2>1, <2>5, <3>2, <3>3, <3>4 DEF ViewTypeOK
  <2>6. CASE SetParams(p) /\ log' = Loading /\ logRequests' = {}
    <3>1. CASE ~first.set
      <4>1. /\ first' = [account |-> p.account, mounted |-> TRUE, set |-> TRUE]
            /\ messages' = <<>>
            /\ status' = [status EXCEPT !.loading = TRUE]
            /\ preload' = {Request(events', p.account)}
        BY <2>6, <3>1 DEF SetParams
      <4>2. <<>> \in Seq(Messages) /\ status' \in [loading : BOOLEAN, connecting : BOOLEAN]
        <5>1. status' = [status EXCEPT !.loading = TRUE] /\ status \in [loading : BOOLEAN, connecting : BOOLEAN]
          BY <1>0, <4>1
        <5>2. status' \in [loading : BOOLEAN, connecting : BOOLEAN]
          BY <5>1
        <5>. QED BY <5>2
      <4>3. preload' \in SUBSET Requests /\ \A q, r \in preload' : q = r
        <5>. DEFINE r == Request(events', p.account)
        <5>1. r \in Requests /\ preload' = {r}
          BY <2>2, <4>1
        <5>. HIDE DEF r
        <5>. QED BY <5>1
      <4>4. messages' \in Seq(Messages) /\ logRequests' \in SUBSET Requests
        BY <2>6, <4>1, <4>2
      <4>5. first' \in [account : Rooms, mounted : BOOLEAN, set : BOOLEAN]
        BY <2>4, <4>1
      <4>6. log' \in [entries : Seq(Messages), loading : BOOLEAN, error : BOOLEAN]
        BY <2>3, <2>6
      <4>. QED BY <2>1, <4>2, <4>3, <4>4, <4>5, <4>6 DEF ViewTypeOK
    <3>2. CASE first.set
      <4>1. /\ \/ first' = [first EXCEPT !.account = p.account]
               \/ first' = [first EXCEPT !.mounted = FALSE]
            /\ UNCHANGED <<messages, status, preload>>
        BY <2>6, <3>2 DEF SetParams
      <4>. QED BY <1>0, <2>1, <2>3, <2>4, <2>6, <4>1 DEF ViewTypeOK
    <3>. QED BY <3>1, <3>2
  <2>. QED BY <1>2, <2>5, <2>6 DEF Open
<1>3. ASSUME NEW r, ServeLog(r) PROVE ViewTypeOK'
  <2>. DEFINE reply == lists[IF r.for = None THEN "general" ELSE r.for]
  <2>1. /\ r \in logRequests /\ logRequests' = (logRequests \ {r}) \cup {Served(r, reply)}
        /\ UNCHANGED <<page, log, messages, status, first, preload>>
    BY <1>3 DEF ServeLog, historyVars
  <2>2. reply \in Seq(Messages) /\ r \in Requests
    BY <1>0, <2>1 DEF Requests, Rooms, Lists, LogTypeOK
  <2>. HIDE DEF reply
  <2>3. Served(r, reply) \in Requests
    BY <2>2, RequestTypes
  <2>. QED BY <1>0, <2>1, <2>3 DEF ViewTypeOK
<1>4. ASSUME NEW r, LogAnswer(r) PROVE ViewTypeOK'
  <2>1. /\ r \in logRequests /\ logRequests' = logRequests \ {r}
        /\ log' = [entries |-> r.reply, loading |-> FALSE, error |-> FALSE]
        /\ UNCHANGED <<page, messages, status, first, preload>>
    BY <1>4 DEF LogAnswer, historyVars
  <2>2. r.reply \in Seq(Messages)
    BY <1>0, <2>1 DEF Requests
  <2>. QED BY <1>0, <2>1, <2>2 DEF ViewTypeOK
<1>5. CASE LogMessage
  <2>. DEFINE t == <<Head(sockets["log"].inbox)>> \o log.entries
  <2>1. /\ sockets["log"].inbox # <<>>
        /\ sockets' = [sockets EXCEPT !["log"].inbox = Tail(@)]
        /\ log' = [log EXCEPT !.entries = IF Len(t) > LogTail THEN Front(t) ELSE t]
        /\ UNCHANGED <<page, logRequests, messages, status, first, preload>>
    BY <1>5 DEF LogMessage, historyVars
  <2>2. Head(sockets["log"].inbox) \in Messages /\ log.entries \in Seq(Messages)
    BY <1>0, <2>1, Packet DEF Views
  <2>3. t \in Seq(Messages) /\ Len(t) \in Nat \ {0}
    BY <2>2, PutFirst
  <2>. HIDE DEF t
  <2>4. Front(t) \in Seq(Messages)
    <3>1. Len(t) - 1 \in Nat /\ Len(t) - 1 <= Len(t)
      BY <2>3
    <3>. QED BY <2>3, <3>1, CutOff DEF Front
  <2>5. log' \in [entries : Seq(Messages), loading : BOOLEAN, error : BOOLEAN]
    BY <1>0, <2>1, <2>3, <2>4
  <2>. QED BY <1>0, <2>1, <2>5 DEF ViewTypeOK
<1>6. ASSUME NEW r, ServePreload(r) PROVE ViewTypeOK'
  <2>. DEFINE t == NewestFirst(KnownOf(r.for))
  <2>1. /\ r \in preload /\ preload' = {Served(r, Capped(t, TailLength))}
        /\ UNCHANGED <<page, log, logRequests, messages, status, first>>
    BY <1>6 DEF ServePreload, logViewVars
  <2>2. t \in Seq(Messages)
    <3>1. /\ IsFiniteSet(KnownOf(r.for)) /\ KnownOf(r.for) \subseteq Messages
          /\ Numbers(KnownOf(r.for))
      BY KnownTyped DEF Numbered, Numbers
    <3>. QED BY <3>1, NewestFirstIs
  <2>. HIDE DEF t
  <2>3. Capped(t, TailLength) \in Seq(Messages)
    BY <2>2, ViewBounds, CappedIs
  <2>4. Served(r, Capped(t, TailLength)) \in Requests
    BY <1>0, <2>1, <2>3, RequestTypes
  <2>. QED BY <1>0, <2>1, <2>4 DEF ViewTypeOK
<1>7. ASSUME NEW r, PreloadAnswer(r) PROVE ViewTypeOK'
  <2>1. /\ r \in preload /\ preload' = {} /\ AppendMessages(r.reply)
        /\ status' = [status EXCEPT !.loading = FALSE]
        /\ UNCHANGED <<page, log, logRequests, first>>
    BY <1>7 DEF PreloadAnswer, logViewVars
  <2>2. r.reply \in Seq(Messages)
    BY <1>0, <2>1 DEF Requests
  <2>3. messages' \in Seq(Messages)
    BY <2>1, <2>2, AppendTypes
  <2>4. status' \in [loading : BOOLEAN, connecting : BOOLEAN]
    BY <1>0, <2>1
  <2>. QED BY <1>0, <2>1, <2>3, <2>4 DEF ViewTypeOK
<1>8. CASE HistoryMessage
  <2>. DEFINE m == Head(sockets["history"].inbox)
  <2>1. /\ sockets["history"].inbox # <<>>
        /\ sockets' = [sockets EXCEPT !["history"].inbox = Tail(@)]
        /\ AppendMessages(<<m>>) \/ messages' = messages
        /\ UNCHANGED <<page, log, logRequests, status, first, preload>>
    BY <1>8 DEF HistoryMessage, logViewVars
  <2>2. m \in Messages
    BY <2>1, Packet DEF Views
  <2>. HIDE DEF m
  <2>3. <<m>> \in Seq(Messages)
    BY <2>2
  <2>4. messages' \in Seq(Messages)
    BY <1>0, <2>1, <2>3, AppendTypes
  <2>. QED BY <1>0, <2>1, <2>4 DEF ViewTypeOK
<1>9. ASSUME NEW r, RequestFails(r) PROVE ViewTypeOK'
  <2>1. /\ logRequests' = logRequests \ {r}
        /\ preload' = preload \ {r}
        /\ log' = IF r \in logRequests THEN [log EXCEPT !.loading = FALSE, !.error = TRUE] ELSE log
        /\ status' = IF r \in preload THEN [status EXCEPT !.loading = FALSE] ELSE status
        /\ UNCHANGED <<page, messages, first>>
    BY <1>9 DEF RequestFails
  <2>2. log' \in [entries : Seq(Messages), loading : BOOLEAN, error : BOOLEAN]
    BY <1>0, <2>1
  <2>3. status' \in [loading : BOOLEAN, connecting : BOOLEAN]
    BY <1>0, <2>1
  <2>. QED BY <1>0, <2>1, <2>2, <2>3 DEF ViewTypeOK
<1>10. CASE UNCHANGED vars
  BY <1>0, <1>10 DEF vars, viewVars, logViewVars, historyVars, ViewTypeOK
<1>. QED BY <1>1, <1>2, <1>3, <1>4, <1>5, <1>6, <1>7, <1>8, <1>9, <1>10 DEF Next

LEMMA ViewsInvariant == Spec => [](ListsInv /\ Numbered /\ ViewTypeOK)
<1>1. Init => ListsInv /\ Numbered /\ ViewTypeOK
  BY InitLogTypeOK, QueueInit, InitListsKept, InitListNumbers, InitOpsInOrder, InitTrimsDue,
     InitNumbered,
     InitViewTypeOK DEF ListsInv
<1>2. ListsInv /\ Numbered /\ ViewTypeOK /\ [Next]_vars => (ListsInv /\ Numbered /\ ViewTypeOK)'
  BY NextLogTypeOK, NextQueueInv, NextListsKept, NextListNumbers, NextOpsInOrder, NextTrimsDue,
     NextNumbered,
     NextViewTypeOK DEF ListsInv
<1>. QED BY <1>1, <1>2, PTL DEF Spec

-----------------------------------------------------------------------------
\* One request loads the history, and only its answer ends it.
LEMMA LoadedOnce ==
    ASSUME LogTypeOK, ViewTypeOK, [Next]_vars, first.set
    PROVE  /\ Cardinality(preload') <= Cardinality(preload)
           /\ sockets'["history"].room = sockets["history"].room
           /\ messages # <<>> => messages' # <<>>
<1>1. IsFiniteSet(preload) /\ Cardinality(preload) \in Nat
  <2>1. preload = {} \/ \E r : preload = {r}
    <3>1. \A q, r \in preload : q = r
      BY DEF ViewTypeOK
    <3>2. ASSUME NEW r \in preload PROVE preload = {r}
      BY <3>1
    <3>. QED BY <3>2
  <2>2. IsFiniteSet(preload)
    BY <2>1, FS_EmptySet, FS_Singleton
  <2>. QED BY <2>2, FS_CardinalityType
<1>2. ASSUME preload' \subseteq preload PROVE Cardinality(preload') <= Cardinality(preload)
  BY <1>1, <1>2, FS_Subset
<1>3. sockets \in [Views -> Socket] /\ "history" \in Views /\ "log" \in Views /\ "history" # "log"
  BY DEF LogTypeOK, Views
<1>. DEFINE Goal == /\ Cardinality(preload') <= Cardinality(preload)
                    /\ sockets'["history"].room = sockets["history"].room
                    /\ messages # <<>> => messages' # <<>>
<1>4. CASE Backend
  <2>1. preload' = preload /\ messages' = messages
    BY <1>4 DEF Backend
  <2>2. sockets'["history"].room = sockets["history"].room
    <3>1. CASE sockets' = sockets
      BY <3>1
    <3>2. CASE Dispatch
      <4>1. \/ sockets'["history"] = [sockets["history"] EXCEPT !.inbox = Append(@, Head(channel))]
            \/ sockets'["history"] = sockets["history"]
        BY <1>3, <3>2 DEF Dispatch
      <4>. QED BY <1>3, <4>1 DEF Socket
    <3>3. CASE RealtimeRestart
      <4>1. sockets'["history"] = [sockets["history"] EXCEPT !.joined = FALSE, !.inbox = <<>>]
        BY <1>3, <3>3 DEF RealtimeRestart
      <4>. QED BY <1>3, <4>1 DEF Socket
    <3>4. ASSUME NEW v \in Views, Join(v) PROVE sockets'["history"].room = sockets["history"].room
      BY <1>3, <3>4 DEF Join, Socket
    <3>. QED BY <1>4, <3>1, <3>2, <3>3, <3>4 DEF Backend, LogNext, Emit, Reply, Resend, Rejected,
                Restart
  <2>. QED BY <1>2, <2>1, <2>2
<1>5. ASSUME NEW p \in Pages, Open(p) PROVE Goal
  <2>1. UNCHANGED <<messages, preload>>
    BY <1>5 DEF Open, SetParams
  <2>2. sockets'["history"] = sockets["history"]
    BY <1>3, <1>5 DEF Open
  <2>. QED BY <1>2, <2>1, <2>2
<1>6. ASSUME NEW r, ServeLog(r) \/ LogAnswer(r) PROVE Goal
  BY <1>2, <1>6 DEF ServeLog, LogAnswer, logVars, historyVars
<1>7. ASSUME NEW r, ServePreload(r) PROVE Goal
  <2>1. /\ r \in preload /\ preload' = {Served(r, Capped(NewestFirst(KnownOf(r.for)), TailLength))}
        /\ UNCHANGED <<sockets, messages>>
    BY <1>7 DEF ServePreload
  <2>2. preload = {r}
    BY <2>1 DEF ViewTypeOK
  <2>3. Cardinality(preload') = 1 /\ Cardinality(preload) = 1
    BY <2>1, <2>2, FS_Singleton
  <2>. QED BY <2>1, <2>3
<1>8. ASSUME NEW r, PreloadAnswer(r) PROVE Goal
  <2>1. r \in preload /\ preload' = {} /\ AppendMessages(r.reply) /\ UNCHANGED sockets
    BY <1>8 DEF PreloadAnswer, logVars
  <2>2. r.reply \in Seq(Messages)
    BY <2>1 DEF ViewTypeOK, Requests
  <2>. QED BY <1>2, <2>1, <2>2, AppendTypes
<1>9. CASE HistoryMessage
  <2>. DEFINE m == Head(sockets["history"].inbox)
  <2>1. /\ sockets["history"].inbox # <<>>
        /\ sockets' = [sockets EXCEPT !["history"].inbox = Tail(@)]
        /\ AppendMessages(<<m>>) \/ messages' = messages
        /\ preload' = preload
    BY <1>9 DEF HistoryMessage
  <2>2. m \in Messages /\ sockets'["history"].room = sockets["history"].room
    BY <1>3, <2>1, Packet
  <2>. HIDE DEF m
  <2>3. <<m>> \in Seq(Messages)
    BY <2>2
  <2>. QED BY <1>2, <2>1, <2>2, <2>3, AppendTypes
<1>10. CASE LogMessage
  <2>1. /\ sockets["log"].inbox # <<>>
        /\ sockets' = [sockets EXCEPT !["log"].inbox = Tail(@)]
        /\ UNCHANGED <<messages, preload>>
    BY <1>10 DEF LogMessage, historyVars
  <2>2. sockets'["history"].room = sockets["history"].room
    BY <1>3, <2>1, Packet
  <2>. QED BY <1>2, <2>1, <2>2
<1>11. ASSUME NEW r, RequestFails(r) PROVE Goal
  BY <1>2, <1>11 DEF RequestFails
<1>12. CASE UNCHANGED vars
  BY <1>2, <1>12 DEF vars, logVars, viewVars, historyVars
<1>13. Goal
  BY <1>4, <1>5, <1>6, <1>7, <1>8, <1>9, <1>10, <1>11, <1>12 DEF Next
<1>. QED BY <1>13

(* Once the history has been loaded or is being loaded, no step loads      *)
(* another, opens another socket for it or clears what it shows.           *)
THEOREM LiveLogHistoryLoadedOnce == Spec => HistoryLoadedOnce
<1>1. LogTypeOK /\ ViewTypeOK /\ [Next]_vars =>
        [first.set => /\ Cardinality(preload') <= Cardinality(preload)
                      /\ sockets'["history"].room = sockets["history"].room
                      /\ messages # <<>> => messages' # <<>>]_vars
  BY LoadedOnce
<1>2. ListsInv => LogTypeOK
  BY DEF ListsInv
<1>. QED BY <1>1, <1>2, ViewsInvariant, PTL DEF Spec, HistoryLoadedOnce

-----------------------------------------------------------------------------
(***************************************************************************)
(* What a list has is not pushed to it again, unless by a command sent     *)
(* twice.                                                                  *)
(***************************************************************************)
PushedOnce ==
    "resent" \notin slips =>
        \A l \in Lists \ {"ops"} :
            /\ NoDuplicates(said[l])
            /\ \A m \in ToSet(said[l]) : \A s \in Services : \A i \in DOMAIN pipe[s] :
                  \A k \in DOMAIN pipe[s][i] :
                      pipe[s][i][k].do = Push(l) => m # pipe[s][i][k].msg

LEMMA InitPushedOnce == Init => PushedOnce
<1>. SUFFICES ASSUME Init, NEW l \in Lists
              PROVE  NoDuplicates(said[l]) /\ \A m \in ToSet(said[l]) : FALSE
  BY DEF PushedOnce
<1>1. said[l] = <<>>
  BY DEF Init, LogInit
<1>. QED BY <1>1 DEF NoDuplicates, ToSet

LEMMA NoDuplicatesPut ==
    ASSUME NEW q \in Seq(Messages), NEW m \in Messages, NoDuplicates(q), \A x \in ToSet(q) : x # m
    PROVE  NoDuplicates(<<m>> \o q)
<1>. DEFINE t == <<m>> \o q
<1>1. /\ t[1] = m
      /\ \A i \in DOMAIN t : i # 1 => i - 1 \in DOMAIN q /\ t[i] = q[i - 1]
      /\ DOMAIN t = 1 .. (Len(q) + 1) /\ Len(q) \in Nat
  BY PutFirst
<1>2. \A i \in DOMAIN q : q[i] # m
  BY DEF ToSet
<1>. HIDE DEF t
<1>3. ASSUME NEW i \in DOMAIN t, NEW j \in DOMAIN t, i # j PROVE t[i] # t[j]
  <2>1. CASE i = 1 \/ j = 1
    BY <1>1, <1>2, <1>3, <2>1
  <2>2. CASE i # 1 /\ j # 1
    <3>1. i - 1 # j - 1
      BY <1>1, <1>3
    <3>. QED BY <1>1, <2>2, <3>1 DEF NoDuplicates
  <2>. QED BY <2>1, <2>2
<1>. QED BY <1>3 DEF NoDuplicates, t

LEMMA NoDuplicatesPrefix ==
    ASSUME NEW q \in Seq(Messages), NEW t \in Seq(Messages), IsPrefix(q, t), NoDuplicates(t)
    PROVE  NoDuplicates(q)
<1>1. Len(q) <= Len(t) /\ \A i \in DOMAIN q : q[i] = t[i]
  BY PrefixByPlaces
<1>2. \A i \in DOMAIN q : i \in DOMAIN t
  BY <1>1
<1>. QED BY <1>1, <1>2 DEF NoDuplicates

\* What is still to be pushed to a list is not what is pushed now.
LEMMA OthersPushed ==
    ASSUME LogTypeOK, QueueInv, NEW s \in Services, Reply(s), NEW l \in Lists \ {"ops"},
           pipe[s][1][1].do = Push(l),
           NEW u \in Services, NEW i \in DOMAIN pipe'[u], NEW k \in DOMAIN pipe'[u][i],
           pipe'[u][i][k].do = Push(l)
    PROVE  pipe[s][1][1].msg # pipe'[u][i][k].msg
<1>. DEFINE h == pipe[s][1]
            o == pipe[u][Was(s, u, i)]
            w == pipe'[u][i]
<1>0. /\ u = s /\ Was(s, u, i) = 1 =>
           w = Tail(o) /\ \A c \in DOMAIN w : c + 1 \in DOMAIN o /\ w[c] = o[c + 1]
      /\ ~(u = s /\ Was(s, u, i) = 1) => w = o
  <2>. DEFINE j == Was(s, u, i)
  <2>1. IF u = s /\ j = 1
        THEN \A c \in DOMAIN w : c + 1 \in DOMAIN o /\ w[c] = o[c + 1]
        ELSE w = o
    BY WorkAfterReply DEF QueueInv
  <2>2. u = s /\ j = 1 => w = Tail(o)
    <3>. SUFFICES ASSUME u = s, Was(s, u, i) = 1 PROVE pipe'[u][i] = Tail(pipe[u][1])
      OBVIOUS
    <3>1. pipe'[u][i] = Tail(pipe[s][1])
      BY ReplyMoves
    <3>. QED BY <3>1
  <2>. HIDE DEF j, o, w
  <2>3. /\ u = s /\ j = 1 =>
             w = Tail(o) /\ \A c \in DOMAIN w : c + 1 \in DOMAIN o /\ w[c] = o[c + 1]
        /\ ~(u = s /\ j = 1) => w = o
    BY <2>1, <2>2
  <2>. QED BY <2>3 DEF j
<1>1. Was(s, u, i) \in DOMAIN pipe[u] /\ WorkOK(u, o)
  BY WorkAfterReply DEF QueueInv
<1>2. 1 \in DOMAIN pipe[s]
  BY FirstTask DEF Reply
<1>3. /\ h \in Seq(Task) /\ h # <<>> /\ 1 \in DOMAIN h /\ Num(h) \in Int /\ WorkOK(s, h)
      /\ DOMAIN h = 1 .. Len(h) /\ Len(h) \in Nat \ {0}
  BY <1>2, WorksTyped DEF QueueInv, WorksOK
<1>4. o \in Seq(Task) /\ o # <<>>
  BY <1>1, WorksTyped
<1>5. h[1].do = Push(l) /\ w[k].do = Push(l)
  OBVIOUS
<1>6. Num(h) > 0
  <2>. HIDE DEF h, o, w
  <2>1. h[1].msg.n > 0
    BY <1>3, <1>5, Pushed
  <2>. QED BY <2>1 DEF Num
<1>7. CASE u = s /\ Was(s, u, i) = 1
  <2>1. o = h
    BY <1>7
  <2>2. k + 1 \in DOMAIN h /\ w[k] = h[k + 1] /\ w = Tail(h)
    <3>1. /\ w = Tail(o)
          /\ \A c \in DOMAIN w : c + 1 \in DOMAIN o /\ w[c] = o[c + 1]
      BY <1>0, <1>7
    <3>2. k \in DOMAIN w
      OBVIOUS
    <3>. HIDE DEF h, o, w
    <3>. QED BY <2>1, <3>1, <3>2
  <2>. HIDE DEF h, o, w
  <2>3. 1 < k + 1
    <3>1. DOMAIN Tail(h) = 1 .. (Len(h) - 1)
      BY <1>3, TakeFirst
    <3>2. k \in DOMAIN w
      BY DEF w
    <3>. QED BY <2>2, <3>1, <3>2, <1>3
  <2>4. h[1].do # h[k + 1].do
    BY <1>3, <1>6, <2>2, <2>3 DEF WorkOK, EmissionOK
  <2>. QED BY <1>5, <2>2, <2>4
<1>8. CASE ~(u = s /\ Was(s, u, i) = 1)
  <2>1. w = o
    BY <1>0, <1>8
  <2>2. Num(h) # Num(o)
    BY <1>1, <1>2, <1>8 DEF QueueInv, Apart
  <2>3. k \in DOMAIN o /\ o[k].do = Push(l)
    BY <2>1
  <2>. HIDE DEF h, o, w
  <2>4. o[k].msg.n > 0
    BY <1>1, <1>4, <2>3, Pushed
  <2>5. Num(o) > 0
    <3>1. Num(o) \in Int
      BY <1>1, WorksTyped DEF o
    <3>2. ~(Num(o) <= 0)
      BY <1>1, <1>4, <2>3, Pushed
    <3>. QED BY <3>1, <3>2
  <2>6. o[k].msg = o[1].msg
    BY <1>1, <1>4, <2>3, <2>5, Pushed
  <2>. QED BY <2>1, <2>2, <2>6 DEF Num, h, w
<1>. QED BY <1>7, <1>8

\* An emission and its work.
LEMMA Emitted ==
    ASSUME LogTypeOK, NEW s \in Services, NEW what \in Says[s], Emit(s, what)
    PROVE  \E e \in Messages, w \in Seq(Task) :
             /\ e.n = emitted + 1
             /\ \A k \in DOMAIN w : w[k].msg = e
             /\ \A u \in Services : \A i \in DOMAIN pipe'[u] :
                  \/ u = s /\ i = Len(pipe[s]) + 1 /\ pipe'[u][i] = w
                  \/ i \in DOMAIN pipe[u] /\ pipe'[u][i] = pipe[u][i]
             /\ \A u \in Services : \A i \in DOMAIN pipe[u] :
                  i \in DOMAIN pipe'[u] /\ pipe'[u][i] = pipe[u][i]
             /\ Len(pipe[s]) + 1 \in DOMAIN pipe'[s] /\ pipe'[s][Len(pipe[s]) + 1] = w
             /\ w[1].msg = e
<1>. DEFINE e == Message(emitted + 1, what.delegator, what.voter)
            w == Work(e, Commands(e))
<1>1. e \in Messages /\ e.n = emitted + 1
  BY EmitMoves
<1>2. w \in Seq(Task) /\ w[1].msg = e
  BY EmitMoves
<1>3. \A k \in DOMAIN w : w[k].msg = e
  BY DEF Work
<1>4. \A u \in Services : \A i \in DOMAIN pipe'[u] :
         \/ u = s /\ i = Len(pipe[s]) + 1 /\ pipe'[u][i] = w
         \/ i \in DOMAIN pipe[u] /\ pipe'[u][i] = pipe[u][i]
  BY EmitMoves
<1>5. \A u \in Services : \A i \in DOMAIN pipe[u] :
         i \in DOMAIN pipe'[u] /\ pipe'[u][i] = pipe[u][i]
  BY EmitMoves
<1>6. Len(pipe[s]) + 1 \in DOMAIN pipe'[s] /\ pipe'[s][Len(pipe[s]) + 1] = w
  BY EmitMoves
<1>. HIDE DEF e, w
<1>. QED BY <1>1, <1>2, <1>3, <1>4, <1>5, <1>6

LEMMA NextPushedOnce == LogTypeOK /\ QueueInv /\ ListNumbers /\ PushedOnce /\ [Next]_vars => PushedOnce'
<1>. SUFFICES ASSUME LogTypeOK, QueueInv, ListNumbers, PushedOnce, [Next]_vars, "resent" \notin slips',
                     NEW l \in Lists \ {"ops"}
              PROVE  /\ NoDuplicates(said'[l])
                     /\ \A m \in ToSet(said'[l]) : \A s \in Services : \A i \in DOMAIN pipe'[s] :
                           \A k \in DOMAIN pipe'[s][i] :
                               pipe'[s][i][k].do = Push(l) => m # pipe'[s][i][k].msg
  BY DEF PushedOnce
<1>. DEFINE Other(m) == \A s \in Services : \A i \in DOMAIN pipe[s] : \A k \in DOMAIN pipe[s][i] :
                            pipe[s][i][k].do = Push(l) => m # pipe[s][i][k].msg
            After(m) == \A s \in Services : \A i \in DOMAIN pipe'[s] : \A k \in DOMAIN pipe'[s][i] :
                            pipe'[s][i][k].do = Push(l) => m # pipe'[s][i][k].msg
            Goal == NoDuplicates(said'[l]) /\ \A m \in ToSet(said'[l]) : After(m)
<1>1. /\ NoDuplicates(said[l]) /\ \A m \in ToSet(said[l]) : Other(m)
      /\ said[l] \in Seq(Messages)
  <2>1. "resent" \notin slips
    BY Steps
  <2>. QED BY <2>1 DEF PushedOnce, LogTypeOK
<1>2. ASSUME NEW s \in Services, NEW what \in Says[s], Emit(s, what)
      PROVE  Goal
  <2>1. UNCHANGED <<lists, said>>
    BY <1>2 DEF Emit, redisVars
  <2>2. PICK e \in Messages, w \in Seq(Task) :
          /\ e.n = emitted + 1
          /\ \A k \in DOMAIN w : w[k].msg = e
          /\ \A u \in Services : \A i \in DOMAIN pipe'[u] :
               \/ u = s /\ i = Len(pipe[s]) + 1 /\ pipe'[u][i] = w
               \/ i \in DOMAIN pipe[u] /\ pipe'[u][i] = pipe[u][i]
    BY <1>2, Emitted
  <2>4. \A m \in ToSet(said[l]) : m # e
    <3>1. \A m \in ToSet(said[l]) : m.n \in Int /\ m.n <= emitted
      BY <1>1, ElementsTyped DEF ListNumbers
    <3>2. emitted \in Nat
      BY DEF LogTypeOK
    <3>. QED BY <2>2, <3>1, <3>2
  <2>. QED BY <1>1, <2>1, <2>2, <2>4
<1>3. ASSUME NEW s \in Services, Reply(s)
      PROVE  Goal
  <2>. DEFINE h == pipe[s][1]
  <2>1. ASSUME NEW m, Other(m) PROVE After(m)
    <3>. SUFFICES ASSUME NEW u \in Services, NEW i \in DOMAIN pipe'[u], NEW k \in DOMAIN pipe'[u][i],
                         pipe'[u][i][k].do = Push(l)
                  PROVE  m # pipe'[u][i][k].msg
      OBVIOUS
    <3>. QED BY <1>3, <2>1, CommandsStay DEF QueueInv
  <2>2. /\ h[1] \in Task /\ Execute(h[1]) /\ 1 \in DOMAIN pipe[s] /\ 1 \in DOMAIN h
    <3>1. /\ h[1] \in Task /\ Execute(h[1]) /\ 1 \in DOMAIN pipe[s]
      BY <1>3, ReplyMoves
    <3>. QED BY <3>1, WorksTyped
  <2>3. CASE h[1].do = Push(l)
    <3>1. said'[l] = <<h[1].msg>> \o said[l]
      BY <2>2, <2>3, Executed
    <3>2. h[1].msg \in Messages
      BY <2>2 DEF Task
    <3>3. \A m \in ToSet(said[l]) : m # h[1].msg
      BY <1>1, <2>2, <2>3
    <3>4. NoDuplicates(said'[l])
      BY <1>1, <3>1, <3>2, <3>3, NoDuplicatesPut
    <3>5. ToSet(said'[l]) = {h[1].msg} \cup ToSet(said[l])
      BY <1>1, <3>1, <3>2, PutFirst
    <3>6. After(h[1].msg)
      BY <1>3, <2>3, OthersPushed
    <3>. QED BY <1>1, <2>1, <3>4, <3>5, <3>6
  <2>4. CASE h[1].do # Push(l)
    <3>1. said'[l] = said[l]
      <4>. HIDE DEF h
      <4>1. CASE h[1].do = Trim(l)
        BY <2>2, <4>1, Executed
      <4>2. CASE h[1].do # Trim(l)
        BY <2>2, <2>4, <4>2, Executed
      <4>. QED BY <4>1, <4>2
    <3>. HIDE DEF Other, After
    <3>2. \A m \in ToSet(said'[l]) : After(m)
      BY <1>1, <2>1, <3>1
    <3>. QED BY <1>1, <3>1, <3>2
  <2>. QED BY <2>3, <2>4
<1>4. ASSUME NEW s \in Services, Resend(s)
      PROVE  FALSE
  BY <1>4 DEF Resend
<1>5. ASSUME NEW s \in Services, Rejected(s) \/ Restart(s)
      PROVE  Goal
  <2>1. /\ UNCHANGED <<lists, said>>
        /\ \A u \in Services : u # s => pipe'[u] = pipe[u]
        /\ \A i \in DOMAIN pipe'[s] : Past # <<>> /\ pipe'[s][i] = PastWork
    BY <1>5, Afresh
  <2>2. Past # <<>> => \A k \in DOMAIN PastWork : PastWork[k].do # Push(l)
    <3>. SUFFICES ASSUME Past # <<>>, NEW k \in DOMAIN PastWork, PastWork[k].do = Push(l) PROVE FALSE
      OBVIOUS
    <3>1. PastWork \in Seq(Task) /\ PastWork # <<>> /\ WorkOK("daemon", PastWork) /\ Num(PastWork) <= 0
      BY PastWorkShape
    <3>. QED BY <3>1, Pushed DEF Services
  <2>. QED BY <1>1, <2>1, <2>2
<1>6. CASE UNCHANGED <<lists, said, pipe, emitted>>
  BY <1>1, <1>6
<1>7. Goal
  BY <1>2, <1>3, <1>4, <1>5, <1>6, QueueSteps
<1>. QED BY <1>7

-----------------------------------------------------------------------------
(***************************************************************************)
(* The way of a message to a browser: from an emission not done to the     *)
(* channel and on to the packets of a socket.  It takes it once, and no    *)
(* operation overtakes another, unless something was lost or sent again.   *)
(***************************************************************************)
Clean == slips \subseteq {"history kept"}

Ahead(x, y) == x # y /\ (x.voter # None /\ y.voter # None => x.n < y.n)

\* A queue behind which the messages of S will come.
Line(q, S) ==
    /\ \A i, j \in DOMAIN q : i < j => Ahead(q[i], q[j])
    /\ \A x \in ToSet(q) : \A y \in S : Ahead(x, y)

LEMMA NothingIn == ToSet(<<>>) = {}
BY DEF ToSet

LEMMA LineEmpty == \A S : Line(<<>>, S)
BY DEF Line, ToSet

LEMMA LineFewer ==
    ASSUME NEW q, NEW S, NEW T, Line(q, S), T \subseteq S
    PROVE  Line(q, T)
BY DEF Line

LEMMA LineGrows ==
    ASSUME NEW q, NEW S, NEW m, Line(q, S), \A x \in ToSet(q) : Ahead(x, m)
    PROVE  Line(q, S \cup {m})
BY DEF Line

\* The last in the queue is put there from those behind it.
LEMMA LineTakes ==
    ASSUME NEW q \in Seq(Messages), NEW S, NEW m \in Messages, m \in S, Line(q, S),
           \A y \in S \ {m} : Ahead(m, y)
    PROVE  Line(Append(q, m), S \ {m})
<1>. DEFINE t == Append(q, m)
<1>1. /\ t[Len(q) + 1] = m /\ \A i \in DOMAIN q : t[i] = q[i]
      /\ \A i \in DOMAIN t : i = Len(q) + 1 \/ i \in DOMAIN q
      /\ DOMAIN q = 1 .. Len(q) /\ Len(q) \in Nat
      /\ ToSet(t) = ToSet(q) \cup {m}
  BY PutLast
<1>. HIDE DEF t
<1>2. ASSUME NEW i \in DOMAIN t, NEW j \in DOMAIN t, i < j PROVE Ahead(t[i], t[j])
  <2>1. i \in DOMAIN q
    BY <1>1, <1>2
  <2>2. CASE j \in DOMAIN q
    BY <1>1, <1>2, <2>1, <2>2 DEF Line
  <2>3. CASE j = Len(q) + 1
    <3>1. q[i] \in ToSet(q)
      BY <2>1 DEF ToSet
    <3>2. Ahead(q[i], m)
      BY <3>1 DEF Line
    <3>. QED BY <1>1, <2>1, <2>3, <3>2
  <2>. QED BY <1>1, <2>2, <2>3
<1>3. \A x \in ToSet(t) : \A y \in S \ {m} : Ahead(x, y)
  BY <1>1 DEF Line
<1>. QED BY <1>2, <1>3 DEF Line, t

\* The first is taken from the queue.
LEMMA LineTail ==
    ASSUME NEW q \in Seq(Messages), NEW S, q # <<>>, Line(q, S)
    PROVE  /\ Line(Tail(q), S)
           /\ \A y \in ToSet(Tail(q)) \cup S : Ahead(Head(q), y)
           /\ ToSet(q) = {Head(q)} \cup ToSet(Tail(q))
<1>. DEFINE t == Tail(q)
            e == Head(q)
<1>1. /\ e = q[1] /\ 1 \in DOMAIN q
      /\ \A i \in DOMAIN t : i + 1 \in DOMAIN q /\ t[i] = q[i + 1]
      /\ ToSet(q) = {e} \cup ToSet(t)
      /\ DOMAIN t = 1 .. (Len(q) - 1) /\ Len(q) \in Nat \ {0}
  BY TakeFirst
<1>. HIDE DEF t, e
<1>2. ASSUME NEW i \in DOMAIN t, NEW j \in DOMAIN t, i < j PROVE Ahead(t[i], t[j])
  <2>1. i + 1 \in DOMAIN q /\ j + 1 \in DOMAIN q /\ i + 1 < j + 1
    BY <1>1, <1>2
  <2>2. Ahead(q[i + 1], q[j + 1])
    BY <2>1 DEF Line
  <2>. QED BY <1>1, <2>2
<1>3. \A x \in ToSet(t) : \A y \in S : Ahead(x, y)
  BY <1>1 DEF Line
<1>4. ASSUME NEW i \in DOMAIN t PROVE Ahead(e, t[i])
  <2>1. i + 1 \in DOMAIN q /\ 1 < i + 1
    BY <1>1
  <2>2. Ahead(q[1], q[i + 1])
    BY <1>1, <2>1 DEF Line
  <2>. QED BY <1>1, <2>2
<1>5. \A y \in ToSet(t) : Ahead(e, y)
  BY <1>4 DEF ToSet
<1>6. \A y \in S : Ahead(e, y)
  BY <1>1 DEF Line
<1>. QED BY <1>1, <1>2, <1>3, <1>5, <1>6 DEF Line, t, e

LEMMA LineOnce ==
    ASSUME NEW q \in Seq(Messages), NEW S, Line(q, S)
    PROVE  NoDuplicates(q) /\ ToSet(q) \cap S = {}
<1>1. \A i \in DOMAIN q : i \in Int
  BY LenProperties
<1>2. ASSUME NEW i \in DOMAIN q, NEW j \in DOMAIN q, i # j PROVE q[i] # q[j]
  <2>1. i < j \/ j < i
    BY <1>1, <1>2
  <2>. QED BY <2>1 DEF Line, Ahead
<1>. QED BY <1>2 DEF Line, Ahead, NoDuplicates

LEMMA UnfinishedIs ==
    /\ \A m : m \in Unfinished <=>
                 \E s \in Services : \E i \in DOMAIN pipe[s] : m = pipe[s][i][1].msg /\ m.n > 0
    /\ \A m : m \in Unfinished' <=>
                 \E s \in Services : \E i \in DOMAIN pipe'[s] : m = pipe'[s][i][1].msg /\ m.n > 0
BY DEF Unfinished

LEMMA UnfinishedTyped ==
    ASSUME LogTypeOK, QueueInv
    PROVE  \A m \in Unfinished : m \in Messages /\ m.n \in Int /\ m.n > 0 /\ m.n <= emitted
<1>1. ASSUME NEW s \in Services, NEW i \in DOMAIN pipe[s]
      PROVE  pipe[s][i][1].msg \in Messages /\ pipe[s][i][1].msg.n \in Int /\ pipe[s][i][1].msg.n <= emitted
  BY WorksTyped DEF QueueInv, WorksOK, Num
<1>. QED BY <1>1, UnfinishedIs

\* An emission adds a message, newer than all.
LEMMA WayEmit ==
    ASSUME LogTypeOK, NEW s \in Services, NEW what \in Says[s], Emit(s, what)
    PROVE  \E m \in Messages : /\ m.n = emitted + 1
                               /\ Unfinished' = Unfinished \cup {m}
                               /\ UNCHANGED <<lists, said, channel, sockets>>
                               /\ emitted' = emitted + 1
<1>1. PICK e \in Messages, w \in Seq(Task) :
             /\ e.n = emitted + 1
             /\ \A u \in Services : \A i \in DOMAIN pipe'[u] :
                  \/ u = s /\ i = Len(pipe[s]) + 1 /\ pipe'[u][i] = w
                  \/ i \in DOMAIN pipe[u] /\ pipe'[u][i] = pipe[u][i]
             /\ \A u \in Services : \A i \in DOMAIN pipe[u] :
                  i \in DOMAIN pipe'[u] /\ pipe'[u][i] = pipe[u][i]
             /\ Len(pipe[s]) + 1 \in DOMAIN pipe'[s] /\ pipe'[s][Len(pipe[s]) + 1] = w
             /\ w[1].msg = e
  BY Emitted
<1>2. emitted \in Nat
  BY DEF LogTypeOK
<1>3. \A m \in Unfinished' : m \in Unfinished \/ m = e
  <2>. SUFFICES ASSUME NEW u \in Services, NEW i \in DOMAIN pipe'[u], pipe'[u][i][1].msg.n > 0
                PROVE  pipe'[u][i][1].msg \in Unfinished \/ pipe'[u][i][1].msg = e
    BY UnfinishedIs
  <2>1. pipe'[u][i] = w \/ (i \in DOMAIN pipe[u] /\ pipe'[u][i] = pipe[u][i])
    BY <1>1
  <2>. QED BY <1>1, <2>1, UnfinishedIs
<1>4. \A m \in Unfinished : m \in Unfinished'
  <2>. SUFFICES ASSUME NEW u \in Services, NEW i \in DOMAIN pipe[u], pipe[u][i][1].msg.n > 0
                PROVE  pipe[u][i][1].msg \in Unfinished'
    BY UnfinishedIs
  <2>. QED BY <1>1, UnfinishedIs
<1>5. e \in Unfinished'
  BY <1>1, <1>2, UnfinishedIs
<1>6. UNCHANGED <<lists, said, channel, sockets>> /\ emitted' = emitted + 1
  BY DEF Emit, redisVars
<1>. QED BY <1>1, <1>3, <1>4, <1>5, <1>6

\* A reply moves a message on when its last command, the publication, is done.
LEMMA WayReply ==
    ASSUME LogTypeOK, QueueInv, NEW s \in Services, Reply(s), NEW m, m = pipe[s][1][1].msg
    PROVE  /\ UNCHANGED <<emitted, sockets, slips>>
           /\ m \in Messages
           /\ pipe[s][1][1].do # Publish => Unfinished' = Unfinished /\ channel' = channel
           /\ pipe[s][1][1].do = Publish => /\ channel' = Append(channel, m)
                                            /\ Unfinished' = Unfinished \ {m}
                                            /\ m \in Unfinished
                                            /\ \A y \in Unfinished \ {m} : Ahead(m, y)
           /\ m.n > 0 => m \in Unfinished
<1>. DEFINE w == pipe[s][1]
<1>1. 1 \in DOMAIN pipe[s] /\ Execute(w[1]) /\ UNCHANGED <<emitted, sockets, slips>>
  BY ReplyMoves
<1>2. /\ w \in Seq(Task) /\ w # <<>> /\ w[1] \in Task /\ m \in Messages /\ m.n \in Int
      /\ DOMAIN w = 1 .. Len(w) /\ Len(w) \in Nat \ {0} /\ 1 \in DOMAIN w
      /\ WorkOK(s, w) /\ Num(w) = m.n
  <2>1. /\ w \in Seq(Task) /\ w # <<>> /\ w[1] \in Task /\ w[1].msg \in Messages /\ Num(w) \in Int
        /\ DOMAIN w = 1 .. Len(w) /\ Len(w) \in Nat \ {0} /\ 1 \in DOMAIN w
    BY <1>1, WorksTyped
  <2>2. WorkOK(s, w)
    BY <1>1 DEF QueueInv, WorksOK
  <2>3. Num(w) = m.n
    BY DEF Num
  <2>. QED BY <2>1, <2>2, <2>3
<1>3. channel' = IF w[1].do = Publish THEN Append(channel, m) ELSE channel
  <2>1. "general" \in Lists
    BY DEF Lists
  <2>. QED BY <1>1, <1>2, <2>1, Executed
<1>4. m.n > 0 => m \in Unfinished
  BY <1>1, UnfinishedIs
<1>5. \A y \in Unfinished' : y \in Unfinished
  <2>. SUFFICES ASSUME NEW u \in Services, NEW i \in DOMAIN pipe'[u], pipe'[u][i][1].msg.n > 0
                PROVE  pipe'[u][i][1].msg \in Unfinished
    BY UnfinishedIs
  <2>. DEFINE j == Was(s, u, i)
              v == pipe'[u][i]
  <2>1. /\ j \in DOMAIN pipe[u]
        /\ Num(v) > 0 <=> Num(pipe[u][j]) > 0
        /\ Num(pipe[u][j]) > 0 => v[1].msg = pipe[u][j][1].msg
    BY WorkAfterReply DEF QueueInv
  <2>2. v[1].msg.n > 0
    OBVIOUS
  <2>. HIDE DEF j, v
  <2>3. v[1].msg = pipe[u][j][1].msg /\ pipe[u][j][1].msg.n > 0
    BY <2>1, <2>2 DEF Num
  <2>4. v[1].msg \in Unfinished
    BY <2>1, <2>3, UnfinishedIs
  <2>. QED BY <2>4 DEF v
<1>6. ASSUME NEW u \in Services, NEW j \in DOMAIN pipe[u], ~(u = s /\ j = 1), pipe[u][j][1].msg.n > 0
      PROVE  pipe[u][j][1].msg \in Unfinished'
  <2>1. \E i \in DOMAIN pipe'[u] : Was(s, u, i) = j
    BY <1>6, ReplyMoves
  <2>2. PICK i \in DOMAIN pipe'[u] : Was(s, u, i) = j
    BY <2>1
  <2>3. pipe'[u][i] = pipe[u][Was(s, u, i)]
    BY <1>6, <2>2, ReplyMoves
  <2>4. pipe'[u][i] = pipe[u][j]
    BY <2>2, <2>3
  <2>. QED BY <1>6, <2>4, UnfinishedIs
<1>7. Tail(w) # <<>> /\ m.n > 0 => m \in Unfinished'
  <2>. SUFFICES ASSUME Tail(w) # <<>>, m.n > 0 PROVE m \in Unfinished'
    OBVIOUS
  <2>1. Len(pipe[s]) \in DOMAIN pipe'[s] /\ pipe'[s][Len(pipe[s])] = Tail(w)
    BY ReplyMoves
  <2>2. Tail(w)[1].msg = m
    <3>1. w[1].msg = m
      OBVIOUS
    <3>. HIDE DEF w
    <3>. QED BY <1>2, <3>1, WorkGoesOn
  <2>. QED BY <2>1, <2>2, UnfinishedIs
<1>8. m.n > 0 => (w[1].do = Publish <=> Tail(w) = <<>>) /\ (w[1].do = Publish => Len(w) = 1)
  <2>. HIDE DEF w
  <2>. SUFFICES ASSUME m.n > 0
                PROVE  (w[1].do = Publish <=> Tail(w) = <<>>) /\ (w[1].do = Publish => Len(w) = 1)
    OBVIOUS
  <2>1. w[1].do = Publish <=> 1 = Len(w)
    BY <1>2 DEF WorkOK, EmissionOK
  <2>2. Tail(w) \in Seq(Task) /\ Len(Tail(w)) = Len(w) - 1
    BY <1>2, TakeFirst
  <2>3. Tail(w) = <<>> <=> Len(Tail(w)) = 0
    <3>. DEFINE t == Tail(w)
    <3>1. t \in Seq(Task)
      BY <2>2
    <3>. HIDE DEF t
    <3>2. t = <<>> <=> Len(t) = 0
      BY <3>1
    <3>. QED BY <3>2 DEF t
  <2>4. Len(w) = 1 <=> Len(Tail(w)) = 0
    BY <1>2, <2>2
  <2>. QED BY <2>1, <2>3, <2>4
<1>9. ASSUME w[1].do = Publish PROVE m.n > 0
  <2>1. "ops" \in Lists
    BY DEF Lists
  <2>2. Num(w) <= 0 => w[1].do \in {Push("ops"), Trim("ops")}
    BY <1>2 DEF WorkOK, PastOK
  <2>3. ~(Num(w) <= 0)
    BY <1>9, <2>1, <2>2, CmdsDiffer
  <2>. QED BY <1>2, <2>3
<1>10. ASSUME w[1].do # Publish PROVE Unfinished' = Unfinished
  <2>0. SUFFICES \A y \in Unfinished : y \in Unfinished'
    BY <1>5
  <2>. SUFFICES ASSUME NEW u \in Services, NEW j \in DOMAIN pipe[u], pipe[u][j][1].msg.n > 0
                PROVE  pipe[u][j][1].msg \in Unfinished'
    BY UnfinishedIs
  <2>1. CASE u = s /\ j = 1
    <3>1. pipe[u][j][1].msg = m
      BY <2>1
    <3>. QED BY <1>7, <1>8, <1>10, <3>1
  <2>2. CASE ~(u = s /\ j = 1)
    BY <1>6, <2>2
  <2>. QED BY <2>1, <2>2
<1>11. ASSUME w[1].do = Publish
       PROVE  Unfinished' = Unfinished \ {m} /\ \A y \in Unfinished \ {m} : Ahead(m, y)
  <2>0. m.n > 0 /\ Tail(w) = <<>> /\ Len(w) = 1
    BY <1>8, <1>9, <1>11
  <2>1. m \notin Unfinished'
    <3>. SUFFICES ASSUME NEW u \in Services, NEW i \in DOMAIN pipe'[u], pipe'[u][i][1].msg = m
                  PROVE  FALSE
      BY UnfinishedIs
    <3>. DEFINE j == Was(s, u, i)
                v == pipe'[u][i]
    <3>1. j \in DOMAIN pipe[u]
      BY ReplyMoves
    <3>2. ~(u = s /\ j = 1)
      BY <2>0, ReplyMoves
    <3>3. v = pipe[u][j]
      BY <3>2, ReplyMoves
    <3>4. Num(pipe[u][j]) # Num(w)
      BY <1>1, <3>1, <3>2 DEF QueueInv, Apart
    <3>. QED BY <1>2, <3>3, <3>4 DEF Num
  <2>2. \A y \in Unfinished : y # m => y \in Unfinished'
    <3>. SUFFICES ASSUME NEW u \in Services, NEW j \in DOMAIN pipe[u], pipe[u][j][1].msg.n > 0,
                         pipe[u][j][1].msg # m
                  PROVE  pipe[u][j][1].msg \in Unfinished'
      BY UnfinishedIs
    <3>1. ~(u = s /\ j = 1)
      OBVIOUS
    <3>. QED BY <1>6, <3>1
  <2>3. ASSUME NEW y \in Unfinished \ {m}, m.voter # None, y.voter # None PROVE m.n < y.n
    <3>0. PICK u \in Services : \E j \in DOMAIN pipe[u] : y = pipe[u][j][1].msg /\ y.n > 0
      BY UnfinishedIs
    <3>1. PICK j \in DOMAIN pipe[u] : y = pipe[u][j][1].msg /\ y.n > 0
      BY <3>0
    <3>. DEFINE o == pipe[u][j]
    <3>2. /\ WorkOK(u, o) /\ Num(o) = y.n /\ Num(o) > 0 /\ o[1].msg = y
          /\ Len(o) \in Nat \ {0} /\ Num(o) \in Int /\ j \in Nat \ {0}
      <4>1. WorkOK(u, o)
        BY DEF QueueInv, WorksOK
      <4>2. Num(o) = y.n /\ Num(o) > 0 /\ o[1].msg = y
        BY <3>1 DEF Num
      <4>3. Len(o) \in Nat \ {0} /\ Num(o) \in Int /\ j \in Nat \ {0}
        BY WorksTyped
      <4>. QED BY <4>1, <4>2, <4>3
    <3>3. j # 1 \/ u # s
      BY <3>1
    <3>4. w[1].msg = m
      OBVIOUS
    <3>5. s = "daemon" /\ u = "daemon"
      <4>. HIDE DEF w, o
      <4>1. EmissionOK(s, w) /\ EmissionOK(u, o)
        BY <1>2, <2>0, <3>2 DEF WorkOK
      <4>. QED BY <2>3, <3>2, <3>4, <4>1 DEF EmissionOK
    <3>6. InTurn(w, o)
      <4>1. 1 < j /\ j \in DOMAIN pipe["daemon"] /\ 1 \in DOMAIN pipe["daemon"]
        BY <1>1, <3>2, <3>3, <3>5
      <4>2. pipe["daemon"][1][1].msg.voter # None /\ pipe["daemon"][j][1].msg.voter # None
        BY <2>3, <3>1, <3>5
      <4>3. InTurn(pipe["daemon"][1], pipe["daemon"][j])
        BY <4>1, <4>2 DEF QueueInv, Rounds
      <4>. QED BY <3>5, <4>3
    <3>. HIDE DEF w, o
    <3>7. Num(w) < Num(o)
      BY <1>2, <2>0, <3>2, <3>6 DEF InTurn
    <3>. QED BY <1>2, <3>2, <3>7
  <2>. QED BY <1>5, <2>1, <2>2, <2>3 DEF Ahead
<1>. QED BY <1>1, <1>2, <1>3, <1>4, <1>9, <1>10, <1>11

-----------------------------------------------------------------------------
(***************************************************************************)
(* The steps of a behaviour without races and failures: each comes with    *)
(* what kept it from being a race.                                         *)
(***************************************************************************)
Kept  == /\ UNCHANGED <<page, log, logRequests, messages, first, preload>>
         /\ status'.loading = status.loading
Still == UNCHANGED <<lists, said, pipe, emitted, channel>>

ListName(a) == IF a = None THEN "general" ELSE a

LEMMA NoSlip ==
    ASSUME NEW race \in BOOLEAN, NEW name, Slip(race, name), slips' \subseteq {"history kept"},
           name # "history kept"
    PROVE  ~race
BY DEF Slip

LEMMA CleanSteps ==
    ASSUME LogTypeOK, ViewTypeOK, [Next]_vars, slips' \subseteq {"history kept"}
    PROVE  /\ Clean
           /\ \/ Kept /\ \E s \in Services : \E what \in Says[s] : Emit(s, what)
              \/ Kept /\ \E s \in Services : Reply(s)
              \/ Kept /\ Dispatch /\ \A v \in Views : sockets[v].open => sockets[v].joined
              \/ Kept /\ \E v \in Views : Join(v)
              \/ /\ Still
                 /\ \E p \in Pages : Open(p) /\ ~(p.view = "log" /\ Stays(p) /\ logRequests # {})
              \/ Still /\ \E r \in logRequests : /\ ServeLog(r)
                                                 /\ ToSet(lists[ListName(r.for)]) \cap OnTheWay("log") = {}
              \/ Still /\ \E r \in logRequests : LogAnswer(r)
              \/ Still /\ LogMessage /\ logRequests = {}
              \/ Still /\ \E r \in preload : ServePreload(r) /\ Known \cap OnTheWay("history") = {}
              \/ Still /\ \E r \in preload : PreloadAnswer(r)
              \/ Still /\ HistoryMessage /\ preload = {}
              \/ UNCHANGED vars
<1>0. Clean
  BY Steps DEF Clean
<1>1. CASE Backend
  <2>1. Kept
    <3>1. UNCHANGED <<page, log, logRequests, messages, first, preload>>
      BY <1>1 DEF Backend, logViewVars
    <3>2. status' = [status EXCEPT !.connecting =
                       IF sockets'["history"].joined # sockets["history"].joined
                       THEN ~sockets'["history"].joined ELSE @]
      BY <1>1 DEF Backend
    <3>3. status \in [loading : BOOLEAN, connecting : BOOLEAN]
      BY DEF ViewTypeOK
    <3>. QED BY <3>1, <3>2, <3>3 DEF Kept
  <2>2. LogNext
    BY <1>1 DEF Backend
  <2>3. ASSUME "lost" \in slips' \/ "resent" \in slips' PROVE FALSE
    BY <2>3
  <2>4. ASSUME NEW s \in Services, Resend(s) \/ Rejected(s) \/ Restart(s) PROVE FALSE
    BY <2>3, <2>4 DEF Resend, Rejected, Restart
  <2>5. ASSUME RealtimeRestart PROVE FALSE
    BY <2>3, <2>5 DEF RealtimeRestart
  <2>6. ASSUME Dispatch PROVE \A v \in Views : sockets[v].open => sockets[v].joined
    <3>1. slips' = slips \cup IF \E v \in Views : sockets[v].open /\ ~sockets[v].joined
                              THEN {"not joined"} ELSE {}
      BY <2>6 DEF Dispatch
    <3>2. ~ \E v \in Views : sockets[v].open /\ ~sockets[v].joined
      BY <3>1
    <3>. QED BY <3>2
  <2>. QED BY <1>0, <2>1, <2>2, <2>4, <2>5, <2>6 DEF LogNext
<1>2. ASSUME NEW p \in Pages, Open(p)
      PROVE  Still /\ ~(p.view = "log" /\ Stays(p) /\ logRequests # {})
  <2>1. Still
    BY <1>2 DEF Open, Still, redisVars
  <2>2. CASE p.view = "log"
    <3>1. Slip(Stays(p) /\ logRequests # {}, "answers overlap")
      BY <1>2, <2>2 DEF Open
    <3>. DEFINE race == Stays(p) /\ logRequests # {}
    <3>2. race \in BOOLEAN
      BY DEF Stays
    <3>. HIDE DEF race
    <3>3. ~race
      BY <3>1, <3>2, NoSlip DEF race
    <3>. QED BY <2>1, <3>3 DEF race
  <2>. QED BY <2>1, <2>2
<1>3. ASSUME NEW r \in logRequests, ServeLog(r)
      PROVE  Still /\ ToSet(lists[ListName(r.for)]) \cap OnTheWay("log") = {}
  <2>1. Still
    BY <1>3 DEF ServeLog, Still, redisVars
  <2>. DEFINE race == ToSet(lists[ListName(r.for)]) \cap OnTheWay("log") # {}
  <2>2. race \in BOOLEAN /\ Slip(race, "read ahead")
    BY <1>3 DEF ServeLog, ListName
  <2>. HIDE DEF race
  <2>3. ~race
    BY <2>2, NoSlip
  <2>. QED BY <2>1, <2>3 DEF race
<1>4. ASSUME NEW r \in logRequests, LogAnswer(r) PROVE Still
  BY <1>4 DEF LogAnswer, Still, logVars, redisVars
<1>5. ASSUME LogMessage PROVE Still /\ logRequests = {}
  <2>1. Still
    BY <1>5 DEF LogMessage, Still, redisVars
  <2>. DEFINE race == logRequests # {}
  <2>2. race \in BOOLEAN /\ Slip(race, "early")
    BY <1>5 DEF LogMessage
  <2>. HIDE DEF race
  <2>3. ~race
    BY <2>2, NoSlip
  <2>. QED BY <2>1, <2>3 DEF race
<1>6. ASSUME NEW r \in preload, ServePreload(r) PROVE Still /\ Known \cap OnTheWay("history") = {}
  <2>1. Still
    BY <1>6 DEF ServePreload, Still, redisVars
  <2>. DEFINE race == Known \cap OnTheWay("history") # {}
  <2>2. race \in BOOLEAN /\ Slip(race, "read ahead")
    BY <1>6 DEF ServePreload
  <2>. HIDE DEF race
  <2>3. ~race
    BY <2>2, NoSlip
  <2>. QED BY <2>1, <2>3 DEF race
<1>7. ASSUME NEW r \in preload, PreloadAnswer(r) PROVE Still
  BY <1>7 DEF PreloadAnswer, Still, logVars, redisVars
<1>8. ASSUME HistoryMessage PROVE Still /\ preload = {}
  <2>1. Still
    BY <1>8 DEF HistoryMessage, Still, redisVars
  <2>. DEFINE race == preload # {}
  <2>2. race \in BOOLEAN /\ Slip(race, "early")
    BY <1>8 DEF HistoryMessage
  <2>. HIDE DEF race
  <2>3. ~race
    BY <2>2, NoSlip
  <2>. QED BY <2>1, <2>3 DEF race
<1>9. ASSUME NEW r, RequestFails(r) PROVE FALSE
  BY <1>9 DEF RequestFails
<1>. QED BY <1>0, <1>1, <1>2, <1>3, <1>4, <1>5, <1>6, <1>7, <1>8, <1>9 DEF Next

-----------------------------------------------------------------------------
(***************************************************************************)
(* The sockets: packets come to a socket that has joined its room; the log *)
(* has one for the account of its page, the history one for all accounts.  *)
(***************************************************************************)
SocketsOK ==
    /\ \A v \in Views : ~sockets[v].open => ~sockets[v].joined
    /\ \A v \in Views : ~sockets[v].joined => sockets[v].inbox = <<>>
    /\ \A m \in ToSet(sockets["log"].inbox) : sockets["log"].room \in {None, m.delegator}
    /\ page.view = "log" => sockets["log"].open /\ sockets["log"].room = page.account
    /\ sockets["history"].room = None
    /\ sockets["history"].open <=> first.set

LEMMA InitSocketsOK == Init => SocketsOK
<1>. SUFFICES ASSUME Init PROVE SocketsOK
  OBVIOUS
<1>1. \A v \in Views : sockets[v] = NoSocket
  BY DEF Init, LogInit
<1>2. /\ ~NoSocket.open /\ ~NoSocket.joined /\ NoSocket.inbox = <<>> /\ NoSocket.room = None
  BY DEF NoSocket
<1>3. page.view # "log" /\ first.set = FALSE /\ "log" \in Views /\ "history" \in Views
  BY DEF Init, Page, Views
<1>4. ToSet(<<>>) = {}
  BY DEF ToSet
<1>. QED BY <1>1, <1>2, <1>3, <1>4 DEF SocketsOK

LEMMA DispatchMoves ==
    ASSUME LogTypeOK, Dispatch, NEW m, m = Head(channel)
    PROVE  /\ channel # <<>> /\ channel' = Tail(channel) /\ m \in Messages /\ channel \in Seq(Messages)
           /\ UNCHANGED <<lists, said, pipe, emitted>>
           /\ \A v \in Views :
                /\ sockets'[v].room = sockets[v].room /\ sockets'[v].open = sockets[v].open
                /\ sockets'[v].joined = sockets[v].joined
                /\ sockets[v].inbox \in Seq(Messages)
                /\ InRoom(v, m) => sockets'[v].inbox = Append(sockets[v].inbox, m)
                /\ ~InRoom(v, m) => sockets'[v].inbox = sockets[v].inbox
<1>1. channel # <<>> /\ channel' = Tail(channel) /\ UNCHANGED <<lists, said, pipe, emitted>>
  BY DEF Dispatch, redisVars
<1>2. channel \in Seq(Messages) /\ m \in Messages
  BY <1>1, TakeFirst DEF LogTypeOK
<1>3. ASSUME NEW v \in Views
      PROVE  /\ sockets'[v].room = sockets[v].room /\ sockets'[v].open = sockets[v].open
             /\ sockets'[v].joined = sockets[v].joined
             /\ sockets[v].inbox \in Seq(Messages)
             /\ InRoom(v, m) => sockets'[v].inbox = Append(sockets[v].inbox, m)
             /\ ~InRoom(v, m) => sockets'[v].inbox = sockets[v].inbox
  <2>1. sockets[v] \in Socket
    BY DEF LogTypeOK
  <2>2. sockets'[v] = IF InRoom(v, m) THEN [sockets[v] EXCEPT !.inbox = Append(@, m)] ELSE sockets[v]
    BY DEF Dispatch
  <2>3. CASE InRoom(v, m)
    <3>1. sockets'[v] = [sockets[v] EXCEPT !.inbox = Append(sockets[v].inbox, m)]
      BY <2>1, <2>2, <2>3 DEF Socket
    <3>. QED BY <2>1, <2>3, <3>1 DEF Socket
  <2>4. CASE ~InRoom(v, m)
    <3>1. sockets'[v] = sockets[v]
      BY <2>2, <2>4
    <3>. QED BY <2>1, <2>4, <3>1 DEF Socket
  <2>. QED BY <2>3, <2>4
<1>. QED BY <1>1, <1>2, <1>3

LEMMA JoinMoves ==
    ASSUME LogTypeOK, NEW u \in Views, Join(u)
    PROVE  /\ UNCHANGED <<lists, said, pipe, emitted, channel>>
           /\ sockets[u].open
           /\ \A v \in Views :
                /\ sockets'[v].room = sockets[v].room /\ sockets'[v].open = sockets[v].open
                /\ sockets'[v].inbox = sockets[v].inbox
                /\ sockets[v].joined => sockets'[v].joined
                /\ sockets'[v].joined => v = u \/ sockets[v].joined
<1>1. UNCHANGED <<lists, said, pipe, emitted, channel>> /\ sockets[u].open
  BY DEF Join, redisVars
<1>2. sockets' = [sockets EXCEPT ![u] = [sockets[u] EXCEPT !.joined = TRUE]]
  BY DEF Join, LogTypeOK, Socket
<1>3. ASSUME NEW v \in Views
      PROVE  /\ sockets'[v].room = sockets[v].room /\ sockets'[v].open = sockets[v].open
             /\ sockets'[v].inbox = sockets[v].inbox
             /\ sockets[v].joined => sockets'[v].joined
             /\ sockets'[v].joined => v = u \/ sockets[v].joined
  <2>1. sockets[v] \in Socket /\ sockets \in [Views -> Socket]
    BY DEF LogTypeOK
  <2>2. CASE v = u
    <3>1. sockets'[v] = [sockets[v] EXCEPT !.joined = TRUE]
      BY <1>2, <2>1, <2>2
    <3>. QED BY <2>1, <2>2, <3>1 DEF Socket
  <2>3. CASE v # u
    <3>1. sockets'[v] = sockets[v]
      BY <1>2, <2>1, <2>3
    <3>. QED BY <3>1
  <2>. QED BY <2>2, <2>3
<1>. QED BY <1>1, <1>3

LEMMA DropMoves ==
    ASSUME LogTypeOK, RealtimeRestart, NEW v \in Views
    PROVE  /\ sockets'[v].room = sockets[v].room /\ sockets'[v].open = sockets[v].open
           /\ sockets'[v].inbox = <<>> /\ ~sockets'[v].joined
<1>1. sockets'[v] = [sockets[v] EXCEPT !.joined = FALSE, !.inbox = <<>>]
  BY DEF RealtimeRestart
<1>2. sockets[v] \in Socket
  BY DEF LogTypeOK
<1>. QED BY <1>1, <1>2 DEF Socket

\* The page that opens is that of a log, or of a history.
LEMMA OpenLog ==
    ASSUME LogTypeOK, ViewTypeOK, NEW p \in Pages, Open(p), p.view = "log"
    PROVE  /\ page' = p /\ p.account \in Rooms /\ Reload(p) /\ UNCHANGED <<messages, status, preload>>
           /\ first'.set = first.set /\ first'.account = first.account
           /\ sockets'["history"] = sockets["history"]
           /\ sockets'["log"] = NewSocket(p.account)
<1>1. /\ page' = p /\ Reload(p) /\ UNCHANGED <<messages, status, preload>>
      /\ first' = [first EXCEPT !.mounted = FALSE]
      /\ sockets' = [sockets EXCEPT !["log"] = NewSocket(p.account)]
  BY DEF Open, LogSocket
<1>2. first'.set = first.set /\ first'.account = first.account
  BY <1>1 DEF ViewTypeOK
<1>3. sockets'["history"] = sockets["history"] /\ sockets'["log"] = NewSocket(p.account)
  BY <1>1 DEF LogTypeOK, Views
<1>. QED BY <1>1, <1>2, <1>3, PageTypes

LEMMA OpenHistory ==
    ASSUME LogTypeOK, ViewTypeOK, NEW p \in Pages, Open(p), p.view # "log"
    PROVE  /\ page' = p /\ p.view = "history" /\ p.account \in Rooms
           /\ SetParams(p) /\ log' = Loading /\ logRequests' = {}
           /\ sockets'["log"] = NoSocket
           /\ first.set => sockets'["history"] = sockets["history"]
           /\ ~first.set => sockets'["history"] = NewSocket(None)
           /\ first'.set
<1>1. /\ page' = p /\ p.view = "history" /\ SetParams(p) /\ log' = Loading /\ logRequests' = {}
      /\ sockets' = [sockets EXCEPT !["log"] = NoSocket,
                                    !["history"] = IF first.set THEN @ ELSE NewSocket(None)]
  BY DEF Open
<1>2. sockets'["log"] = NoSocket
  BY <1>1 DEF LogTypeOK, Views
<1>3. sockets'["history"] = IF first.set THEN sockets["history"] ELSE NewSocket(None)
  BY <1>1 DEF LogTypeOK, Views
<1>4. first'.set
  <2>1. CASE first.set
    <3>1. \/ first' = [first EXCEPT !.account = p.account]
          \/ first' = [first EXCEPT !.mounted = FALSE]
      BY <1>1, <2>1 DEF SetParams
    <3>. QED BY <2>1, <3>1 DEF ViewTypeOK
  <2>2. CASE ~first.set
    <3>1. first' = [account |-> p.account, mounted |-> TRUE, set |-> TRUE]
      BY <1>1, <2>2 DEF SetParams
    <3>. QED BY <3>1
  <2>. QED BY <2>1, <2>2
<1>. QED BY <1>1, <1>2, <1>3, <1>4, PageTypes

LEMMA NextSocketsOK == LogTypeOK /\ ViewTypeOK /\ SocketsOK /\ [Next]_vars => SocketsOK'
<1>. SUFFICES ASSUME LogTypeOK, ViewTypeOK, SocketsOK, [Next]_vars PROVE SocketsOK'
  OBVIOUS
<1>v. "log" \in Views /\ "history" \in Views /\ \A v \in Views : v = "log" \/ v = "history"
  BY DEF Views
<1>e. ToSet(<<>>) = {}
  BY DEF ToSet
<1>i. /\ \A v \in Views : ~sockets[v].open => ~sockets[v].joined
      /\ \A v \in Views : ~sockets[v].joined => sockets[v].inbox = <<>>
      /\ \A m \in ToSet(sockets["log"].inbox) : sockets["log"].room \in {None, m.delegator}
      /\ page.view = "log" => sockets["log"].open /\ sockets["log"].room = page.account
      /\ sockets["history"].room = None
      /\ sockets["history"].open <=> first.set
  BY DEF SocketsOK
<1>1. CASE UNCHANGED <<sockets, page, first>>
  BY <1>1 DEF SocketsOK
<1>2. CASE Dispatch /\ UNCHANGED <<page, first>>
  <2>. DEFINE m == Head(channel)
  <2>1. /\ m \in Messages
        /\ \A v \in Views :
             /\ sockets'[v].room = sockets[v].room /\ sockets'[v].open = sockets[v].open
             /\ sockets'[v].joined = sockets[v].joined
             /\ sockets[v].inbox \in Seq(Messages)
             /\ InRoom(v, m) => sockets'[v].inbox = Append(sockets[v].inbox, m)
             /\ ~InRoom(v, m) => sockets'[v].inbox = sockets[v].inbox
    BY <1>2, DispatchMoves
  <2>. HIDE DEF m
  <2>2. \A v \in Views : ~sockets'[v].open => ~sockets'[v].joined
    BY <1>i, <2>1
  <2>3. \A v \in Views : ~sockets'[v].joined => sockets'[v].inbox = <<>>
    BY <1>i, <2>1 DEF InRoom
  <2>4. \A x \in ToSet(sockets'["log"].inbox) : sockets'["log"].room \in {None, x.delegator}
    <3>1. CASE InRoom("log", m)
      <4>1. ToSet(sockets'["log"].inbox) = ToSet(sockets["log"].inbox) \cup {m}
        <5>1. sockets["log"].inbox \in Seq(Messages) /\ m \in Messages
          BY <1>v, <2>1
        <5>2. sockets'["log"].inbox = Append(sockets["log"].inbox, m)
          BY <1>v, <2>1, <3>1
        <5>. QED BY <5>1, <5>2, PutLast
      <4>2. sockets["log"].room \in {None, m.delegator}
        BY <3>1 DEF InRoom
      <4>. QED BY <1>i, <1>v, <2>1, <4>1, <4>2
    <3>2. CASE ~InRoom("log", m)
      BY <1>i, <1>v, <2>1, <3>2
    <3>. QED BY <3>1, <3>2
  <2>5. /\ page'.view = "log" => sockets'["log"].open /\ sockets'["log"].room = page'.account
        /\ sockets'["history"].room = None
        /\ sockets'["history"].open <=> first'.set
    BY <1>2, <1>i, <1>v, <2>1
  <2>. QED BY <2>2, <2>3, <2>4, <2>5 DEF SocketsOK
<1>3. CASE RealtimeRestart /\ UNCHANGED <<page, first>>
  <2>1. \A v \in Views : /\ sockets'[v].room = sockets[v].room /\ sockets'[v].open = sockets[v].open
                         /\ sockets'[v].inbox = <<>> /\ ~sockets'[v].joined
    BY <1>3, DropMoves
  <2>. QED BY <1>3, <1>e, <1>i, <1>v, <2>1 DEF SocketsOK
<1>4. ASSUME NEW u \in Views, Join(u), UNCHANGED <<page, first>> PROVE SocketsOK'
  <2>1. /\ sockets[u].open
        /\ \A v \in Views :
             /\ sockets'[v].room = sockets[v].room /\ sockets'[v].open = sockets[v].open
             /\ sockets'[v].inbox = sockets[v].inbox
             /\ sockets[v].joined => sockets'[v].joined
             /\ sockets'[v].joined => v = u \/ sockets[v].joined
    BY <1>4, JoinMoves
  <2>2. /\ \A v \in Views : ~sockets'[v].open => ~sockets'[v].joined
        /\ \A v \in Views : ~sockets'[v].joined => sockets'[v].inbox = <<>>
    BY <1>i, <2>1
  <2>3. /\ \A m \in ToSet(sockets'["log"].inbox) : sockets'["log"].room \in {None, m.delegator}
        /\ page'.view = "log" => sockets'["log"].open /\ sockets'["log"].room = page'.account
        /\ sockets'["history"].room = None
        /\ sockets'["history"].open <=> first'.set
    BY <1>4, <1>i, <1>v, <2>1
  <2>. QED BY <2>2, <2>3 DEF SocketsOK
<1>5. ASSUME NEW p \in Pages, Open(p) PROVE SocketsOK'
  <2>1. CASE p.view = "log"
    <3>1. /\ page' = p /\ p.account \in Rooms
          /\ first'.set = first.set
          /\ sockets'["history"] = sockets["history"]
          /\ sockets'["log"] = NewSocket(p.account)
      BY <1>5, <2>1, OpenLog
    <3>2. /\ sockets'["log"].room = p.account /\ sockets'["log"].open /\ ~sockets'["log"].joined
          /\ sockets'["log"].inbox = <<>>
      BY <3>1, SocketTypes
    <3>. QED BY <1>e, <1>i, <1>v, <3>1, <3>2 DEF SocketsOK
  <2>2. CASE p.view # "log"
    <3>1. /\ page' = p /\ p.view = "history"
          /\ sockets'["log"] = NoSocket
          /\ first.set => sockets'["history"] = sockets["history"]
          /\ ~first.set => sockets'["history"] = NewSocket(None)
          /\ first'.set
      BY <1>5, <2>2, OpenHistory
    <3>2. ~sockets'["log"].open /\ ~sockets'["log"].joined /\ sockets'["log"].inbox = <<>>
      BY <3>1, SocketTypes
    <3>3. CASE first.set
      BY <1>e, <1>i, <1>v, <3>1, <3>2, <3>3 DEF SocketsOK
    <3>4. CASE ~first.set
      <4>1. /\ sockets'["history"].room = None /\ sockets'["history"].open /\ ~sockets'["history"].joined
            /\ sockets'["history"].inbox = <<>>
        BY <3>1, <3>4, SocketTypes DEF Rooms
      <4>. QED BY <1>e, <1>i, <1>v, <3>1, <3>2, <4>1 DEF SocketsOK
    <3>. QED BY <3>3, <3>4
  <2>. QED BY <2>1, <2>2
<1>6. ASSUME NEW v \in Views, sockets[v].inbox # <<>>,
             sockets' = [sockets EXCEPT ![v].inbox = Tail(@)], UNCHANGED <<page, first>>
      PROVE  SocketsOK'
  <2>1. /\ sockets[v].inbox \in Seq(Messages)
        /\ sockets'[v].inbox = Tail(sockets[v].inbox)
        /\ \A u \in Views : /\ u # v => sockets'[u] = sockets[u]
                            /\ sockets'[u].room = sockets[u].room
                            /\ sockets'[u].open = sockets[u].open
                            /\ sockets'[u].joined = sockets[u].joined
    BY <1>6, Packet
  <2>2. ToSet(sockets'[v].inbox) \subseteq ToSet(sockets[v].inbox)
    BY <1>6, <2>1, TakeFirst
  <2>3. sockets[v].joined
    BY <1>6, <1>i
  <2>4. /\ \A u \in Views : ~sockets'[u].open => ~sockets'[u].joined
        /\ \A u \in Views : ~sockets'[u].joined => sockets'[u].inbox = <<>>
    BY <1>i, <2>1, <2>3
  <2>5. ToSet(sockets'["log"].inbox) \subseteq ToSet(sockets["log"].inbox)
    BY <1>v, <2>1, <2>2
  <2>6. \A m \in ToSet(sockets'["log"].inbox) : sockets'["log"].room \in {None, m.delegator}
    BY <1>i, <1>v, <2>1, <2>5
  <2>7. /\ page'.view = "log" => sockets'["log"].open /\ sockets'["log"].room = page'.account
        /\ sockets'["history"].room = None
        /\ sockets'["history"].open <=> first'.set
    BY <1>6, <1>i, <1>v, <2>1
  <2>. QED BY <2>4, <2>6, <2>7 DEF SocketsOK
<1>7. CASE Backend
  <2>1. LogNext /\ UNCHANGED <<page, first>>
    BY <1>7 DEF Backend
  <2>2. CASE Dispatch \/ RealtimeRestart \/ \E v \in Views : Join(v)
    BY <1>2, <1>3, <1>4, <2>1, <2>2
  <2>3. ASSUME NEW s \in Services, (\E what \in Says[s] : Emit(s, what)) \/ Reply(s) \/ Resend(s)
                                   \/ Rejected(s) \/ Restart(s)
        PROVE  UNCHANGED sockets
    BY <2>3 DEF Emit, Reply, Resend, Rejected, Restart
  <2>. QED BY <1>1, <2>1, <2>2, <2>3 DEF LogNext
<1>8. CASE LogMessage \/ HistoryMessage
  BY <1>6, <1>8, <1>v DEF LogMessage, HistoryMessage, historyVars
<1>9. ASSUME NEW r, ServeLog(r) \/ LogAnswer(r) \/ ServePreload(r) \/ PreloadAnswer(r) \/ RequestFails(r)
      PROVE  UNCHANGED <<sockets, page, first>>
  BY <1>9 DEF ServeLog, LogAnswer, ServePreload, PreloadAnswer, RequestFails, historyVars, logVars
<1>10. CASE UNCHANGED vars
  BY <1>1, <1>10 DEF vars, logVars, viewVars, historyVars
<1>. QED BY <1>1, <1>5, <1>7, <1>8, <1>9, <1>10 DEF Next

-----------------------------------------------------------------------------
(***************************************************************************)
(* What is on the way stays in line, from the emissions over the channel   *)
(* to the inbox of a socket.                                               *)
(***************************************************************************)
InLine ==
    /\ Line(channel, Unfinished)
    /\ \A v \in Views : Line(sockets[v].inbox, Unfinished \cup ToSet(channel))
    /\ \A v \in Views : \A m \in OnTheWay(v) : m.n > 0 /\ m.n <= emitted
WayOK == Clean => InLine

LEMMA InitWay == Init => Unfinished = {} /\ channel = <<>> /\ \A v \in Views : sockets[v].inbox = <<>>
<1>. SUFFICES ASSUME Init
              PROVE  Unfinished = {} /\ channel = <<>> /\ \A v \in Views : sockets[v].inbox = <<>>
  OBVIOUS
<1>1. channel = <<>> /\ \A v \in Views : sockets[v].inbox = <<>>
  <2>1. NoSocket.inbox = <<>>
    BY SocketTypes
  <2>. QED BY <2>1 DEF Init, LogInit
<1>2. Unfinished = {}
  <2>1. ASSUME NEW s \in Services, NEW i \in DOMAIN pipe[s] PROVE ~(pipe[s][i][1].msg.n > 0)
    <3>1. pipe[s] = IF s = "daemon" THEN Preload ELSE <<>>
      BY DEF Init, LogInit
    <3>2. pipe[s] = Preload
      BY <3>1
    <3>3. pipe[s][i] = PastWork /\ PastWork # <<>>
      BY <3>2, PreloadTypes
    <3>4. Past # <<>>
      BY <3>2 DEF Preload
    <3>5. Num(PastWork) <= 0 /\ Num(PastWork) \in Int
      BY <3>4, PastWorkShape
    <3>. QED BY <3>3, <3>5 DEF Num
  <2>. QED BY <2>1, UnfinishedIs
<1>. QED BY <1>1, <1>2

LEMMA InitWayOK == Init => WayOK
<1>1. ToSet(<<>>) = {}
  BY DEF ToSet
<1>. QED BY <1>1, InitWay, LineEmpty DEF WayOK, InLine, OnTheWay

LEMMA WayTyped ==
    ASSUME LogTypeOK, QueueInv, NEW v \in Views
    PROVE  /\ \A m \in OnTheWay(v) : m \in Messages /\ m.n \in Int
           /\ sockets[v].inbox \in Seq(Messages) /\ channel \in Seq(Messages) /\ emitted \in Nat
<1>1. sockets[v].inbox \in Seq(Messages) /\ channel \in Seq(Messages) /\ emitted \in Nat
  BY DEF LogTypeOK, Socket
<1>2. ToSet(sockets[v].inbox) \subseteq Messages /\ ToSet(channel) \subseteq Messages
  BY <1>1, ElementsOf
<1>3. Unfinished \subseteq Messages
  BY UnfinishedTyped
<1>. QED BY <1>1, <1>2, <1>3 DEF OnTheWay, Messages

\* The steps of the browser: an inbox stays, or is emptied, or its first packet is taken.
LEMMA InboxSteps ==
    ASSUME LogTypeOK, ViewTypeOK, SocketsOK, NEW v \in Views,
           \/ \E p \in Pages : Open(p)
           \/ \E r : ServeLog(r) \/ LogAnswer(r) \/ ServePreload(r) \/ PreloadAnswer(r)
           \/ LogMessage \/ HistoryMessage \/ UNCHANGED vars
    PROVE  \/ sockets'[v].inbox = sockets[v].inbox
           \/ sockets'[v].inbox = <<>> /\ v = "log"
           \/ /\ sockets[v].inbox # <<>> /\ sockets'[v].inbox = Tail(sockets[v].inbox)
              /\ (v = "log" /\ LogMessage) \/ (v = "history" /\ HistoryMessage)
<1>v. v = "log" \/ v = "history"
  BY DEF Views
<1>1. ASSUME NEW p \in Pages, Open(p)
      PROVE  sockets'[v].inbox = sockets[v].inbox \/ (sockets'[v].inbox = <<>> /\ v = "log")
  <2>1. CASE p.view = "log"
    <3>1. p.account \in Rooms /\ sockets'["history"] = sockets["history"] /\ sockets'["log"] = NewSocket(p.account)
      BY <1>1, <2>1, OpenLog
    <3>. QED BY <1>v, <3>1, SocketTypes
  <2>2. CASE p.view # "log"
    <3>1. /\ sockets'["log"] = NoSocket
          /\ first.set => sockets'["history"] = sockets["history"]
          /\ ~first.set => sockets'["history"] = NewSocket(None)
      BY <1>1, <2>2, OpenHistory
    <3>2. ~first.set => sockets["history"].inbox = <<>>
      BY DEF SocketsOK, Views
    <3>3. ~first.set => sockets'["history"].inbox = <<>>
      BY <3>1, SocketTypes DEF Rooms
    <3>4. sockets'["log"].inbox = <<>>
      BY <3>1, SocketTypes
    <3>. QED BY <1>v, <3>1, <3>2, <3>3, <3>4
  <2>. QED BY <2>1, <2>2
<1>2. ASSUME NEW r, ServeLog(r) \/ LogAnswer(r) \/ ServePreload(r) \/ PreloadAnswer(r)
      PROVE  sockets' = sockets
  BY <1>2 DEF ServeLog, LogAnswer, ServePreload, PreloadAnswer, logVars
<1>3. ASSUME LogMessage
      PROVE  \/ v = "history" /\ sockets'[v].inbox = sockets[v].inbox
             \/ /\ sockets[v].inbox # <<>> /\ sockets'[v].inbox = Tail(sockets[v].inbox)
                /\ v = "log"
  <2>1. sockets["log"].inbox # <<>> /\ sockets' = [sockets EXCEPT !["log"].inbox = Tail(@)] /\ "log" \in Views
    BY <1>3 DEF LogMessage, Views
  <2>. QED BY <1>v, <2>1, Packet
<1>4. ASSUME HistoryMessage
      PROVE  \/ v = "log" /\ sockets'[v].inbox = sockets[v].inbox
             \/ /\ sockets[v].inbox # <<>> /\ sockets'[v].inbox = Tail(sockets[v].inbox)
                /\ v = "history"
  <2>1. /\ sockets["history"].inbox # <<>> /\ sockets' = [sockets EXCEPT !["history"].inbox = Tail(@)]
        /\ "history" \in Views
    BY <1>4 DEF HistoryMessage, Views
  <2>. QED BY <1>v, <2>1, Packet
<1>5. CASE UNCHANGED vars
  BY <1>5 DEF vars, logVars
<1>. QED BY <1>1, <1>2, <1>3, <1>4, <1>5

\* An emission joins the line at its end.
LEMMA EmitInLine ==
    ASSUME LogTypeOK, QueueInv, InLine, NEW s \in Services, NEW what \in Says[s], Emit(s, what)
    PROVE  /\ InLine'
           /\ \E m \in Messages : /\ m.n = emitted + 1 /\ emitted' = emitted + 1
                                  /\ \A v \in Views : OnTheWay(v)' = OnTheWay(v) \cup {m}
           /\ UNCHANGED <<lists, said, sockets>>
<1>1. PICK m \in Messages : /\ m.n = emitted + 1
                            /\ Unfinished' = Unfinished \cup {m}
                            /\ UNCHANGED <<lists, said, channel, sockets>>
                            /\ emitted' = emitted + 1
  BY WayEmit
<1>2. \A v \in Views : OnTheWay(v)' = OnTheWay(v) \cup {m}
  BY <1>1 DEF OnTheWay
<1>3. ASSUME NEW v \in Views, NEW x \in OnTheWay(v) PROVE Ahead(x, m) /\ x.n > 0 /\ x.n <= emitted + 1
  <2>1. x.n \in Int /\ emitted \in Nat
    BY WayTyped
  <2>2. x.n > 0 /\ x.n <= emitted
    BY DEF InLine
  <2>. QED BY <1>1, <2>1, <2>2 DEF Ahead
<1>4. Line(channel', Unfinished')
  <2>1. \A x \in ToSet(channel) : Ahead(x, m)
    BY <1>3 DEF OnTheWay, Views
  <2>2. Line(channel, Unfinished \cup {m})
    BY <2>1, LineGrows DEF InLine
  <2>. QED BY <1>1, <2>2
<1>5. ASSUME NEW v \in Views PROVE Line(sockets'[v].inbox, Unfinished' \cup ToSet(channel'))
  <2>1. \A x \in ToSet(sockets[v].inbox) : Ahead(x, m)
    BY <1>3 DEF OnTheWay
  <2>2. Line(sockets[v].inbox, (Unfinished \cup ToSet(channel)) \cup {m})
    BY <2>1, LineGrows DEF InLine
  <2>3. (Unfinished \cup ToSet(channel)) \cup {m} = Unfinished' \cup ToSet(channel')
    BY <1>1
  <2>. QED BY <1>1, <2>2, <2>3
<1>6. ASSUME NEW v \in Views, NEW x \in OnTheWay(v)' PROVE x.n > 0 /\ x.n <= emitted'
  <2>1. CASE x = m
    BY <1>1, <2>1 DEF LogTypeOK
  <2>2. CASE x \in OnTheWay(v)
    BY <1>1, <1>3, <2>2
  <2>. QED BY <1>2, <2>1, <2>2
<1>. QED BY <1>1, <1>2, <1>4, <1>5, <1>6 DEF InLine

\* A publication goes on in the channel.
LEMMA ReplyInLine ==
    ASSUME LogTypeOK, QueueInv, InLine, NEW s \in Services, Reply(s)
    PROVE  /\ InLine'
           /\ \A v \in Views : OnTheWay(v)' = OnTheWay(v)
           /\ UNCHANGED <<sockets, emitted>>
<1>. DEFINE m == pipe[s][1][1].msg
<1>1. /\ UNCHANGED <<emitted, sockets, slips>>
      /\ m \in Messages
      /\ pipe[s][1][1].do # Publish => Unfinished' = Unfinished /\ channel' = channel
      /\ pipe[s][1][1].do = Publish => /\ channel' = Append(channel, m)
                                       /\ Unfinished' = Unfinished \ {m}
                                       /\ m \in Unfinished
                                       /\ \A y \in Unfinished \ {m} : Ahead(m, y)
  BY WayReply
<1>. HIDE DEF m
<1>2. CASE pipe[s][1][1].do # Publish
  <2>1. Unfinished' = Unfinished /\ channel' = channel
    BY <1>1, <1>2
  <2>2. \A v \in Views : OnTheWay(v)' = OnTheWay(v)
    BY <1>1, <2>1 DEF OnTheWay
  <2>. QED BY <1>1, <2>1, <2>2 DEF InLine
<1>3. CASE pipe[s][1][1].do = Publish
  <2>1. /\ channel' = Append(channel, m) /\ Unfinished' = Unfinished \ {m} /\ m \in Unfinished
        /\ \A y \in Unfinished \ {m} : Ahead(m, y)
    BY <1>1, <1>3
  <2>2. channel \in Seq(Messages)
    BY DEF LogTypeOK
  <2>3. ToSet(channel') = ToSet(channel) \cup {m}
    BY <1>1, <2>1, <2>2, PutLast
  <2>4. Unfinished' \cup ToSet(channel') = Unfinished \cup ToSet(channel)
    BY <2>1, <2>3
  <2>5. \A v \in Views : OnTheWay(v)' = OnTheWay(v)
    BY <1>1, <2>4 DEF OnTheWay
  <2>6. Line(channel', Unfinished')
    <3>1. Line(Append(channel, m), Unfinished \ {m})
      BY <1>1, <2>1, <2>2, LineTakes DEF InLine
    <3>. QED BY <2>1, <3>1
  <2>. QED BY <1>1, <2>4, <2>5, <2>6 DEF InLine
<1>. QED BY <1>1, <1>2, <1>3

\* The realtime server takes the first in the channel, to the inboxes of the sockets in its room.
LEMMA DispatchInLine ==
    ASSUME LogTypeOK, QueueInv, InLine, Dispatch, NEW m, m = Head(channel)
    PROVE  /\ InLine'
           /\ \A v \in Views :
                /\ OnTheWay(v)' \cup {m} = OnTheWay(v)
                /\ InRoom(v, m) => OnTheWay(v)' = OnTheWay(v)
           /\ m \in Messages
           /\ \A y \in Unfinished' \cup ToSet(channel') : Ahead(m, y)
           /\ UNCHANGED <<lists, said, emitted>>
<1>1. /\ channel # <<>> /\ channel' = Tail(channel) /\ m \in Messages /\ channel \in Seq(Messages)
      /\ UNCHANGED <<lists, said, pipe, emitted>>
      /\ \A v \in Views :
           /\ sockets[v].inbox \in Seq(Messages)
           /\ InRoom(v, m) => sockets'[v].inbox = Append(sockets[v].inbox, m)
           /\ ~InRoom(v, m) => sockets'[v].inbox = sockets[v].inbox
  BY DispatchMoves
<1>2. Unfinished' = Unfinished
  BY <1>1 DEF Unfinished
<1>3. /\ Line(channel', Unfinished)
      /\ \A y \in ToSet(channel') \cup Unfinished : Ahead(m, y)
      /\ ToSet(channel) = {m} \cup ToSet(channel')
  BY <1>1, LineTail DEF InLine
<1>. DEFINE S == Unfinished \cup ToSet(channel)
            T == Unfinished' \cup ToSet(channel')
<1>4. S = T \cup {m} /\ m \in S /\ (\A y \in S \ {m} : Ahead(m, y)) /\ T \subseteq S \ {m}
  <2>1. \A y \in T : y # m
    BY <1>2, <1>3 DEF Ahead
  <2>. QED BY <1>2, <1>3, <2>1
<1>. HIDE DEF S, T
<1>5. ASSUME NEW v \in Views
      PROVE  /\ Line(sockets'[v].inbox, T)
             /\ OnTheWay(v)' \cup {m} = OnTheWay(v)
             /\ InRoom(v, m) => OnTheWay(v)' = OnTheWay(v)
  <2>1. Line(sockets[v].inbox, S)
    BY DEF InLine, S
  <2>2. OnTheWay(v) = S \cup ToSet(sockets[v].inbox) /\ OnTheWay(v)' = T \cup ToSet(sockets'[v].inbox)
    BY DEF OnTheWay, S, T
  <2>3. CASE InRoom(v, m)
    <3>1. sockets'[v].inbox = Append(sockets[v].inbox, m) /\ sockets[v].inbox \in Seq(Messages)
      BY <1>1, <2>3
    <3>2. ToSet(sockets'[v].inbox) = ToSet(sockets[v].inbox) \cup {m}
      BY <1>1, <3>1, PutLast
    <3>3. Line(Append(sockets[v].inbox, m), S \ {m})
      BY <1>1, <1>4, <2>1, <3>1, LineTakes
    <3>4. Line(sockets'[v].inbox, T)
      BY <1>4, <3>1, <3>3, LineFewer
    <3>. QED BY <1>4, <2>2, <3>2, <3>4
  <2>4. CASE ~InRoom(v, m)
    <3>1. sockets'[v].inbox = sockets[v].inbox
      BY <1>1, <2>4
    <3>2. Line(sockets[v].inbox, T)
      BY <1>4, <2>1, LineFewer
    <3>. QED BY <1>4, <2>2, <2>4, <3>1, <3>2
  <2>. QED BY <2>3, <2>4
<1>6. \A v \in Views : \A x \in OnTheWay(v)' : x.n > 0 /\ x.n <= emitted'
  BY <1>1, <1>5 DEF InLine
<1>7. Line(channel', Unfinished')
  BY <1>2, <1>3
<1>8. InLine'
  BY <1>5, <1>6, <1>7 DEF InLine, T
<1>. QED BY <1>1, <1>2, <1>3, <1>5, <1>8

LEMMA JoinInLine ==
    ASSUME LogTypeOK, QueueInv, InLine, NEW u \in Views, Join(u)
    PROVE  /\ InLine'
           /\ \A v \in Views : OnTheWay(v)' = OnTheWay(v)
           /\ UNCHANGED <<lists, said, emitted>>
<1>1. /\ UNCHANGED <<lists, said, pipe, emitted, channel>>
      /\ \A v \in Views : sockets'[v].inbox = sockets[v].inbox
  BY JoinMoves
<1>2. Unfinished' = Unfinished
  BY <1>1 DEF Unfinished
<1>3. \A v \in Views : OnTheWay(v)' = OnTheWay(v)
  BY <1>1, <1>2 DEF OnTheWay
<1>. QED BY <1>1, <1>2, <1>3 DEF InLine

\* The browser only takes packets from the front of an inbox, or empties it.
LEMMA BrowserInLine ==
    ASSUME LogTypeOK, QueueInv, InLine, Still,
           \A v \in Views : \/ sockets'[v].inbox = sockets[v].inbox
                            \/ sockets'[v].inbox = <<>>
                            \/ sockets[v].inbox # <<>> /\ sockets'[v].inbox = Tail(sockets[v].inbox)
    PROVE  /\ InLine' /\ Unfinished' = Unfinished
           /\ \A v \in Views :
                /\ sockets'[v].inbox = sockets[v].inbox => OnTheWay(v)' = OnTheWay(v)
                /\ OnTheWay(v)' \subseteq OnTheWay(v)
                /\ sockets[v].inbox # <<>> /\ sockets'[v].inbox = Tail(sockets[v].inbox) =>
                     /\ \A y \in OnTheWay(v)' : Ahead(Head(sockets[v].inbox), y)
                     /\ OnTheWay(v) = OnTheWay(v)' \cup {Head(sockets[v].inbox)}
<1>1. UNCHANGED <<lists, said, pipe, emitted, channel>> /\ Unfinished' = Unfinished
  BY DEF Still, Unfinished
<1>. DEFINE S == Unfinished \cup ToSet(channel)
<1>2. ASSUME NEW v \in Views
      PROVE  /\ Line(sockets'[v].inbox, S)
             /\ sockets'[v].inbox = sockets[v].inbox => OnTheWay(v)' = OnTheWay(v)
             /\ OnTheWay(v)' \subseteq OnTheWay(v)
             /\ sockets[v].inbox # <<>> /\ sockets'[v].inbox = Tail(sockets[v].inbox) =>
                  /\ \A y \in OnTheWay(v)' : Ahead(Head(sockets[v].inbox), y)
                  /\ OnTheWay(v) = OnTheWay(v)' \cup {Head(sockets[v].inbox)}
  <2>1. Line(sockets[v].inbox, S)
    BY DEF InLine
  <2>2. OnTheWay(v) = S \cup ToSet(sockets[v].inbox) /\ OnTheWay(v)' = S \cup ToSet(sockets'[v].inbox)
    BY <1>1 DEF OnTheWay
  <2>3. sockets[v].inbox \in Seq(Messages)
    BY WayTyped
  <2>. HIDE DEF S
  <2>4. sockets[v].inbox # <<>> =>
             /\ Line(Tail(sockets[v].inbox), S)
             /\ \A y \in ToSet(Tail(sockets[v].inbox)) \cup S : Ahead(Head(sockets[v].inbox), y)
             /\ ToSet(sockets[v].inbox) = {Head(sockets[v].inbox)} \cup ToSet(Tail(sockets[v].inbox))
    BY <2>1, <2>3, LineTail
  <2>5. ToSet(<<>>) = {}
    BY DEF ToSet
  <2>6. CASE sockets[v].inbox # <<>> /\ sockets'[v].inbox = Tail(sockets[v].inbox)
    <3>1. sockets'[v].inbox # sockets[v].inbox
      <4>1. Len(Tail(sockets[v].inbox)) = Len(sockets[v].inbox) - 1 /\ Len(sockets[v].inbox) \in Nat
        BY <2>3, <2>6, TakeFirst
      <4>2. Len(Tail(sockets[v].inbox)) # Len(sockets[v].inbox)
        BY <4>1
      <4>3. Tail(sockets[v].inbox) # sockets[v].inbox
        BY <4>2
      <4>. QED BY <2>6, <4>3
    <3>. QED BY <2>2, <2>4, <2>6, <3>1
  <2>7. CASE sockets'[v].inbox = sockets[v].inbox /\ ~(sockets[v].inbox # <<>> /\ sockets'[v].inbox = Tail(sockets[v].inbox))
    BY <2>1, <2>2, <2>7
  <2>8. CASE sockets'[v].inbox = <<>> /\ sockets[v].inbox # <<>> /\ sockets'[v].inbox # Tail(sockets[v].inbox)
    BY <2>2, <2>5, <2>8, LineEmpty
  <2>9. \/ sockets'[v].inbox = sockets[v].inbox
        \/ sockets'[v].inbox = <<>>
        \/ sockets[v].inbox # <<>> /\ sockets'[v].inbox = Tail(sockets[v].inbox)
    OBVIOUS
  <2>. QED BY <2>6, <2>7, <2>8, <2>9
<1>3. Line(channel', Unfinished')
  BY <1>1 DEF InLine
<1>4. \A v \in Views : \A x \in OnTheWay(v)' : x.n > 0 /\ x.n <= emitted'
  BY <1>1, <1>2 DEF InLine
<1>5. S = Unfinished' \cup ToSet(channel')
  BY <1>1
<1>6. InLine'
  <2>. HIDE DEF S
  <2>. QED BY <1>2, <1>3, <1>4, <1>5 DEF InLine
<1>. QED BY <1>1, <1>2, <1>6

LEMMA NextWayOK == LogTypeOK /\ ViewTypeOK /\ QueueInv /\ SocketsOK /\ WayOK /\ [Next]_vars => WayOK'
<1>. SUFFICES ASSUME LogTypeOK, ViewTypeOK, QueueInv, SocketsOK, WayOK, [Next]_vars,
                     slips' \subseteq {"history kept"}
              PROVE  InLine'
  BY DEF WayOK, Clean
<1>1. Clean
  BY CleanSteps
<1>2. InLine
  BY <1>1 DEF WayOK
<1>3. CASE \E s \in Services : \E what \in Says[s] : Emit(s, what)
  BY <1>2, <1>3, EmitInLine
<1>4. CASE \E s \in Services : Reply(s)
  BY <1>2, <1>4, ReplyInLine
<1>5. CASE Dispatch
  BY <1>2, <1>5, DispatchInLine
<1>6. CASE \E v \in Views : Join(v)
  BY <1>2, <1>6, JoinInLine
<1>7. CASE /\ Still \/ UNCHANGED vars
           /\ \/ \E p \in Pages : Open(p)
              \/ \E r : ServeLog(r) \/ LogAnswer(r) \/ ServePreload(r) \/ PreloadAnswer(r)
              \/ LogMessage \/ HistoryMessage \/ UNCHANGED vars
  <2>1. Still
    BY <1>7 DEF Still, vars, logVars, redisVars
  <2>2. \A v \in Views : \/ sockets'[v].inbox = sockets[v].inbox
                         \/ sockets'[v].inbox = <<>>
                         \/ sockets[v].inbox # <<>> /\ sockets'[v].inbox = Tail(sockets[v].inbox)
    BY <1>7, InboxSteps
  <2>. QED BY <1>2, <2>1, <2>2, BrowserInLine
<1>8. \/ \E s \in Services : \E what \in Says[s] : Emit(s, what)
      \/ \E s \in Services : Reply(s)
      \/ Dispatch
      \/ \E v \in Views : Join(v)
      \/ /\ Still \/ UNCHANGED vars
         /\ \/ \E p \in Pages : Open(p)
            \/ \E r : ServeLog(r) \/ LogAnswer(r) \/ ServePreload(r) \/ PreloadAnswer(r)
            \/ LogMessage \/ HistoryMessage \/ UNCHANGED vars
  BY CleanSteps
<1>. QED BY <1>3, <1>4, <1>5, <1>6, <1>7, <1>8

-----------------------------------------------------------------------------
(***************************************************************************)
(* The daemon log.  What it shows or is about to show, q, is of the        *)
(* account a, without repetitions, up to the emission e, and nothing of it *)
(* is still on the way w.  With what is on the way it has all of the list. *)
(***************************************************************************)
EntriesOK(q, a, w, e) ==
    /\ \A m \in ToSet(q) : a \in {None, m.delegator} /\ m.n <= e
    /\ NoDuplicates(q)
    /\ ToSet(q) \cap w = {}
LogFits ==
    /\ logRequests # {} => page.view = "log"
    /\ \A r \in logRequests :
         /\ r.for = page.account
         /\ r.served => /\ EntriesOK(r.reply, page.account, OnTheWay("log"), emitted)
                        /\ ToSet(lists[ListName(page.account)]) \subseteq ToSet(r.reply) \cup OnTheWay("log")
    /\ page.view = "log" /\ logRequests = {} =>
         /\ ~log.loading /\ ~log.error
         /\ EntriesOK(log.entries, page.account, OnTheWay("log"), emitted)
         /\ Len(log.entries) < LogTail =>
              ToSet(lists[ListName(page.account)]) \subseteq ToSet(log.entries) \cup OnTheWay("log")
LogInv == Clean => LogFits

LEMMA InitLogInv == Init => LogInv
<1>. SUFFICES ASSUME Init PROVE LogInv
  OBVIOUS
<1>1. logRequests = {} /\ page.view # "log"
  BY DEF Init, Page
<1>. QED BY <1>1 DEF LogInv, LogFits

LEMMA ListNames == \A a \in Rooms : ListName(a) \in Lists \ {"ops"} /\ (a # None => ListName(a) = a /\ a \in Accounts)
BY AccountsAssumption DEF Rooms, Lists, ListName

\* What a list has is of its account, each entry once.
LEMMA ListEntries ==
    ASSUME LogTypeOK, ListsKept, ListNumbers, PushedOnce, Clean, NEW a \in Rooms,
           NEW q, q = lists[ListName(a)]
    PROVE  /\ q \in Seq(Messages) /\ NoDuplicates(q)
           /\ \A m \in ToSet(q) : a \in {None, m.delegator} /\ m.n <= emitted
<1>. DEFINE l == ListName(a)
<1>1. l \in Lists \ {"ops"} /\ (a # None => l = a /\ a \in Accounts)
  BY ListNames
<1>. HIDE DEF l
<1>2. q = lists[l] /\ q \in Seq(Messages) /\ said[l] \in Seq(Messages)
  BY <1>1 DEF LogTypeOK, l
<1>3. IsPrefix(q, said[l])
  BY <1>1, <1>2 DEF ListsKept
<1>4. NoDuplicates(said[l])
  BY <1>1 DEF PushedOnce, Clean
<1>5. NoDuplicates(q)
  BY <1>2, <1>3, <1>4, NoDuplicatesPrefix
<1>6. ToSet(q) \subseteq ToSet(said[l])
  <2>1. Len(q) <= Len(said[l]) /\ \A i \in DOMAIN q : q[i] = said[l][i]
    BY <1>2, <1>3, PrefixByPlaces
  <2>2. DOMAIN q = 1 .. Len(q) /\ DOMAIN said[l] = 1 .. Len(said[l]) /\ Len(q) \in Nat /\ Len(said[l]) \in Nat
    BY <1>2, LenProperties
  <2>3. DOMAIN q \subseteq DOMAIN said[l]
    BY <2>1, <2>2
  <2>. QED BY <2>1, <2>3 DEF ToSet
<1>7. \A m \in ToSet(said[l]) : m.n <= emitted
  BY <1>1 DEF ListNumbers
<1>8. a # None => \A m \in ToSet(said[l]) : m.delegator = a
  BY <1>1 DEF ListNumbers
<1>. QED BY <1>2, <1>5, <1>6, <1>7, <1>8

\* A push to a list, other than that of the operations, is of a message on the way.
LEMMA ListGrows ==
    ASSUME LogTypeOK, QueueInv, NEW s \in Services, Reply(s), NEW l \in Lists \ {"ops"}
    PROVE  ToSet(lists'[l]) \subseteq ToSet(lists[l]) \cup Unfinished
<1>. DEFINE m == pipe[s][1][1].msg
<1>1. m \in Messages /\ (m.n > 0 => m \in Unfinished)
  BY WayReply
<1>2. lists[l] \in Seq(Messages) /\ MaxHistory + 1 \in Nat
  BY LogBounds DEF LogTypeOK
<1>3. /\ pipe[s] # <<>> /\ pipe[s][1] \in Seq(Task) /\ pipe[s][1] # <<>> /\ pipe[s][1][1] \in Task
      /\ Execute(pipe[s][1][1]) /\ 1 \in DOMAIN pipe[s]
  BY ReplyMoves
<1>4. CASE pipe[s][1][1].do = Push(l)
  <2>1. lists'[l] = <<m>> \o lists[l]
    BY <1>3, <1>4, Executed
  <2>2. ToSet(lists'[l]) = {m} \cup ToSet(lists[l])
    BY <1>1, <1>2, <2>1, PutFirst
  <2>3. m.n > 0
    <3>1. WorkOK(s, pipe[s][1])
      BY <1>3 DEF QueueInv, WorksOK
    <3>2. 1 \in DOMAIN pipe[s][1]
      BY <1>3, TakeFirst
    <3>. QED BY <1>3, <1>4, <3>1, <3>2, Pushed
  <2>. QED BY <1>1, <2>2, <2>3
<1>5. CASE pipe[s][1][1].do = Trim(l)
  <2>1. lists'[l] = IF Len(lists[l]) > MaxHistory + 1 THEN SubSeq(lists[l], 1, MaxHistory + 1) ELSE lists[l]
    BY <1>3, <1>5, Executed
  <2>2. CASE Len(lists[l]) > MaxHistory + 1
    <3>1. MaxHistory + 1 <= Len(lists[l])
      BY <1>2, <2>2, LenProperties
    <3>2. ToSet(SubSeq(lists[l], 1, MaxHistory + 1)) \subseteq ToSet(lists[l])
      BY <1>2, <3>1, CutOff
    <3>. QED BY <2>1, <2>2, <3>2
  <2>3. CASE ~(Len(lists[l]) > MaxHistory + 1)
    BY <2>1, <2>3
  <2>. QED BY <2>2, <2>3
<1>6. CASE pipe[s][1][1].do # Push(l) /\ pipe[s][1][1].do # Trim(l)
  BY <1>3, <1>6, Executed
<1>. QED BY <1>4, <1>5, <1>6

\* The steps of the backend bring nothing into the log but what is on the way to it.
LEMMA LogGoesOn ==
    ASSUME LogTypeOK, QueueInv, ListsKept, ListNumbers, PushedOnce, SocketsOK, InLine, Clean,
           page.view = "log", NEW a \in Rooms, a = page.account,
           \/ \E s \in Services : \E what \in Says[s] : Emit(s, what)
           \/ \E s \in Services : Reply(s)
           \/ Dispatch /\ \A v \in Views : sockets[v].open => sockets[v].joined
           \/ \E v \in Views : Join(v)
    PROVE  /\ \A q \in Seq(Messages) :
                EntriesOK(q, a, OnTheWay("log"), emitted) => EntriesOK(q, a, OnTheWay("log")', emitted')
           /\ \A S : ToSet(lists[ListName(a)]) \subseteq S \cup OnTheWay("log") =>
                     ToSet(lists'[ListName(a)]) \subseteq S \cup OnTheWay("log")'
<1>v. "log" \in Views
  BY DEF Views
<1>l. ListName(a) \in Lists \ {"ops"}
  BY ListNames
<1>1. ASSUME NEW s \in Services, NEW what \in Says[s], Emit(s, what)
      PROVE  /\ \A q \in Seq(Messages) :
                EntriesOK(q, a, OnTheWay("log"), emitted) => EntriesOK(q, a, OnTheWay("log")', emitted')
             /\ \A S : ToSet(lists[ListName(a)]) \subseteq S \cup OnTheWay("log") =>
                       ToSet(lists'[ListName(a)]) \subseteq S \cup OnTheWay("log")'
  <2>1. PICK m \in Messages : /\ m.n = emitted + 1 /\ emitted' = emitted + 1 /\ lists' = lists
                              /\ OnTheWay("log")' = OnTheWay("log") \cup {m}
    BY <1>1, <1>v, EmitInLine
  <2>2. emitted \in Nat
    BY DEF LogTypeOK
  <2>3. ASSUME NEW q \in Seq(Messages), EntriesOK(q, a, OnTheWay("log"), emitted)
        PROVE  EntriesOK(q, a, OnTheWay("log")', emitted')
    <3>1. m \notin ToSet(q)
      BY <2>1, <2>2, <2>3 DEF EntriesOK
    <3>2. ASSUME NEW x \in ToSet(q) PROVE a \in {None, x.delegator} /\ x.n <= emitted + 1
      <4>1. a \in {None, x.delegator} /\ x.n <= emitted /\ x.n \in Int
        BY <2>3, ElementsTyped DEF EntriesOK
      <4>. QED BY <2>2, <4>1
    <3>. QED BY <2>1, <2>2, <2>3, <3>1, <3>2 DEF EntriesOK
  <2>. QED BY <2>1, <2>3
<1>2. ASSUME NEW s \in Services, Reply(s)
      PROVE  /\ \A q \in Seq(Messages) :
                EntriesOK(q, a, OnTheWay("log"), emitted) => EntriesOK(q, a, OnTheWay("log")', emitted')
             /\ \A S : ToSet(lists[ListName(a)]) \subseteq S \cup OnTheWay("log") =>
                       ToSet(lists'[ListName(a)]) \subseteq S \cup OnTheWay("log")'
  <2>1. OnTheWay("log")' = OnTheWay("log") /\ emitted' = emitted
    BY <1>2, <1>v, ReplyInLine
  <2>2. ToSet(lists'[ListName(a)]) \subseteq ToSet(lists[ListName(a)]) \cup Unfinished
    BY <1>2, <1>l, ListGrows
  <2>3. Unfinished \subseteq OnTheWay("log")
    BY DEF OnTheWay
  <2>. QED BY <2>1, <2>2, <2>3
<1>3. ASSUME Dispatch, \A v \in Views : sockets[v].open => sockets[v].joined
      PROVE  /\ \A q \in Seq(Messages) :
                EntriesOK(q, a, OnTheWay("log"), emitted) => EntriesOK(q, a, OnTheWay("log")', emitted')
             /\ \A S : ToSet(lists[ListName(a)]) \subseteq S \cup OnTheWay("log") =>
                       ToSet(lists'[ListName(a)]) \subseteq S \cup OnTheWay("log")'
  <2>. DEFINE m == Head(channel)
  <2>1. /\ OnTheWay("log")' \cup {m} = OnTheWay("log")
        /\ InRoom("log", m) => OnTheWay("log")' = OnTheWay("log")
        /\ lists' = lists /\ emitted' = emitted
    BY <1>3, <1>v, DispatchInLine
  <2>. HIDE DEF m
  <2>2. ~InRoom("log", m) => m \notin ToSet(lists[ListName(a)])
    <3>1. sockets["log"].joined /\ sockets["log"].room = a
      BY <1>3, <1>v DEF SocketsOK
    <3>2. \A x \in ToSet(lists[ListName(a)]) : a \in {None, x.delegator}
      BY ListEntries
    <3>. QED BY <3>1, <3>2 DEF InRoom
  <2>. QED BY <2>1, <2>2 DEF EntriesOK
<1>4. ASSUME NEW v \in Views, Join(v)
      PROVE  /\ \A q \in Seq(Messages) :
                EntriesOK(q, a, OnTheWay("log"), emitted) => EntriesOK(q, a, OnTheWay("log")', emitted')
             /\ \A S : ToSet(lists[ListName(a)]) \subseteq S \cup OnTheWay("log") =>
                       ToSet(lists'[ListName(a)]) \subseteq S \cup OnTheWay("log")'
  BY <1>4, <1>v, JoinInLine
<1>. QED BY <1>1, <1>2, <1>3, <1>4

LEMMA SameWay ==
    ASSUME NEW v \in Views, UNCHANGED <<pipe, channel>>, sockets'[v].inbox = sockets[v].inbox
    PROVE  OnTheWay(v)' = OnTheWay(v) /\ Unfinished' = Unfinished
<1>1. Unfinished' = Unfinished
  BY DEF Unfinished
<1>. QED BY <1>1 DEF OnTheWay

LEMMA EventCounted == ASSUME LogTypeOK, Event PROVE events' \in Int
BY DEF LogTypeOK, Event

\* An entry from the socket is put first, and the oldest is dropped when there are too many.
LEMMA LogPut ==
    ASSUME NEW q \in Seq(Messages), NEW m \in Messages, NoDuplicates(q), m \notin ToSet(q),
           NEW t, t = <<m>> \o q, NEW u, u = IF Len(t) > LogTail THEN Front(t) ELSE t
    PROVE  /\ u \in Seq(Messages) /\ NoDuplicates(u) /\ ToSet(u) \subseteq ToSet(q) \cup {m}
           /\ Len(u) < LogTail => Len(q) < LogTail /\ ToSet(u) = ToSet(q) \cup {m}
<1>1. t \in Seq(Messages) /\ Len(t) = Len(q) + 1 /\ Len(q) \in Nat /\ ToSet(t) = {m} \cup ToSet(q)
  BY PutFirst
<1>2. NoDuplicates(t)
  BY NoDuplicatesPut
<1>3. LogTail \in Nat \ {0}
  BY ViewBounds
<1>4. CASE Len(t) > LogTail
  <2>1. u = SubSeq(t, 1, Len(t) - 1)
    BY <1>4 DEF Front
  <2>2. /\ u \in Seq(Messages) /\ Len(u) = Len(t) - 1 /\ ToSet(u) \subseteq ToSet(t)
        /\ \A i \in 1 .. (Len(t) - 1) : i \in DOMAIN t /\ u[i] = t[i]
    <3>. DEFINE n == Len(t) - 1
    <3>1. n \in Nat /\ n <= Len(t) /\ u = SubSeq(t, 1, n)
      BY <1>1, <2>1
    <3>. HIDE DEF n
    <3>a. /\ SubSeq(t, 1, n) \in Seq(Messages) /\ Len(SubSeq(t, 1, n)) = n
          /\ ToSet(SubSeq(t, 1, n)) \subseteq ToSet(t)
          /\ \A i \in 1 .. n : i \in DOMAIN t /\ SubSeq(t, 1, n)[i] = t[i]
      <4>1. t \in Seq(Messages) /\ n \in Nat /\ n <= Len(t)
        BY <1>1, <3>1
      <4>. QED BY ONLY <4>1, CutOff
    <3>2. u \in Seq(Messages) /\ Len(u) = n /\ ToSet(u) \subseteq ToSet(t)
      BY <3>1, <3>a
    <3>3. \A i \in 1 .. n : i \in DOMAIN t /\ u[i] = t[i]
      BY <3>1, <3>a
    <3>. QED BY <3>2, <3>3 DEF n
  <2>3. IsPrefix(u, t)
    <3>1. DOMAIN u = 1 .. Len(u)
      BY <2>2, LenProperties
    <3>2. Len(u) <= Len(t) /\ \A i \in DOMAIN u : u[i] = t[i]
      BY <1>1, <2>2, <3>1
    <3>. QED BY <1>1, <2>2, <3>2, PrefixByPlaces
  <2>4. NoDuplicates(u)
    BY <1>1, <1>2, <2>2, <2>3, NoDuplicatesPrefix
  <2>. QED BY <1>1, <1>3, <1>4, <2>2, <2>4
<1>5. CASE ~(Len(t) > LogTail)
  BY <1>1, <1>2, <1>3, <1>5
<1>. QED BY <1>4, <1>5

LEMMA NextLogInv ==
    /\ LogTypeOK /\ ViewTypeOK /\ QueueInv /\ ListsKept /\ ListNumbers /\ PushedOnce /\ SocketsOK
    /\ WayOK /\ LogInv /\ [Next]_vars
    => LogInv'
<1>. SUFFICES ASSUME LogTypeOK, ViewTypeOK, QueueInv, ListsKept, ListNumbers, PushedOnce, SocketsOK,
                     WayOK, LogInv, [Next]_vars, slips' \subseteq {"history kept"}
              PROVE  LogFits'
  BY DEF LogInv, Clean
<1>1. Clean
  BY CleanSteps
<1>2. InLine /\ LogFits
  BY <1>1 DEF WayOK, LogInv
<1>t. /\ "log" \in Views /\ log.entries \in Seq(Messages) /\ \A r \in logRequests : r.reply \in Seq(Messages)
      /\ page.account \in Rooms /\ logRequests \subseteq Requests
  BY DEF ViewTypeOK, Requests, Views
<1>3. CASE /\ Kept
           /\ \/ \E s \in Services : \E what \in Says[s] : Emit(s, what)
              \/ \E s \in Services : Reply(s)
              \/ Dispatch /\ \A v \in Views : sockets[v].open => sockets[v].joined
              \/ \E v \in Views : Join(v)
  <2>1. UNCHANGED <<page, log, logRequests>>
    BY <1>3 DEF Kept
  <2>2. CASE page.view = "log"
    <3>1. /\ \A q \in Seq(Messages) :
               EntriesOK(q, page.account, OnTheWay("log"), emitted) =>
               EntriesOK(q, page.account, OnTheWay("log")', emitted')
          /\ \A S : ToSet(lists[ListName(page.account)]) \subseteq S \cup OnTheWay("log") =>
                    ToSet(lists'[ListName(page.account)]) \subseteq S \cup OnTheWay("log")'
      BY <1>1, <1>2, <1>3, <1>t, <2>2, LogGoesOn
    <3>2. ASSUME NEW r \in logRequests
          PROVE  /\ r.for = page.account
                 /\ r.served => /\ EntriesOK(r.reply, page.account, OnTheWay("log")', emitted')
                                /\ ToSet(lists'[ListName(page.account)])
                                       \subseteq ToSet(r.reply) \cup OnTheWay("log")'
      BY <1>2, <1>t, <3>1 DEF LogFits
    <3>3. logRequests = {} =>
            /\ ~log.loading /\ ~log.error
            /\ EntriesOK(log.entries, page.account, OnTheWay("log")', emitted')
            /\ Len(log.entries) < LogTail =>
                 ToSet(lists'[ListName(page.account)]) \subseteq ToSet(log.entries) \cup OnTheWay("log")'
      BY <1>2, <1>t, <2>2, <3>1 DEF LogFits
    <3>. QED BY <2>1, <2>2, <3>2, <3>3 DEF LogFits
  <2>3. CASE page.view # "log"
    BY <1>2, <2>1, <2>3 DEF LogFits
  <2>. QED BY <2>2, <2>3
<1>4. ASSUME NEW p \in Pages, Open(p), ~(p.view = "log" /\ Stays(p) /\ logRequests # {}) PROVE LogFits'
  <2>1. CASE p.view = "log"
    <3>1. page' = p /\ p.account \in Rooms /\ Reload(p)
      BY <1>4, <2>1, OpenLog
    <3>2. logRequests' = {Request(events', p.account)}
      BY <1>4, <2>1, <3>1 DEF Reload
    <3>3. events' \in Int
      BY <1>4, EventCounted DEF Open
    <3>4. Request(events', p.account).for = p.account /\ ~Request(events', p.account).served
      BY <3>1, <3>3, RequestTypes
    <3>. QED BY <2>1, <3>1, <3>2, <3>4 DEF LogFits
  <2>2. CASE p.view # "log"
    BY <1>4, <2>2, OpenHistory DEF LogFits
  <2>. QED BY <2>1, <2>2
<1>5. ASSUME Still, sockets'["log"].inbox = sockets["log"].inbox, UNCHANGED <<page, log, logRequests>>
      PROVE  LogFits'
  <2>1. UNCHANGED <<lists, emitted>> /\ OnTheWay("log")' = OnTheWay("log")
    BY <1>5, SameWay, <1>t DEF Still
  <2>. QED BY <1>2, <1>5, <2>1 DEF LogFits
<1>6. ASSUME NEW r \in logRequests, Still, ServeLog(r), ToSet(lists[ListName(r.for)]) \cap OnTheWay("log") = {}
      PROVE  LogFits'
  <2>. DEFINE q == lists[ListName(r.for)]
  <2>1. /\ logRequests' = (logRequests \ {r}) \cup {Served(r, q)}
        /\ UNCHANGED <<page, log, sockets>>
    BY <1>6 DEF ServeLog, ListName, historyVars
  <2>2. UNCHANGED <<lists, emitted>> /\ OnTheWay("log")' = OnTheWay("log")
    BY <1>6, <1>t, <2>1, SameWay DEF Still
  <2>3. r.for = page.account /\ page.view = "log"
    BY <1>2 DEF LogFits
  <2>4. /\ q \in Seq(Messages) /\ NoDuplicates(q)
        /\ \A m \in ToSet(q) : page.account \in {None, m.delegator} /\ m.n <= emitted
    BY <1>1, <1>t, <2>3, ListEntries
  <2>5. EntriesOK(q, page.account, OnTheWay("log"), emitted)
    BY <1>6, <2>4 DEF EntriesOK
  <2>6. ToSet(lists[ListName(page.account)]) \subseteq ToSet(q) \cup OnTheWay("log")
    BY <2>3
  <2>. HIDE DEF q
  <2>7. Served(r, q).for = r.for /\ Served(r, q).served /\ Served(r, q).reply = q
    BY <1>t, <2>4, RequestTypes
  <2>8. ASSUME NEW x \in logRequests'
        PROVE  /\ x.for = page.account
               /\ x.served => /\ EntriesOK(x.reply, page.account, OnTheWay("log"), emitted)
                              /\ ToSet(lists[ListName(page.account)]) \subseteq ToSet(x.reply) \cup OnTheWay("log")
    <3>1. CASE x = Served(r, q)
      BY <2>3, <2>5, <2>6, <2>7, <3>1
    <3>2. CASE x \in logRequests
      BY <1>2, <3>2 DEF LogFits
    <3>. QED BY <2>1, <3>1, <3>2
  <2>9. logRequests' # {}
    BY <2>1
  <2>. QED BY <2>1, <2>2, <2>3, <2>8, <2>9 DEF LogFits
<1>7. ASSUME NEW r \in logRequests, LogAnswer(r) PROVE LogFits'
  <2>1. /\ r.served /\ logRequests' = logRequests \ {r}
        /\ log' = [entries |-> r.reply, loading |-> FALSE, error |-> FALSE]
        /\ UNCHANGED <<page, lists, pipe, channel, sockets, emitted>>
    BY <1>7 DEF LogAnswer, logVars, redisVars
  <2>2. OnTheWay("log")' = OnTheWay("log")
    BY <1>t, <2>1, SameWay
  <2>3. log'.entries = r.reply /\ ~log'.loading /\ ~log'.error
    BY <2>1
  <2>4. /\ EntriesOK(r.reply, page.account, OnTheWay("log"), emitted)
        /\ ToSet(lists[ListName(page.account)]) \subseteq ToSet(r.reply) \cup OnTheWay("log")
    BY <1>2, <2>1 DEF LogFits
  <2>5. \A x \in logRequests' : x \in logRequests
    BY <2>1
  <2>. QED BY <1>2, <2>1, <2>2, <2>3, <2>4, <2>5 DEF LogFits
<1>8. ASSUME Still, LogMessage, logRequests = {} PROVE LogFits'
  <2>. DEFINE m == Head(sockets["log"].inbox)
              t == <<m>> \o log.entries
              u == IF Len(t) > LogTail THEN Front(t) ELSE t
  <2>1. /\ sockets["log"].inbox # <<>>
        /\ sockets' = [sockets EXCEPT !["log"].inbox = Tail(@)]
        /\ log' = [log EXCEPT !.entries = u]
        /\ UNCHANGED <<page, logRequests, lists, emitted>>
    BY <1>8 DEF LogMessage, Still
  <2>2. CASE page.view # "log"
    BY <1>8, <2>1, <2>2 DEF LogFits
  <2>3. CASE page.view = "log"
    <3>1. m \in Messages /\ sockets["log"].inbox \in Seq(Messages) /\ sockets'["log"].inbox = Tail(sockets["log"].inbox)
      BY <1>t, <2>1, Packet
    <3>2. /\ \A y \in OnTheWay("log")' : Ahead(m, y)
          /\ OnTheWay("log") = OnTheWay("log")' \cup {m}
      <4>1. \A v \in Views : \/ sockets'[v].inbox = sockets[v].inbox
                             \/ sockets'[v].inbox = <<>>
                             \/ sockets[v].inbox # <<>> /\ sockets'[v].inbox = Tail(sockets[v].inbox)
        BY <1>8, InboxSteps
      <4>. QED BY <1>2, <1>8, <1>t, <2>1, <3>1, <4>1, BrowserInLine
    <3>3. /\ ~log.loading /\ ~log.error
          /\ EntriesOK(log.entries, page.account, OnTheWay("log"), emitted)
          /\ Len(log.entries) < LogTail =>
               ToSet(lists[ListName(page.account)]) \subseteq ToSet(log.entries) \cup OnTheWay("log")
      BY <1>2, <1>8, <2>3 DEF LogFits
    <3>4. m \notin ToSet(log.entries) /\ m \in OnTheWay("log") /\ NoDuplicates(log.entries)
      BY <3>2, <3>3 DEF EntriesOK
    <3>5. /\ u \in Seq(Messages) /\ NoDuplicates(u) /\ ToSet(u) \subseteq ToSet(log.entries) \cup {m}
          /\ Len(u) < LogTail => Len(log.entries) < LogTail /\ ToSet(u) = ToSet(log.entries) \cup {m}
      <4>1. t = <<m>> \o log.entries /\ u = IF Len(t) > LogTail THEN Front(t) ELSE t
        OBVIOUS
      <4>2. log.entries \in Seq(Messages) /\ m \in Messages
        BY <1>t, <3>1
      <4>. DEFINE q == log.entries
      <4>3. q \in Seq(Messages) /\ t = <<m>> \o q /\ m \notin ToSet(q) /\ NoDuplicates(q)
        BY <3>4, <4>1, <4>2
      <4>. HIDE DEF t, u, m, q
      <4>4. /\ u \in Seq(Messages) /\ NoDuplicates(u) /\ ToSet(u) \subseteq ToSet(q) \cup {m}
            /\ Len(u) < LogTail => Len(q) < LogTail /\ ToSet(u) = ToSet(q) \cup {m}
        BY <4>1, <4>2, <4>3, LogPut
      <4>. QED BY <4>4 DEF q
    <3>6. page.account \in {None, m.delegator} /\ m.n <= emitted
      <4>1. m \in ToSet(sockets["log"].inbox)
        BY <2>1, <3>1, TakeFirst
      <4>. QED BY <1>2, <1>t, <2>3, <3>4, <4>1 DEF SocketsOK, InLine
    <3>7. log'.entries = u /\ ~log'.loading /\ ~log'.error
      BY <2>1, <3>3 DEF ViewTypeOK
    <3>. HIDE DEF u, t, m
    <3>8. EntriesOK(u, page.account, OnTheWay("log")', emitted)
      <4>1. \A x \in ToSet(u) : page.account \in {None, x.delegator} /\ x.n <= emitted
        BY <3>3, <3>5, <3>6 DEF EntriesOK
      <4>2. m \notin OnTheWay("log")'
        BY <3>2 DEF Ahead
      <4>3. ToSet(u) \cap OnTheWay("log")' = {}
        BY <3>2, <3>3, <3>5, <4>2 DEF EntriesOK
      <4>. QED BY <3>5, <4>1, <4>3 DEF EntriesOK
    <3>9. Len(u) < LogTail => ToSet(lists[ListName(page.account)]) \subseteq ToSet(u) \cup OnTheWay("log")'
      BY <3>2, <3>3, <3>5
    <3>. QED BY <1>8, <2>1, <2>3, <3>7, <3>8, <3>9 DEF LogFits
  <2>. QED BY <2>2, <2>3
<1>9. ASSUME NEW r, ServePreload(r) \/ PreloadAnswer(r), Still PROVE LogFits'
  <2>1. UNCHANGED <<page, log, logRequests, sockets>>
    BY <1>9 DEF ServePreload, PreloadAnswer, logVars, logViewVars
  <2>. QED BY <1>5, <1>9, <2>1
<1>10. ASSUME HistoryMessage, Still PROVE LogFits'
  <2>1. UNCHANGED <<page, log, logRequests>> /\ sockets' = [sockets EXCEPT !["history"].inbox = Tail(@)]
        /\ sockets["history"].inbox # <<>>
    BY <1>10 DEF HistoryMessage, logViewVars
  <2>2. sockets'["log"].inbox = sockets["log"].inbox
    BY <2>1, Packet DEF Views
  <2>. QED BY <1>5, <1>10, <2>1, <2>2
<1>11. CASE UNCHANGED vars
  <2>1. Still /\ UNCHANGED <<page, log, logRequests, sockets>>
    BY <1>11 DEF vars, logVars, redisVars, viewVars, logViewVars, Still
  <2>. QED BY <1>5, <2>1
<1>. QED BY <1>3, <1>4, <1>6, <1>7, <1>8, <1>9, <1>10, <1>11, CleanSteps

-----------------------------------------------------------------------------
(***************************************************************************)
(* The history.  An operation that is known and no longer on its way to    *)
(* the history is older than all that are.                                 *)
(***************************************************************************)
Behind(S, w) == \A x \in S : \A y \in w : y.voter # None => x.n < y.n
KnownInOrder == Clean => Behind(Known \ OnTheWay("history"), OnTheWay("history"))

LEMMA KnownFacts ==
    ASSUME LogTypeOK, ListNumbers
    PROVE  /\ \A x \in Known : x \in Messages /\ x.n \in Int /\ x.voter # None /\ x.n <= emitted
           /\ emitted \in Nat /\ "history" \in Views
<1>1. \A x \in Known : x \in Messages /\ x.n \in Int
  BY KnownTyped
<1>2. emitted \in Nat /\ "history" \in Views /\ "ops" \in Lists
  BY DEF LogTypeOK, Views, Lists
<1>3. \A x \in ToSet(said["ops"]) : x.voter # None /\ x.n <= emitted
  BY <1>2 DEF ListNumbers
<1>4. ASSUME NEW x \in ToSet(Past) PROVE x.voter # None /\ x.n <= emitted
  <2>1. x.n \in Int /\ x.n <= 0 /\ x.voter # None
    BY PastTyped
  <2>. QED BY <1>2, <2>1
<1>. QED BY <1>1, <1>2, <1>3, <1>4 DEF Known

LEMMA InitKnownInOrder == Init => KnownInOrder
<1>. SUFFICES ASSUME Init PROVE KnownInOrder
  OBVIOUS
<1>1. OnTheWay("history") = {}
  BY InitWay, NothingIn DEF OnTheWay, Views
<1>. QED BY <1>1 DEF KnownInOrder, Behind

\* What is pushed to the list of operations by an emission is still on its way.
LEMMA KnownGrows ==
    ASSUME LogTypeOK, QueueInv, NEW s \in Services, Reply(s), [Next]_vars, Clean,
           slips' \subseteq {"history kept"}
    PROVE  Known' \subseteq Known \cup Unfinished
<1>1. ASSUME NEW u \in Services, pipe[u] # <<>>, Num(pipe[u][1]) > 0
      PROVE  pipe[u][1][1].msg \in Unfinished
  <2>1. 1 \in DOMAIN pipe[u]
    BY <1>1, FirstTask
  <2>. QED BY <1>1, <2>1, UnfinishedIs DEF Num
<1>2. CASE \E u \in Services : /\ pipe[u] # <<>> /\ Num(pipe[u][1]) > 0
                               /\ Known' = Known \cup {pipe[u][1][1].msg}
  <2>1. PICK u \in Services : /\ pipe[u] # <<>> /\ Num(pipe[u][1]) > 0
                              /\ Known' = Known \cup {pipe[u][1][1].msg}
    BY <1>2
  <2>. QED BY <1>1, <2>1
<1>3. \/ Known' = Known
      \/ \E u \in Services : /\ pipe[u] # <<>> /\ Num(pipe[u][1]) > 0
                             /\ Known' = Known \cup {pipe[u][1][1].msg}
  BY KnownStep
<1>. QED BY <1>2, <1>3

LEMMA NextKnownInOrder ==
    /\ LogTypeOK /\ ViewTypeOK /\ QueueInv /\ ListNumbers /\ SocketsOK /\ WayOK /\ KnownInOrder /\ [Next]_vars
    => KnownInOrder'
<1>. SUFFICES ASSUME LogTypeOK, ViewTypeOK, QueueInv, ListNumbers, SocketsOK, WayOK, KnownInOrder, [Next]_vars,
                     slips' \subseteq {"history kept"}
              PROVE  Behind(Known' \ OnTheWay("history")', OnTheWay("history")')
  BY DEF KnownInOrder, Clean
<1>1. Clean
  BY CleanSteps
<1>2. InLine /\ Behind(Known \ OnTheWay("history"), OnTheWay("history"))
  BY <1>1 DEF WayOK, KnownInOrder
<1>k. /\ \A x \in Known : x \in Messages /\ x.n \in Int /\ x.voter # None /\ x.n <= emitted
      /\ emitted \in Nat /\ "history" \in Views
  BY KnownFacts
<1>3. ASSUME UNCHANGED said PROVE Known' = Known
  BY <1>3 DEF Known
<1>4. ASSUME NEW s \in Services, NEW what \in Says[s], Emit(s, what)
      PROVE  Behind(Known' \ OnTheWay("history")', OnTheWay("history")')
  <2>1. PICK m \in Messages : m.n = emitted + 1 /\ OnTheWay("history")' = OnTheWay("history") \cup {m}
    BY <1>2, <1>4, <1>k, EmitInLine
  <2>2. Known' = Known
    BY <1>2, <1>3, <1>4, EmitInLine
  <2>3. ASSUME NEW x \in Known PROVE x.n < m.n
    <3>1. x.n \in Int /\ x.n <= emitted /\ emitted \in Nat
      BY <1>k
    <3>. QED BY ONLY <2>1, <3>1
  <2>. QED BY <1>2, <2>1, <2>2, <2>3 DEF Behind
<1>5. ASSUME NEW s \in Services, Reply(s)
      PROVE  Behind(Known' \ OnTheWay("history")', OnTheWay("history")')
  <2>1. OnTheWay("history")' = OnTheWay("history")
    BY <1>2, <1>5, <1>k, ReplyInLine
  <2>2. Known' \subseteq Known \cup Unfinished
    BY <1>1, <1>5, KnownGrows
  <2>3. Known' \ OnTheWay("history")' \subseteq Known \ OnTheWay("history")
    BY <2>1, <2>2 DEF OnTheWay
  <2>. QED BY <1>2, <2>1, <2>3 DEF Behind
<1>6. ASSUME NEW m, OnTheWay("history")' \cup {m} = OnTheWay("history"), Known' = Known,
             OnTheWay("history")' = OnTheWay("history") \/ \A y \in OnTheWay("history")' : Ahead(m, y)
      PROVE  Behind(Known' \ OnTheWay("history")', OnTheWay("history")')
  <2>. SUFFICES ASSUME NEW x \in Known, x \notin OnTheWay("history")', NEW y \in OnTheWay("history")', y.voter # None
                PROVE  x.n < y.n
    BY <1>6 DEF Behind
  <2>1. CASE x \notin OnTheWay("history")
    BY <1>2, <1>6, <2>1 DEF Behind
  <2>2. CASE x \in OnTheWay("history")
    <3>1. x = m /\ Ahead(m, y)
      BY <1>6, <2>2
    <3>. QED BY <1>k, <3>1 DEF Ahead
  <2>. QED BY <2>1, <2>2
<1>7. CASE Dispatch
  <2>. DEFINE m == Head(channel)
  <2>1. /\ OnTheWay("history")' \cup {m} = OnTheWay("history")
        /\ InRoom("history", m) => OnTheWay("history")' = OnTheWay("history")
        /\ \A y \in Unfinished' \cup ToSet(channel') : Ahead(m, y)
        /\ said' = said
    BY <1>2, <1>7, <1>k, DispatchInLine
  <2>2. ~InRoom("history", m) => sockets'["history"].inbox = sockets["history"].inbox
    BY <1>7, <1>k, DispatchMoves
  <2>. HIDE DEF m
  <2>3. ASSUME ~InRoom("history", m) PROVE \A y \in OnTheWay("history")' : Ahead(m, y)
    <3>1. ~sockets["history"].joined
      BY <2>3, <1>k DEF InRoom, SocketsOK
    <3>2. sockets'["history"].inbox = <<>>
      BY <1>k, <2>2, <2>3, <3>1 DEF SocketsOK
    <3>4. OnTheWay("history")' = Unfinished' \cup ToSet(channel')
      BY <3>2, NothingIn DEF OnTheWay
    <3>. QED BY <2>1, <3>4
  <2>. QED BY <1>3, <1>6, <2>1, <2>3
<1>8. ASSUME NEW v \in Views, Join(v)
      PROVE  Behind(Known' \ OnTheWay("history")', OnTheWay("history")')
  <2>1. OnTheWay("history")' = OnTheWay("history") /\ said' = said
    BY <1>2, <1>8, <1>k, JoinInLine
  <2>. QED BY <1>2, <1>3, <2>1
<1>9. ASSUME Still,
             \/ \E p \in Pages : Open(p)
             \/ \E r : ServeLog(r) \/ LogAnswer(r) \/ ServePreload(r) \/ PreloadAnswer(r)
             \/ LogMessage \/ HistoryMessage \/ UNCHANGED vars
      PROVE  Behind(Known' \ OnTheWay("history")', OnTheWay("history")')
  <2>1. \A v \in Views : \/ sockets'[v].inbox = sockets[v].inbox
                         \/ sockets'[v].inbox = <<>> /\ v = "log"
                         \/ sockets[v].inbox # <<>> /\ sockets'[v].inbox = Tail(sockets[v].inbox)
    BY <1>9, InboxSteps
  <2>2. Known' = Known
    BY <1>3, <1>9 DEF Still
  <2>3. CASE sockets'["history"].inbox = sockets["history"].inbox
    <3>1. OnTheWay("history")' = OnTheWay("history")
      BY <1>9, <1>k, <2>3, SameWay DEF Still
    <3>. QED BY <1>2, <2>2, <3>1
  <2>4. CASE sockets["history"].inbox # <<>> /\ sockets'["history"].inbox = Tail(sockets["history"].inbox)
    <3>. DEFINE m == Head(sockets["history"].inbox)
    <3>1. OnTheWay("history") = OnTheWay("history")' \cup {m} /\ \A y \in OnTheWay("history")' : Ahead(m, y)
      BY <1>2, <1>9, <1>k, <2>1, <2>4, BrowserInLine
    <3>. HIDE DEF m
    <3>. QED BY <1>6, <2>2, <3>1
  <2>5. "history" # "log"
    OBVIOUS
  <2>. QED BY <1>k, <2>1, <2>3, <2>4, <2>5
<1>10. CASE UNCHANGED vars
  <2>1. Still
    BY <1>10 DEF vars, logVars, redisVars, Still
  <2>. QED BY <1>9, <1>10, <2>1
<1>. QED BY <1>4, <1>5, <1>7, <1>8, <1>9, <1>10, CleanSteps

(***************************************************************************)
(* What the history shows or is about to show, q, is of the account a, the *)
(* newest first, and older than all on the way w to it.  With that it has  *)
(* all that is known of the account, unless it is full.                    *)
(***************************************************************************)
OfAccount(S, a) == {m \in S : Touches(m, a)}
OpsOK(q, a, w, e) ==
    /\ \A m \in ToSet(q) : Touches(m, a) /\ m.n <= e
    /\ Descending(q)
    /\ Behind(ToSet(q), w)
HistoryFits ==
    /\ page.view = "history" => first.set /\ first.account = page.account
    /\ preload # {} => first.set /\ messages = <<>>
    /\ \A r \in preload :
         /\ r.for = first.account
         /\ r.served =>
              /\ OpsOK(r.reply, first.account, OnTheWay("history"), emitted)
              /\ Len(r.reply) < TailLength =>
                   OfAccount(Known, first.account) \subseteq ToSet(r.reply) \cup OnTheWay("history")
    /\ first.set /\ preload = {} =>
         /\ ~status.loading
         /\ OpsOK(messages, first.account, OnTheWay("history"), emitted)
         /\ Len(messages) < TailLength =>
              OfAccount(Known, first.account) \subseteq ToSet(messages) \cup OnTheWay("history")
HistoryInv == slips = {} => HistoryFits

LEMMA InitHistoryInv == Init => HistoryInv
<1>. SUFFICES ASSUME Init PROVE HistoryInv
  OBVIOUS
<1>1. preload = {} /\ page.view # "history" /\ ~first.set
  BY DEF Init, Page
<1>. QED BY <1>1 DEF HistoryInv, HistoryFits

\* The steps of the backend bring nothing that is known but not on its way to the history.
LEMMA HistoryGoesOn ==
    ASSUME LogTypeOK, ViewTypeOK, QueueInv, ListNumbers, SocketsOK, InLine, Clean, first.set, NEW a \in Rooms,
           [Next]_vars, Clean',
           \/ \E s \in Services : \E what \in Says[s] : Emit(s, what)
           \/ \E s \in Services : Reply(s)
           \/ Dispatch /\ \A v \in Views : sockets[v].open => sockets[v].joined
           \/ \E v \in Views : Join(v)
    PROVE  /\ \A q \in Seq(Messages) :
                OpsOK(q, a, OnTheWay("history"), emitted) => OpsOK(q, a, OnTheWay("history")', emitted')
           /\ \A S : OfAccount(Known, a) \subseteq S \cup OnTheWay("history") =>
                     OfAccount(Known', a) \subseteq S \cup OnTheWay("history")'
<1>v. "history" \in Views /\ emitted \in Nat
  BY DEF Views, LogTypeOK
<1>0. ASSUME UNCHANGED said PROVE Known' = Known
  BY <1>0 DEF Known
<1>1. ASSUME NEW s \in Services, NEW what \in Says[s], Emit(s, what)
      PROVE  /\ \A q \in Seq(Messages) :
                  OpsOK(q, a, OnTheWay("history"), emitted) => OpsOK(q, a, OnTheWay("history")', emitted')
             /\ \A S : OfAccount(Known, a) \subseteq S \cup OnTheWay("history") =>
                       OfAccount(Known', a) \subseteq S \cup OnTheWay("history")'
  <2>1. PICK m \in Messages : /\ m.n = emitted + 1 /\ emitted' = emitted + 1 /\ said' = said
                              /\ OnTheWay("history")' = OnTheWay("history") \cup {m}
    BY <1>1, <1>v, EmitInLine
  <2>2. ASSUME NEW q \in Seq(Messages), OpsOK(q, a, OnTheWay("history"), emitted)
        PROVE  OpsOK(q, a, OnTheWay("history")', emitted')
    <3>1. ASSUME NEW x \in ToSet(q) PROVE Touches(x, a) /\ x.n <= emitted + 1 /\ x.n < m.n
      <4>1. Touches(x, a) /\ x.n <= emitted /\ x.n \in Int
        BY <2>2, ElementsTyped DEF OpsOK
      <4>. QED BY <1>v, <2>1, <4>1
    <3>2. Behind(ToSet(q), OnTheWay("history")')
      BY <2>1, <2>2, <3>1 DEF OpsOK, Behind
    <3>. QED BY <2>1, <2>2, <3>1, <3>2 DEF OpsOK
  <2>3. Known' = Known
    BY <1>0, <2>1
  <2>. QED BY <2>1, <2>2, <2>3
<1>2. ASSUME NEW s \in Services, Reply(s)
      PROVE  /\ \A q \in Seq(Messages) :
                  OpsOK(q, a, OnTheWay("history"), emitted) => OpsOK(q, a, OnTheWay("history")', emitted')
             /\ \A S : OfAccount(Known, a) \subseteq S \cup OnTheWay("history") =>
                       OfAccount(Known', a) \subseteq S \cup OnTheWay("history")'
  <2>1. OnTheWay("history")' = OnTheWay("history") /\ emitted' = emitted
    BY <1>2, <1>v, ReplyInLine
  <2>2. Known' \subseteq Known \cup Unfinished
    BY <1>2, KnownGrows DEF Clean
  <2>3. Unfinished \subseteq OnTheWay("history")
    BY DEF OnTheWay
  <2>. QED BY <2>1, <2>2, <2>3 DEF OfAccount
<1>3. ASSUME Dispatch, \A v \in Views : sockets[v].open => sockets[v].joined
      PROVE  /\ \A q \in Seq(Messages) :
                  OpsOK(q, a, OnTheWay("history"), emitted) => OpsOK(q, a, OnTheWay("history")', emitted')
             /\ \A S : OfAccount(Known, a) \subseteq S \cup OnTheWay("history") =>
                       OfAccount(Known', a) \subseteq S \cup OnTheWay("history")'
  <2>. DEFINE m == Head(channel)
  <2>1. /\ InRoom("history", m) => OnTheWay("history")' = OnTheWay("history")
        /\ said' = said /\ emitted' = emitted
    BY <1>3, <1>v, DispatchInLine
  <2>. HIDE DEF m
  <2>2. InRoom("history", m)
    BY <1>3, <1>v DEF InRoom, SocketsOK
  <2>3. Known' = Known
    BY <1>0, <2>1
  <2>. QED BY <2>1, <2>2, <2>3
<1>4. ASSUME NEW v \in Views, Join(v)
      PROVE  /\ \A q \in Seq(Messages) :
                  OpsOK(q, a, OnTheWay("history"), emitted) => OpsOK(q, a, OnTheWay("history")', emitted')
             /\ \A S : OfAccount(Known, a) \subseteq S \cup OnTheWay("history") =>
                       OfAccount(Known', a) \subseteq S \cup OnTheWay("history")'
  <2>1. OnTheWay("history")' = OnTheWay("history") /\ said' = said /\ emitted' = emitted
    BY <1>4, <1>v, JoinInLine
  <2>. QED BY <1>0, <2>1
<1>. QED BY <1>1, <1>2, <1>3, <1>4

\* The answer to the preload: the newest of what is known, when none of that is on the way.
LEMMA PreloadReply ==
    ASSUME LogTypeOK, ListNumbers, Numbers(Known), NEW a \in Rooms,
           Behind(Known \ OnTheWay("history"), OnTheWay("history")), Known \cap OnTheWay("history") = {},
           NEW q, q = Capped(NewestFirst(KnownOf(a)), TailLength)
    PROVE  /\ q \in Seq(Messages) /\ OpsOK(q, a, OnTheWay("history"), emitted)
           /\ Len(q) < TailLength => OfAccount(Known, a) \subseteq ToSet(q)
<1>. DEFINE t == NewestFirst(KnownOf(a))
<1>1. KnownOf(a) = OfAccount(Known, a) /\ IsFiniteSet(KnownOf(a)) /\ KnownOf(a) \subseteq Known /\ Known \subseteq Messages
  BY KnownTyped DEF KnownOf, OfAccount
<1>2. Numbers(KnownOf(a))
  BY <1>1 DEF Numbers
<1>3. t \in Seq(Messages) /\ ToSet(t) = KnownOf(a) /\ Descending(t)
  BY <1>1, <1>2, NewestFirstIs
<1>. HIDE DEF t
<1>4. TailLength \in Nat \ {0} /\ q = Capped(t, TailLength)
  BY ViewBounds DEF t
<1>5. /\ q \in Seq(Messages) /\ ToSet(q) \subseteq ToSet(t) /\ (Len(q) < TailLength => q = t)
  BY <1>3, <1>4, CappedIs
<1>6. Descending(q)
  BY <1>3, <1>4, DescendingCapped
<1>7. \A m \in ToSet(q) : m \in Known /\ Touches(m, a) /\ m.n <= emitted
  BY <1>1, <1>3, <1>5, KnownFacts DEF OfAccount
<1>8. Behind(ToSet(q), OnTheWay("history"))
  <2>1. Known \ OnTheWay("history") = Known
    OBVIOUS
  <2>. QED BY <1>7, <2>1 DEF Behind
<1>. QED BY <1>1, <1>3, <1>5, <1>6, <1>7, <1>8 DEF OpsOK

\* The first on the way is put first.
LEMMA PutOperation ==
    ASSUME NEW q \in Seq(Messages), NEW m \in Messages, NEW a, NEW w, NEW e,
           OpsOK(q, a, w \cup {m}, e), Touches(m, a), m.n <= e, \A y \in w : Ahead(m, y),
           NEW c, c = Capped(<<m>> \o q, TailLength)
    PROVE  /\ OpsOK(c, a, w, e)
           /\ Len(c) < TailLength => Len(q) < TailLength /\ ToSet(c) = ToSet(q) \cup {m}
<1>. DEFINE t == <<m>> \o q
<1>1. t \in Seq(Messages) /\ Len(t) = Len(q) + 1 /\ Len(q) \in Nat /\ ToSet(t) = {m} \cup ToSet(q)
  BY PutFirst
<1>2. m.voter # None
  BY DEF Touches
<1>3. \A x \in ToSet(q) : x.n < m.n
  BY <1>2 DEF OpsOK, Behind
<1>4. Descending(t)
  BY <1>3, DescendingPut DEF OpsOK
<1>. HIDE DEF t
<1>5. TailLength \in Nat \ {0} /\ c = Capped(t, TailLength)
  BY ViewBounds DEF t
<1>6. c \in Seq(Messages) /\ ToSet(c) \subseteq ToSet(t) /\ (Len(c) < TailLength => c = t)
  BY <1>1, <1>5, CappedIs
<1>7. Descending(c)
  BY <1>1, <1>4, <1>5, DescendingCapped
<1>8. Behind({m}, w)
  BY <1>2 DEF Behind, Ahead
<1>9. Behind(ToSet(c), w)
  BY <1>1, <1>6, <1>8 DEF OpsOK, Behind
<1>10. \A x \in ToSet(c) : Touches(x, a) /\ x.n <= e
  BY <1>1, <1>6 DEF OpsOK
<1>11. Len(c) < TailLength => Len(q) < TailLength
  <2>1. ASSUME Len(c) < TailLength PROVE Len(q) + 1 < TailLength
    BY <1>1, <1>6, <2>1
  <2>2. TailLength \in Nat /\ Len(q) \in Nat
    BY <1>1, <1>5
  <2>. QED BY <2>1, <2>2
<1>. QED BY <1>1, <1>6, <1>7, <1>9, <1>10, <1>11 DEF OpsOK

\* Without a slip, a later history page is for the account of the first.
LEMMA SameAccount ==
    ASSUME LogTypeOK, ViewTypeOK, NEW p \in Pages, Open(p), p.view # "log", first.set, slips' = {}
    PROVE  p.account = first.account /\ first'.account = first.account
           /\ UNCHANGED <<messages, status, preload>>
<1>1. p.account = first.account
  <2>1. Slip(first.set /\ p.account # first.account, "history kept")
    BY DEF Open
  <2>. DEFINE race == first.set /\ p.account # first.account
  <2>2. race \in BOOLEAN /\ slips' = slips \cup IF race THEN {"history kept"} ELSE {}
    BY <2>1 DEF ViewTypeOK, Slip
  <2>. HIDE DEF race
  <2>3. ~race
    BY <2>2
  <2>. QED BY <2>3 DEF race
<1>2. SetParams(p) /\ p.account \in Rooms
  BY OpenHistory
<1>3. /\ UNCHANGED <<messages, status, preload>>
      /\ \/ first' = [first EXCEPT !.account = p.account]
         \/ first' = [first EXCEPT !.mounted = FALSE]
  BY <1>2 DEF SetParams
<1>4. first'.account = first.account
  BY <1>1, <1>3 DEF ViewTypeOK
<1>. QED BY <1>1, <1>3, <1>4

LEMMA NextHistoryInv ==
    /\ LogTypeOK /\ ViewTypeOK /\ QueueInv /\ ListNumbers /\ Numbered /\ SocketsOK /\ WayOK /\ KnownInOrder
    /\ HistoryInv /\ [Next]_vars
    => HistoryInv'
<1>. SUFFICES ASSUME LogTypeOK, ViewTypeOK, QueueInv, ListNumbers, Numbered, SocketsOK, WayOK, KnownInOrder,
                     HistoryInv, [Next]_vars, slips' = {}
              PROVE  HistoryFits'
  BY DEF HistoryInv
<1>0. slips = {} /\ Clean /\ Clean' /\ slips' \subseteq {"history kept"}
  BY Steps DEF Clean
<1>1. InLine /\ HistoryFits /\ Behind(Known \ OnTheWay("history"), OnTheWay("history"))
  BY <1>0 DEF WayOK, KnownInOrder, HistoryInv
<1>t. /\ "history" \in Views /\ messages \in Seq(Messages) /\ \A r \in preload : r.reply \in Seq(Messages)
      /\ first.account \in Rooms /\ preload \subseteq Requests
  BY DEF ViewTypeOK, Requests, Views
<1>2. CASE /\ Kept
           /\ \/ \E s \in Services : \E what \in Says[s] : Emit(s, what)
              \/ \E s \in Services : Reply(s)
              \/ Dispatch /\ \A v \in Views : sockets[v].open => sockets[v].joined
              \/ \E v \in Views : Join(v)
  <2>1. UNCHANGED <<page, messages, first, preload>> /\ status'.loading = status.loading
    BY <1>2 DEF Kept
  <2>2. CASE first.set
    <3>1. /\ \A q \in Seq(Messages) :
               OpsOK(q, first.account, OnTheWay("history"), emitted) =>
               OpsOK(q, first.account, OnTheWay("history")', emitted')
          /\ \A S : OfAccount(Known, first.account) \subseteq S \cup OnTheWay("history") =>
                    OfAccount(Known', first.account) \subseteq S \cup OnTheWay("history")'
      BY <1>0, <1>1, <1>2, <1>t, <2>2, HistoryGoesOn
    <3>2. ASSUME NEW r \in preload
          PROVE  /\ r.for = first.account
                 /\ r.served =>
                      /\ OpsOK(r.reply, first.account, OnTheWay("history")', emitted')
                      /\ Len(r.reply) < TailLength =>
                           OfAccount(Known', first.account) \subseteq ToSet(r.reply) \cup OnTheWay("history")'
      BY <1>1, <1>t, <3>1 DEF HistoryFits
    <3>3. preload = {} =>
            /\ ~status.loading
            /\ OpsOK(messages, first.account, OnTheWay("history")', emitted')
            /\ Len(messages) < TailLength =>
                 OfAccount(Known', first.account) \subseteq ToSet(messages) \cup OnTheWay("history")'
      BY <1>1, <1>t, <2>2, <3>1 DEF HistoryFits
    <3>. QED BY <1>1, <2>1, <2>2, <3>2, <3>3 DEF HistoryFits
  <2>3. CASE ~first.set
    BY <1>1, <2>1, <2>3 DEF HistoryFits
  <2>. QED BY <2>2, <2>3
<1>3. ASSUME Still, sockets'["history"].inbox = sockets["history"].inbox,
             UNCHANGED <<messages, preload>>, status'.loading = status.loading,
             first'.set = first.set, first'.account = first.account,
             page'.view = "history" => first.set /\ first.account = page'.account
      PROVE  HistoryFits'
  <2>1. UNCHANGED <<said, emitted>> /\ OnTheWay("history")' = OnTheWay("history")
    BY <1>3, <1>t, SameWay DEF Still
  <2>2. Known' = Known
    BY <2>1 DEF Known
  <2>. QED BY <1>1, <1>3, <2>1, <2>2 DEF HistoryFits
<1>4. ASSUME NEW p \in Pages, Open(p), Still PROVE HistoryFits'
  <2>1. CASE p.view = "log"
    <3>1. /\ page' = p /\ UNCHANGED <<messages, status, preload>>
          /\ first'.set = first.set /\ first'.account = first.account
          /\ sockets'["history"] = sockets["history"]
      BY <1>4, <2>1, OpenLog
    <3>. QED BY <1>3, <1>4, <2>1, <3>1
  <2>2. CASE p.view # "log" /\ first.set
    <3>1. page' = p /\ sockets'["history"] = sockets["history"] /\ first'.set
      BY <1>4, <2>2, OpenHistory
    <3>2. /\ p.account = first.account /\ first'.account = first.account
          /\ UNCHANGED <<messages, status, preload>>
      BY <1>4, <2>2, SameAccount
    <3>3. first'.set = first.set
      <4>1. first.set \in BOOLEAN /\ first'.set \in BOOLEAN
        BY NextViewTypeOK DEF ViewTypeOK
      <4>. QED BY <2>2, <3>1, <4>1
    <3>. QED BY <1>3, <1>4, <2>2, <3>1, <3>2, <3>3
  <2>3. CASE p.view # "log" /\ ~first.set
    <3>1. page' = p /\ SetParams(p) /\ p.account \in Rooms
      BY <1>4, <2>3, OpenHistory
    <3>2. /\ first' = [account |-> p.account, mounted |-> TRUE, set |-> TRUE]
          /\ messages' = <<>> /\ preload' = {Request(events', p.account)}
      BY <2>3, <3>1 DEF SetParams
    <3>3. first'.account = p.account /\ first'.set
      BY <3>2
    <3>4. events' \in Int
      BY <1>4, EventCounted DEF Open
    <3>5. Request(events', p.account).for = p.account /\ ~Request(events', p.account).served
      BY <3>1, <3>4, RequestTypes
    <3>. QED BY <3>1, <3>2, <3>3, <3>5 DEF HistoryFits
  <2>. QED BY <2>1, <2>2, <2>3
<1>5. ASSUME NEW r, ServeLog(r) \/ LogAnswer(r), Still PROVE HistoryFits'
  <2>1. UNCHANGED <<page, messages, status, first, preload, sockets>>
    BY <1>5 DEF ServeLog, LogAnswer, logVars, historyVars
  <2>2. page.view = "history" => first.set /\ first.account = page.account
    BY <1>1 DEF HistoryFits
  <2>. QED BY <1>3, <1>5, <2>1, <2>2
<1>6. ASSUME LogMessage, Still PROVE HistoryFits'
  <2>1. /\ UNCHANGED <<page, messages, status, first, preload>>
        /\ sockets' = [sockets EXCEPT !["log"].inbox = Tail(@)] /\ sockets["log"].inbox # <<>>
    BY <1>6 DEF LogMessage, historyVars
  <2>2. sockets'["history"].inbox = sockets["history"].inbox
    BY <2>1, Packet DEF Views
  <2>3. page.view = "history" => first.set /\ first.account = page.account
    BY <1>1 DEF HistoryFits
  <2>. QED BY <1>3, <1>6, <2>1, <2>2, <2>3
<1>7. ASSUME NEW r \in preload, ServePreload(r), Still, Known \cap OnTheWay("history") = {} PROVE HistoryFits'
  <2>. DEFINE q == Capped(NewestFirst(KnownOf(r.for)), TailLength)
  <2>1. /\ preload' = {Served(r, q)} /\ UNCHANGED <<page, messages, status, first, sockets, said, emitted, pipe, channel>>
    BY <1>7 DEF ServePreload, redisVars
  <2>2. OnTheWay("history")' = OnTheWay("history") /\ Known' = Known
    BY <1>t, <2>1, SameWay DEF Known
  <2>3. first.set /\ messages = <<>> /\ r.for = first.account
    BY <1>1, <1>7 DEF HistoryFits
  <2>4. /\ q \in Seq(Messages) /\ OpsOK(q, first.account, OnTheWay("history"), emitted)
        /\ Len(q) < TailLength => OfAccount(Known, first.account) \subseteq ToSet(q)
    BY <1>1, <1>7, <1>t, <2>3, PreloadReply DEF Numbered
  <2>. HIDE DEF q
  <2>5. Served(r, q).for = r.for /\ Served(r, q).served /\ Served(r, q).reply = q
    BY <1>t, <2>4, RequestTypes
  <2>. QED BY <1>1, <2>1, <2>2, <2>3, <2>4, <2>5 DEF HistoryFits
<1>8. ASSUME NEW r \in preload, PreloadAnswer(r) PROVE HistoryFits'
  <2>1. /\ r.served /\ preload' = {} /\ AppendMessages(r.reply) /\ status' = [status EXCEPT !.loading = FALSE]
        /\ UNCHANGED <<page, first, sockets, said, emitted, pipe, channel>>
    BY <1>8 DEF PreloadAnswer, logVars, redisVars
  <2>2. OnTheWay("history")' = OnTheWay("history") /\ Known' = Known
    BY <1>t, <2>1, SameWay DEF Known
  <2>3. messages = <<>> /\ first.set
    BY <1>1 DEF HistoryFits
  <2>. DEFINE q == r.reply
  <2>4. /\ q \in Seq(Messages) /\ OpsOK(q, first.account, OnTheWay("history"), emitted)
        /\ Len(q) < TailLength =>
             OfAccount(Known, first.account) \subseteq ToSet(q) \cup OnTheWay("history")
    BY <1>1, <1>t, <2>1 DEF HistoryFits
  <2>5. messages' = Capped(q, TailLength)
    <3>1. q \o <<>> = q
      BY <2>4
    <3>. QED BY <2>1, <2>3, <3>1 DEF AppendMessages
  <2>6. ~status'.loading
    BY <2>1 DEF ViewTypeOK
  <2>. HIDE DEF q
  <2>7. TailLength \in Nat \ {0}
    BY ViewBounds
  <2>8. /\ ToSet(messages') \subseteq ToSet(q)
        /\ Len(messages') < TailLength => messages' = q
        /\ Descending(messages')
    BY <2>4, <2>5, <2>7, CappedIs, DescendingCapped DEF OpsOK
  <2>9. OpsOK(messages', first.account, OnTheWay("history"), emitted)
    BY <2>4, <2>8 DEF OpsOK, Behind
  <2>10. Len(messages') < TailLength =>
            OfAccount(Known, first.account) \subseteq ToSet(messages') \cup OnTheWay("history")
    BY <2>4, <2>8
  <2>. QED BY <1>1, <2>1, <2>2, <2>3, <2>6, <2>9, <2>10 DEF HistoryFits
<1>9. ASSUME HistoryMessage, Still, preload = {} PROVE HistoryFits'
  <2>. DEFINE m == Head(sockets["history"].inbox)
  <2>1. /\ sockets["history"].inbox # <<>>
        /\ sockets' = [sockets EXCEPT !["history"].inbox = Tail(@)]
        /\ Touches(m, first.account) => messages' = Capped(<<m>> \o messages, TailLength)
        /\ ~Touches(m, first.account) => messages' = messages
        /\ UNCHANGED <<page, status, first, preload, said, emitted>>
    BY <1>9 DEF HistoryMessage, AppendMessages, Still
  <2>2. m \in Messages /\ sockets["history"].inbox \in Seq(Messages) /\ sockets'["history"].inbox = Tail(sockets["history"].inbox)
    BY <1>t, <2>1, Packet
  <2>3. /\ \A y \in OnTheWay("history")' : Ahead(m, y)
        /\ OnTheWay("history") = OnTheWay("history")' \cup {m}
    <3>1. \A v \in Views : \/ sockets'[v].inbox = sockets[v].inbox
                           \/ sockets'[v].inbox = <<>>
                           \/ sockets[v].inbox # <<>> /\ sockets'[v].inbox = Tail(sockets[v].inbox)
      BY <1>9, InboxSteps
    <3>. QED BY <1>1, <1>9, <1>t, <2>1, <2>2, <3>1, BrowserInLine
  <2>. HIDE DEF m
  <2>4. first.set
    BY <1>t, <2>1 DEF SocketsOK
  <2>5. /\ ~status.loading
        /\ OpsOK(messages, first.account, OnTheWay("history")' \cup {m}, emitted)
        /\ Len(messages) < TailLength =>
             OfAccount(Known, first.account) \subseteq ToSet(messages) \cup OnTheWay("history")
    BY <1>1, <1>9, <2>3, <2>4 DEF HistoryFits
  <2>6. m.n <= emitted
    BY <1>1, <1>t, <2>3 DEF InLine
  <2>7. Known' = Known
    BY <2>1 DEF Known
  <2>8. /\ OpsOK(messages', first.account, OnTheWay("history")', emitted)
        /\ Len(messages') < TailLength =>
             OfAccount(Known, first.account) \subseteq ToSet(messages') \cup OnTheWay("history")'
    <3>1. CASE Touches(m, first.account)
      <4>. DEFINE c == Capped(<<m>> \o messages, TailLength)
      <4>1. /\ OpsOK(c, first.account, OnTheWay("history")', emitted)
            /\ Len(c) < TailLength => Len(messages) < TailLength /\ ToSet(c) = ToSet(messages) \cup {m}
        BY <1>t, <2>2, <2>3, <2>5, <2>6, <3>1, PutOperation
      <4>2. messages' = c
        BY <2>1, <3>1
      <4>. HIDE DEF c
      <4>. QED BY <2>3, <2>5, <4>1, <4>2
    <3>2. CASE ~Touches(m, first.account)
      <4>1. messages' = messages
        BY <2>1, <3>2
      <4>2. OpsOK(messages, first.account, OnTheWay("history")', emitted)
        BY <2>5 DEF OpsOK, Behind
      <4>3. m \notin OfAccount(Known, first.account)
        BY <3>2 DEF OfAccount
      <4>. QED BY <2>3, <2>5, <4>1, <4>2, <4>3
    <3>. QED BY <3>1, <3>2
  <2>. QED BY <1>1, <1>9, <2>1, <2>4, <2>5, <2>7, <2>8 DEF HistoryFits
<1>10. CASE UNCHANGED vars
  <2>1. Still /\ UNCHANGED <<page, messages, status, first, preload, sockets>>
    BY <1>10 DEF vars, logVars, redisVars, viewVars, historyVars, Still
  <2>2. page.view = "history" => first.set /\ first.account = page.account
    BY <1>1 DEF HistoryFits
  <2>. QED BY <1>3, <2>1, <2>2
<1>. QED BY <1>0, <1>2, <1>4, <1>5, <1>6, <1>7, <1>8, <1>9, <1>10, CleanSteps

-----------------------------------------------------------------------------
\* When all is quiet nothing is on the way, and the views show what they should.
LEMMA NothingOnTheWay ==
    ASSUME NEW v \in Views, Quiet(v)
    PROVE  OnTheWay(v) = {}
<1>1. Unfinished = {}
  BY UnfinishedIs DEF Quiet
<1>. QED BY <1>1, NothingIn DEF Quiet, OnTheWay

LEMMA QuietViews ==
    ASSUME LogInv, HistoryInv
    PROVE  ViewsShown
<1>v. "log" \in Views /\ "history" \in Views
  BY DEF Views
<1>1. ASSUME slips \ {"history kept"} = {} PROVE LogShown
  <2>. SUFFICES ASSUME page.view = "log", Quiet("log"), logRequests = {}
                PROVE  /\ ~log.loading /\ ~log.error
                       /\ \A m \in ToSet(log.entries) : page.account \in {None, m.delegator}
                       /\ NoDuplicates(log.entries)
                       /\ Len(log.entries) < LogTail =>
                            ToSet(lists[ListName(page.account)]) \subseteq ToSet(log.entries)
    BY DEF LogShown, ListName
  <2>1. LogFits
    BY <1>1 DEF LogInv, Clean
  <2>2. OnTheWay("log") = {}
    BY <1>v, NothingOnTheWay
  <2>. QED BY <2>1, <2>2 DEF LogFits, EntriesOK
<1>2. ASSUME slips = {} PROVE HistoryShown
  <2>. SUFFICES ASSUME page.view = "history", Quiet("history"), preload = {}
                PROVE  /\ ~status.loading
                       /\ \A m \in ToSet(messages) : Touches(m, page.account)
                       /\ Descending(messages)
                       /\ Len(messages) < TailLength => KnownOf(page.account) \subseteq ToSet(messages)
    BY DEF HistoryShown
  <2>1. HistoryFits
    BY <1>2 DEF HistoryInv
  <2>2. OnTheWay("history") = {}
    BY <1>v, NothingOnTheWay
  <2>3. KnownOf(page.account) = OfAccount(Known, page.account)
    BY DEF KnownOf, OfAccount
  <2>. QED BY <2>1, <2>2, <2>3 DEF HistoryFits, OpsOK
<1>. QED BY <1>1, <1>2 DEF ViewsShown

LEMMA ViewsInvariants == Spec => [](PushedOnce /\ SocketsOK /\ WayOK /\ LogInv /\ KnownInOrder /\ HistoryInv)
<1>. DEFINE Inv == PushedOnce /\ SocketsOK /\ WayOK /\ LogInv /\ KnownInOrder /\ HistoryInv
            Base == ListsInv /\ Numbered /\ ViewTypeOK
<1>1. Init => Inv
  BY InitPushedOnce, InitSocketsOK, InitWayOK, InitLogInv, InitKnownInOrder, InitHistoryInv
<1>2. Base /\ Inv /\ [Next]_vars => Inv'
  BY NextPushedOnce, NextSocketsOK, NextWayOK, NextLogInv, NextKnownInOrder, NextHistoryInv
     DEF ListsInv
<1>3. Spec => []Base
  BY ViewsInvariant
<1>. HIDE DEF Inv, Base
<1>4. Spec => []Inv
  BY <1>1, <1>2, <1>3, PTL DEF Spec
<1>. QED BY <1>4 DEF Inv

(* When all is quiet the daemon log shows entries of the page's delegator, *)
(* each once, with all that Redis keeps unless the log is full, and the    *)
(* history shows the operations of the page's account, the newest first,   *)
(* with all that are known unless it is full, unless a race or a failure   *)
(* came in between: no interleaving of emissions, publications, joins and  *)
(* answers besides those breaks it.                                        *)
THEOREM LiveLogViewsShown == Spec => []ViewsShown
<1>1. LogInv /\ HistoryInv => ViewsShown
  BY QuietViews
<1>. QED BY <1>1, ViewsInvariants, PTL

=============================================================================
