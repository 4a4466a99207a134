---------------------------- MODULE AgentProofs ----------------------------
(***************************************************************************)
(* Theorems about a client process and its assistant, for every offer of a *)
(* host and every number of sessions, events, calls and requests of a turn.*)
(***************************************************************************)
EXTENDS AgentSession, FiniteSetTheorems, SequenceTheorems, WellFoundedInduction, TLAPS

LEMMA Numbers ==
  /\ MaxSteps \in Nat \ {0} /\ MaxSize \in Nat \ {0} /\ MaxCalls \in Nat \ {0}
  /\ MaxSessions \in Nat \ {0}
  /\ Transfer \in Nat /\ \A m \in 0..MaxSessions : m # Transfer
BY AgentAssumption, ClientAssumption

LEMMA LeastNumber ==
  ASSUME NEW S \in SUBSET Nat, S # {}
  PROVE  Min(S) \in S /\ \A y \in S : Min(S) <= y
<1>1. PICK x \in S : \A y \in S : ~(<<y, x>> \in OpToRel(<, Nat))
  BY WFMin, NatLessThanWellFounded
<1>2. ASSUME NEW y \in S PROVE x <= y
  <2>1. <<y, x>> \in Nat \X Nat /\ <<y, x>> \notin OpToRel(<, Nat)
    BY <1>1
  <2>2. ~(<<y, x>>[1] < <<y, x>>[2])
    BY <2>1 DEF OpToRel
  <2>3. QED
    BY <2>2
<1>3. QED
  BY <1>2 DEF Min

----------------------------------------------------------------------------
(* The conversation.                                                       *)

Messages == [role : {"user", "say", "calls", "tool"}, count : 0..MaxCalls]

Roles(conversation, role) == {i \in DOMAIN conversation : conversation[i].role = role}

\* A message of the model that calls tools, at most MaxCalls of them.
IsCalls(message) == message.role = "calls" /\ message.count \in 1..MaxCalls

LEMMA MessageTypes ==
  /\ User \in Messages /\ Say \in Messages
  /\ \A k \in 0..MaxCalls : Calls(k) \in Messages /\ Answer(k) \in Messages
  /\ User.role = "user" /\ Say.role = "say"
  /\ \A k : Calls(k).role = "calls" /\ Answer(k).role = "tool"
            /\ Calls(k).count = k /\ Answer(k).count = k
BY Numbers DEF Messages, User, Say, Calls, Answer

\* What Sound says of each message of a conversation.
Answered(c, i) ==
  c[i].role = "calls" =>
    \A k \in 1..c[i].count : i + k \in 1..Len(c) /\ c[i + k] = Answer(k)
Called(c, i) ==
  c[i].role = "tool" /\ (\E u \in 1..Len(c) : c[u].role = "user" /\ u < i) =>
    \E k \in c[i].count..MaxCalls :
      i - c[i].count \in 1..Len(c) /\ c[i - c[i].count] = Calls(k)

LEMMA SoundForm ==
  ASSUME NEW c \in Seq(Messages)
  PROVE  Sound(c) <=> \A i \in 1..Len(c) : Answered(c, i) /\ Called(c, i)
BY SMTT(60) DEF Sound, Answered, Called

LEMMA SoundEmpty == Sound(<<>>)
<1>1. <<>> \in Seq(Messages) /\ 1..Len(<<>>) = {}
  OBVIOUS
<1>2. PICK c \in Seq(Messages) : c = <<>> /\ 1..Len(c) = {}
  BY <1>1
<1>3. Sound(c)
  BY <1>2, SoundForm
<1>4. QED
  BY <1>2, <1>3

\* A message without calls, which answers none, may follow.
LEMMA SoundAppend ==
  ASSUME NEW c \in Seq(Messages), Sound(c), NEW m \in Messages,
         m.role \notin {"calls", "tool"}
  PROVE  Append(c, m) \in Seq(Messages) /\ Sound(Append(c, m))
<1>1. PICK d \in Seq(Messages) : d = Append(c, m)
  BY AppendProperties
<1>2. /\ Len(c) \in Int /\ Len(c) >= 0 /\ Len(d) = Len(c) + 1
      /\ d[Len(c) + 1] = m
      /\ \A i \in 1..Len(c) : d[i] = c[i] /\ c[i] \in Messages
  BY <1>1, AppendProperties
<1>3. ASSUME NEW i \in 1..Len(d) PROVE Answered(d, i) /\ Called(d, i)
  <2>1. CASE i = Len(c) + 1
    BY <1>2, <2>1 DEF Answered, Called
  <2>2. CASE i # Len(c) + 1
    <3>1. i \in 1..Len(c) /\ d[i] = c[i] /\ Answered(c, i) /\ Called(c, i)
      BY <1>2, <2>2, SoundForm
    <3>2. c[i].count \in 0..MaxCalls
      BY <1>2, <3>1 DEF Messages
    <3>3. Answered(d, i)
      <4>1. SUFFICES ASSUME d[i].role = "calls", NEW a \in 1..d[i].count
                     PROVE  i + a \in 1..Len(d) /\ d[i + a] = Answer(a)
        BY DEF Answered
      <4>2. i + a \in 1..Len(c) /\ c[i + a] = Answer(a)
        BY <3>1, <4>1 DEF Answered
      <4>3. QED
        BY <1>2, <4>2
    <3>4. Called(d, i)
      <4>1. SUFFICES ASSUME d[i].role = "tool",
                            NEW u \in 1..Len(d), d[u].role = "user", u < i
                     PROVE  \E a \in d[i].count..MaxCalls :
                              i - d[i].count \in 1..Len(d) /\ d[i - d[i].count] = Calls(a)
        BY DEF Called
      <4>2. u \in 1..Len(c) /\ c[u].role = "user" /\ c[i].role = "tool"
        BY <1>2, <3>1, <4>1
      <4>3. PICK a \in c[i].count..MaxCalls :
              i - c[i].count \in 1..Len(c) /\ c[i - c[i].count] = Calls(a)
        BY <3>1, <4>1, <4>2 DEF Called
      <4>4. i - c[i].count \in 1..Len(d) /\ d[i - c[i].count] = Calls(a)
        BY <1>2, <4>3
      <4>5. QED
        BY <1>2, <3>1, <4>3, <4>4
    <3>5. QED
      BY <3>3, <3>4
  <2>3. QED
    BY <2>1, <2>2
<1>4. QED
  BY <1>1, <1>3, SoundForm

\* What is left of a sound conversation without its oldest messages is sound: an answer
\* behind a user's message does not lose its call before it loses that message.
LEMMA SoundSuffix ==
  ASSUME NEW c \in Seq(Messages), Sound(c), NEW k \in 1..Len(c) + 1
  PROVE  SubSeq(c, k, Len(c)) \in Seq(Messages) /\ Sound(SubSeq(c, k, Len(c)))
<1>1. \A i \in 1..Len(c) : c[i] \in Messages
  OBVIOUS
<1>2. CASE k = Len(c) + 1
  <2>1. SubSeq(c, k, Len(c)) = <<>>
    BY <1>2
  <2>2. QED
    BY <2>1, SoundEmpty
<1>3. CASE k \in 1..Len(c)
  <2>1. PICK d \in Seq(Messages) : d = SubSeq(c, k, Len(c))
    <3>1. k \in Int /\ Len(c) \in Int /\ \A i \in k..Len(c) : i \in 1..Len(c)
      BY <1>3
    <3>2. \A i \in k..Len(c) : c[i] \in Messages
      BY <1>1, <3>1
    <3>3. QED
      BY <3>1, <3>2, SubSeqProperties
  <2>2. /\ Len(c) \in Int /\ Len(c) > 0 /\ Len(d) = Len(c) - k + 1 /\ k \in Int
        /\ \A i \in 1..Len(d) : d[i] = c[i + (k - 1)]
    <3>1. \A i \in 1..Len(c) - k + 1 : d[i] = c[k + i - 1]
      BY <1>3, <2>1, SubSeqProperties
    <3>2. Len(c) \in Int /\ Len(c) > 0 /\ k \in Int
      BY <1>3
    <3>3. Len(d) = Len(c) - k + 1
      BY <1>3, <2>1, SubSeqProperties
    <3>4. \A i \in 1..Len(d) : k + i - 1 = i + (k - 1)
      BY <3>2, <3>3
    <3>5. QED
      BY <3>1, <3>2, <3>3, <3>4
  <2>3. ASSUME NEW i \in 1..Len(d) PROVE Answered(d, i) /\ Called(d, i)
    <3>1. PICK j \in Int : j = i + (k - 1)
      BY <2>2
    <3>2. j \in 1..Len(c) /\ d[i] = c[j] /\ Answered(c, j) /\ Called(c, j)
      BY <2>2, <3>1, SoundForm
    <3>3. c[j].count \in 0..MaxCalls
      BY <1>1, <3>2 DEF Messages
    <3>4. Answered(d, i)
      <4>1. SUFFICES ASSUME d[i].role = "calls", NEW a \in 1..d[i].count
                     PROVE  i + a \in 1..Len(d) /\ d[i + a] = Answer(a)
        BY DEF Answered
      <4>2. j + a \in 1..Len(c) /\ c[j + a] = Answer(a)
        BY <3>2, <4>1 DEF Answered
      <4>3. QED
        BY SMTT(60), <2>2, <3>1, <3>3, <4>1, <4>2, Numbers
    <3>5. Called(d, i)
      <4>1. SUFFICES ASSUME d[i].role = "tool",
                            NEW u \in 1..Len(d), d[u].role = "user", u < i
                     PROVE  \E a \in d[i].count..MaxCalls :
                              i - d[i].count \in 1..Len(d) /\ d[i - d[i].count] = Calls(a)
        BY DEF Called
      <4>2. PICK v \in Int : v = u + (k - 1)
        BY <2>2
      <4>3. v \in 1..Len(c) /\ c[v].role = "user" /\ v < j
        BY <2>2, <3>1, <4>1, <4>2
      <4>4. PICK b \in Int, count \in Int : b = j - count /\ count = c[j].count
        BY <3>3, Numbers
      <4>5. b = j - count /\ count \in 0..MaxCalls
        BY <3>3, <4>4
      <4>6. PICK a \in Int : /\ a >= count /\ a <= MaxCalls
                             /\ b \in 1..Len(c) /\ c[b] = Calls(a)
        <5>1. PICK a \in c[j].count..MaxCalls :
                j - c[j].count \in 1..Len(c) /\ c[j - c[j].count] = Calls(a)
          BY <3>2, <4>1, <4>3 DEF Called
        <5>2. a \in Int /\ a >= count /\ a <= MaxCalls
          BY <3>3, <4>4, <5>1, Numbers
        <5>3. b = j - c[j].count
          BY <4>4
        <5>4. QED
          BY <5>1, <5>2, <5>3
      <4>7. c[b].role = "calls" /\ c[b].count = a
            /\ \A x \in 1..a : c[b + x] = Answer(x)
        <5>1. c[b].role = "calls" /\ c[b].count = a
          BY <4>6, MessageTypes
        <5>2. Answered(c, b)
          BY <4>6, SoundForm
        <5>3. QED
          BY <5>1, <5>2 DEF Answered
      <4>8. b # v /\ ~(b < v)
        <5>1. ASSUME b < v PROVE FALSE
          <6>1. v - b \in 1..a /\ b + (v - b) = v
            <7>1. v < j /\ count <= a
              BY <4>3, <4>6
            <7>2. QED
              BY <4>5, <5>1, <7>1
          <6>2. c[v] = Answer(v - b)
            BY <4>7, <6>1
          <6>3. QED
            BY <4>3, <6>2, MessageTypes
        <5>2. QED
          BY <4>3, <4>7, <5>1
      <4>9. v < b
        BY <4>8
      <4>10. i - c[j].count \in 1..Len(d) /\ d[i - c[j].count] = c[b]
        <5>1. count >= 0 /\ i - count \in 1..Len(d) /\ (i - count) + (k - 1) = b
          BY <2>2, <3>1, <4>2, <4>5, <4>9, Numbers
        <5>2. QED
          BY <2>2, <4>4, <5>1
      <4>11. QED
        BY <3>2, <4>4, <4>6, <4>10
    <3>6. QED
      BY <3>4, <3>5
  <2>4. QED
    BY <2>1, <2>3, SoundForm
<1>4. QED
  BY <1>2, <1>3
\* The model's last message, at l, has called m tools, of which the first ones were
\* answered; everything else is sound.
AskedAt(c, l, m) ==
  /\ c[l] = Calls(m) /\ Len(c) - l < m
  /\ \A k \in 1..Len(c) - l : c[l + k] = Answer(k)
  /\ \A i \in 1..Len(c) : (i # l => Answered(c, i)) /\ Called(c, i)
Asked(c) == \E l \in 1..Len(c) : \E m \in 1..MaxCalls : AskedAt(c, l, m)

\* The model calls tools.
LEMMA AskedAppend ==
  ASSUME NEW c \in Seq(Messages), Sound(c), NEW m \in 1..MaxCalls
  PROVE  Append(c, Calls(m)) \in Seq(Messages) /\ Asked(Append(c, Calls(m)))
<1>1. Calls(m) \in Messages /\ Calls(m).role = "calls"
  BY MessageTypes, Numbers
<1>2. PICK d \in Seq(Messages) : d = Append(c, Calls(m))
  BY <1>1, AppendProperties
<1>3. /\ Len(c) \in Int /\ Len(c) >= 0 /\ Len(d) = Len(c) + 1
      /\ d[Len(c) + 1] = Calls(m)
      /\ \A i \in 1..Len(c) : d[i] = c[i] /\ c[i] \in Messages
  BY <1>1, <1>2, AppendProperties
<1>4. ASSUME NEW i \in 1..Len(d) PROVE (i # Len(d) => Answered(d, i)) /\ Called(d, i)
  <2>1. CASE i = Len(c) + 1
    BY <1>1, <1>3, <2>1 DEF Called
  <2>2. CASE i # Len(c) + 1
    <3>1. i \in 1..Len(c) /\ d[i] = c[i] /\ Answered(c, i) /\ Called(c, i)
      BY <1>3, <2>2, SoundForm
    <3>2. c[i].count \in 0..MaxCalls
      BY <1>3, <3>1 DEF Messages
    <3>3. Answered(d, i)
      <4>1. SUFFICES ASSUME d[i].role = "calls", NEW a \in 1..d[i].count
                     PROVE  i + a \in 1..Len(d) /\ d[i + a] = Answer(a)
        BY DEF Answered
      <4>2. i + a \in 1..Len(c) /\ c[i + a] = Answer(a)
        BY <3>1, <4>1 DEF Answered
      <4>3. QED
        BY <1>3, <4>2
    <3>4. Called(d, i)
      <4>1. SUFFICES ASSUME d[i].role = "tool",
                            NEW u \in 1..Len(d), d[u].role = "user", u < i
                     PROVE  \E a \in d[i].count..MaxCalls :
                              i - d[i].count \in 1..Len(d) /\ d[i - d[i].count] = Calls(a)
        BY DEF Called
      <4>2. u \in 1..Len(c) /\ c[u].role = "user" /\ c[i].role = "tool"
        BY <1>3, <3>1, <4>1
      <4>3. PICK a \in c[i].count..MaxCalls :
              i - c[i].count \in 1..Len(c) /\ c[i - c[i].count] = Calls(a)
        BY <3>1, <4>1, <4>2 DEF Called
      <4>4. i - c[i].count \in 1..Len(d) /\ d[i - c[i].count] = Calls(a)
        BY <1>3, <4>3
      <4>5. QED
        BY <3>1, <4>3, <4>4
    <3>5. QED
      BY <3>3, <3>4
  <2>3. QED
    BY <2>1, <2>2
<1>5. AskedAt(d, Len(d), m)
  BY <1>3, <1>4 DEF AskedAt
<1>6. Len(d) \in 1..Len(d)
  BY <1>3
<1>7. QED
  BY <1>2, <1>5, <1>6 DEF Asked

\* One more of the calls is answered.
LEMMA AnswerAppend ==
  ASSUME NEW c \in Seq(Messages), NEW l \in 1..Len(c), NEW m \in 1..MaxCalls,
         AskedAt(c, l, m)
  PROVE  LET pending == Len(c) - l + 1
             told == Append(c, Answer(pending))
         IN  /\ pending \in 1..m
             /\ told \in Seq(Messages)
             /\ pending < m => Asked(told)
             /\ pending = m => Sound(told)
<1>1. PICK pending \in Int : pending = Len(c) - l + 1
  OBVIOUS
<1>2. /\ Len(c) \in Int /\ l \in Int /\ m \in Int /\ l >= 1 /\ l <= Len(c)
      /\ pending \in 1..m /\ m <= MaxCalls
  BY <1>1, Numbers DEF AskedAt
<1>3. Answer(pending) \in Messages /\ Answer(pending).role = "tool"
      /\ Answer(pending).count = pending
  BY <1>2, Numbers, MessageTypes
<1>4. PICK d \in Seq(Messages) : d = Append(c, Answer(pending))
  BY <1>3, AppendProperties
<1>5. /\ Len(d) = Len(c) + 1 /\ d[Len(c) + 1] = Answer(pending)
      /\ \A i \in 1..Len(c) : d[i] = c[i] /\ c[i] \in Messages
  BY <1>3, <1>4, AppendProperties
<1>6. d[l] = Calls(m) /\ \A k \in 1..pending : l + k \in 1..Len(d) /\ d[l + k] = Answer(k)
  <2>1. d[l] = Calls(m)
    BY <1>2, <1>5 DEF AskedAt
  <2>2. ASSUME NEW k \in 1..pending PROVE l + k \in 1..Len(d) /\ d[l + k] = Answer(k)
    <3>1. CASE k = pending
      <4>1. l + pending = Len(c) + 1
        BY <1>1, <1>2
      <4>2. QED
        BY <1>2, <1>5, <3>1, <4>1
    <3>2. CASE k # pending
      <4>1. k \in 1..Len(c) - l /\ l + k \in 1..Len(c)
        BY <1>1, <1>2, <3>2
      <4>2. c[l + k] = Answer(k)
        BY <4>1 DEF AskedAt
      <4>3. QED
        BY <1>2, <1>5, <4>1, <4>2
    <3>3. QED
      BY <3>1, <3>2
  <2>3. QED
    BY <2>1, <2>2
<1>7. ASSUME NEW i \in 1..Len(d) PROVE (i # l => Answered(d, i)) /\ Called(d, i)
  <2>1. CASE i = Len(c) + 1
    <3>1. d[i].role = "tool" /\ d[i].count = pending /\ i - pending = l
      BY <1>1, <1>2, <1>3, <1>5, <2>1
    <3>2. l \in 1..Len(d) /\ m \in pending..MaxCalls /\ d[l] = Calls(m)
      BY <1>2, <1>5, <1>6, Numbers
    <3>3. Called(d, i)
      BY <3>1, <3>2 DEF Called
    <3>4. QED
      BY <3>1, <3>3 DEF Answered
  <2>2. CASE i # Len(c) + 1
    <3>1. i \in 1..Len(c) /\ d[i] = c[i] /\ (i # l => Answered(c, i)) /\ Called(c, i)
      BY <1>2, <1>5, <2>2 DEF AskedAt
    <3>2. c[i].count \in 0..MaxCalls
      BY <1>5, <3>1 DEF Messages
    <3>3. ASSUME i # l PROVE Answered(d, i)
      <4>1. SUFFICES ASSUME d[i].role = "calls", NEW a \in 1..d[i].count
                     PROVE  i + a \in 1..Len(d) /\ d[i + a] = Answer(a)
        BY DEF Answered
      <4>2. i + a \in 1..Len(c) /\ c[i + a] = Answer(a)
        BY <3>1, <3>3, <4>1 DEF Answered
      <4>3. QED
        BY <1>2, <1>5, <4>2
    <3>4. Called(d, i)
      <4>1. SUFFICES ASSUME d[i].role = "tool",
                            NEW u \in 1..Len(d), d[u].role = "user", u < i
                     PROVE  \E a \in d[i].count..MaxCalls :
                              i - d[i].count \in 1..Len(d) /\ d[i - d[i].count] = Calls(a)
        BY DEF Called
      <4>2. u \in 1..Len(c) /\ c[u].role = "user" /\ c[i].role = "tool"
        BY <1>2, <1>5, <3>1, <4>1
      <4>3. PICK a \in c[i].count..MaxCalls :
              i - c[i].count \in 1..Len(c) /\ c[i - c[i].count] = Calls(a)
        BY <3>1, <4>1, <4>2 DEF Called
      <4>4. i - c[i].count \in 1..Len(d) /\ d[i - c[i].count] = Calls(a)
        BY <1>2, <1>5, <4>3
      <4>5. QED
        BY <3>1, <4>3, <4>4
    <3>5. QED
      BY <3>3, <3>4
  <2>3. QED
    BY <2>1, <2>2
<1>8. ASSUME pending < m PROVE Asked(d)
  <2>1. Len(d) - l = pending /\ l \in 1..Len(d)
    BY <1>1, <1>2, <1>5
  <2>2. AskedAt(d, l, m)
    BY <1>6, <1>7, <1>8, <2>1 DEF AskedAt
  <2>3. QED
    BY <2>1, <2>2 DEF Asked
<1>9. ASSUME pending = m PROVE Sound(d)
  <2>1. d[l].count = m
    BY <1>6, MessageTypes
  <2>2. Answered(d, l)
    BY <1>6, <1>9, <2>1 DEF Answered
  <2>3. QED
    BY <1>7, <2>2, SoundForm
<1>10. QED
  BY <1>1, <1>2, <1>4, <1>8, <1>9

\* The call that Pending counts from is that of the last message that calls tools.
LEMMA LastCallsIs ==
  ASSUME messages \in Seq(Messages),
         NEW l \in 1..Len(messages), NEW m \in 1..MaxCalls, AskedAt(messages, l, m)
  PROVE  LastCalls = l /\ messages[LastCalls].count = m
<1> DEFINE S == {i \in DOMAIN messages : messages[i].role = "calls"}
<1>1. DOMAIN messages = 1..Len(messages) /\ Len(messages) \in Int
  OBVIOUS
<1>2. messages[l].role = "calls" /\ messages[l].count = m
  BY MessageTypes DEF AskedAt
<1>3. l \in S
  BY <1>1, <1>2
<1>4. ASSUME NEW i \in S PROVE l >= i
  <2>1. i \in 1..Len(messages) /\ messages[i].role = "calls"
    BY <1>1
  <2>2. ASSUME l < i PROVE FALSE
    <3>1. i - l \in 1..Len(messages) - l /\ l + (i - l) = i
      BY <1>1, <2>1, <2>2
    <3>2. messages[i] = Answer(i - l)
      BY <3>1 DEF AskedAt
    <3>3. QED
      BY <2>1, <3>2, MessageTypes
  <2>3. QED
    BY <1>1, <2>1, <2>2
<1>5. Max(S) \in S /\ \A i \in S : Max(S) >= i
  BY <1>3, <1>4 DEF Max
<1>6. Max(S) = l
  <2>1. Max(S) \in Int /\ l \in Int /\ Max(S) >= l /\ l >= Max(S)
    BY <1>1, <1>3, <1>4, <1>5
  <2>2. QED
    BY <2>1
<1>7. QED
  BY <1>2, <1>6 DEF LastCalls

\* The cut leaves a sound conversation sound: all of it could go.
LEMMA TrimmedSound ==
  ASSUME NEW c \in Seq(Messages), Sound(c)
  PROVE  Trimmed(c) \in Seq(Messages) /\ Sound(Trimmed(c))
<1> DEFINE From(k) == SubSeq(c, k, Len(c))
           fits == {k \in 1..Len(c) + 1 : Size(From(k)) <= MaxSize}
<1>1. Len(c) \in Nat
  OBVIOUS
<1>2. From(Len(c) + 1) = <<>>
  BY <1>1
<1>3. Size(<<>>) = 0
  <2>1. {i \in DOMAIN <<>> : <<>>[i].role # "calls"} = {}
    OBVIOUS
  <2>2. QED
    BY <2>1, FS_EmptySet DEF Size
<1>4. Len(c) + 1 \in fits
  <2>1. Size(From(Len(c) + 1)) = 0
    BY <1>2, <1>3
  <2>2. Size(From(Len(c) + 1)) <= MaxSize
    BY <2>1, Numbers
  <2>3. Len(c) + 1 \in 1..Len(c) + 1
    BY <1>1
  <2>4. QED
    BY <2>2, <2>3
<1>5. Min(fits) \in 1..Len(c) + 1
  <2>1. fits \in SUBSET Nat
    BY <1>1
  <2>2. Min(fits) \in fits
    BY <1>4, <2>1, LeastNumber
  <2>3. QED
    BY <2>2
<1>6. Trimmed(c) = From(Min(fits))
  BY DEF Trimmed
<1>7. QED
  BY <1>5, <1>6, SoundSuffix
----------------------------------------------------------------------------
(* The invariant of the conversation.                                      *)

Setup == {"consent", "models", "scope", "lookup", "aiKeygen"}
Answering == {"calling", "approve", "command"}
Moving == {"transferKeygen", "moving"}
InSession == {"menu", "tell", "verify", "fallback", "shell", "retry", "drop", "remote",
              "local", "hash", "transfer", "check", "ports", "reverse", "chat", "again",
              "fetch", "revoke"}
Ended == {"gone", "thrown"}

\* While calls are answered the last of them lack an answer; a program that was stopped
\* then asks the model no more.
Talk ==
  /\ messages \in Seq(Messages)
  /\ at \in Answering => Asked(messages)
  /\ at \notin Answering \union Ended => Sound(messages)

\* Where the program may go without a word of the conversation.
Hushed ==
  /\ at \in Answering => at' \in Answering \union Ended
  /\ at \notin Answering => at' \notin Answering
  /\ at \in Ended => at' \in Ended

LEMMA HushedTalk == ASSUME Talk, Hushed, UNCHANGED messages PROVE Talk'
BY DEF Talk, Hushed

LEMMA Places ==
  /\ "thinking" \notin Answering \union Ended /\ "ready" \notin Answering \union Ended
  /\ "calling" \in Answering /\ "approve" \in Answering /\ "command" \in Answering
BY DEF Answering, Ended

LEMMA AnswerCallTalk ==
  ASSUME Talk, AnswerCall, at \in Answering
  PROVE  Talk' /\ at' \in {"calling", "thinking", "ready"}
<1>1. PICK l \in 1..Len(messages) : \E m \in 1..MaxCalls : AskedAt(messages, l, m)
  BY DEF Talk, Asked
<1>2. PICK m \in 1..MaxCalls : AskedAt(messages, l, m)
  BY <1>1
<1>3. messages \in Seq(Messages)
  BY DEF Talk
<1>4. LastCalls = l /\ messages[LastCalls].count = m
  BY <1>2, <1>3, LastCallsIs
<1>5. PICK pending : pending = Len(messages) - l + 1
  OBVIOUS
<1>6. Pending = pending
  BY <1>4, <1>5 DEF Pending
<1>7. PICK told : told = Append(messages, Answer(pending))
  OBVIOUS
<1>8. /\ pending \in 1..m /\ told \in Seq(Messages)
      /\ pending < m => Asked(told)
      /\ pending = m => Sound(told)
  BY <1>2, <1>3, <1>5, <1>7, AnswerAppend
<1>9. CASE pending < m
  <2>1. messages' = told /\ at' = "calling"
    BY <1>4, <1>6, <1>7, <1>9 DEF AnswerCall
  <2>2. QED
    BY <1>8, <1>9, <2>1, Places DEF Talk
<1>10. CASE ~(pending < m)
  <2>1. Sound(told)
    BY <1>8, <1>10
  <2>2. \/ messages' = told /\ at' = "thinking"
        \/ messages' = Trimmed(told) /\ at' = "ready"
    BY <1>4, <1>6, <1>7, <1>10 DEF AnswerCall, TurnOver
  <2>3. QED
    BY <1>8, <2>1, <2>2, TrimmedSound, Places DEF Talk
<1>11. QED
  BY <1>9, <1>10

\* The steps of a turn.
LEMMA TurnTalk ==
  ASSUME Talk, StartTurn \/ RateLimited \/ ModelAnswers \/ (\E k \in 1..MaxCalls : ModelCalls(k))
  PROVE  Talk' /\ at \in {"ready", "thinking"} /\ at' \in {"thinking", "ready", "calling"}
<1>1. CASE StartTurn
  <2>1. at = "ready" /\ at' = "thinking" /\ messages' = Append(messages, User)
    BY <1>1 DEF StartTurn, At
  <2>2. QED
    BY <2>1, SoundAppend, MessageTypes, Places DEF Talk
<1>2. CASE RateLimited
  <2>1. at = "thinking" /\ at' = "ready" /\ messages' = Trimmed(messages)
    BY <1>2 DEF RateLimited, TurnOver, At
  <2>2. QED
    BY <2>1, TrimmedSound, Places DEF Talk
<1>3. CASE ModelAnswers
  <2>1. at = "thinking" /\ at' = "ready" /\ messages' = Trimmed(Append(messages, Say))
    BY <1>3 DEF ModelAnswers, TurnOver, At
  <2>2. PICK c \in Seq(Messages) : c = Append(messages, Say) /\ Sound(c)
    BY <2>1, SoundAppend, MessageTypes, Places DEF Talk
  <2>3. QED
    BY <2>1, <2>2, TrimmedSound, Places DEF Talk
<1>4. CASE \E k \in 1..MaxCalls : ModelCalls(k)
  <2>1. PICK k \in 1..MaxCalls : ModelCalls(k)
    BY <1>4
  <2>2. at = "thinking" /\ at' = "calling" /\ messages' = Append(messages, Calls(k))
    BY <2>1 DEF ModelCalls, At
  <2>3. QED
    BY <2>2, AskedAppend, Places DEF Talk
<1>5. QED
  BY <1>1, <1>2, <1>3, <1>4
----------------------------------------------------------------------------
(* The invariant of the keys.                                              *)

Hooks == [what : {"log", "key", "farewell", "poll", "sync"}, owner : Int]

\* Before cleanupAll is called every key has a hook, but for the one that the assistant
\* waits to read; and no key's hook comes after the first farewell, for which the hooks
\* are first interrupted.
Uncalled ==
  /\ keys \subseteq (0..n) \union {Transfer}
  /\ Transfer \in keys => at \in Moving
  /\ \A k \in keys :
       \/ at = "aiKeygen" /\ k = Assistant
       \/ \E i \in 1..Len(hooks) : hooks[i].what = "key" /\ hooks[i].owner = k
  /\ \A i \in 1..Len(hooks) : hooks[i].what = "farewell" =>
       /\ at \in InSession
       /\ \A j \in 1..Len(hooks) : hooks[j].what = "key" => j < i

\* Afterwards none of the keys is left that it had to remove, and none is written again.
CleanedUp ==
  /\ keys \cap swept = {}
  /\ swept \subseteq 0..n
  /\ at \notin Setup
  /\ at = "resolve" => n \notin swept
  /\ runner \in {"session", "ai", "signal", "fatal"}
  /\ hook > 0 /\ runner \in {"session", "ai"} => at = "cleaning"

Keyed ==
  /\ n \in 0..MaxSessions
  /\ hooks \in Seq(Hooks)
  /\ hook \in Int /\ running \in BOOLEAN
  /\ running => IF hook = 0 THEN Uncalled ELSE CleanedUp
  /\ ~running /\ hook # 0 => keys \cap swept = {}

\* Where the program may go while keys and hooks stay as they are.
Passes ==
  /\ at' = "resolve" => at = "resolve"
  /\ at \in InSession => at' \in InSession
  /\ at' \in Setup => at \in Setup
  /\ at = "aiKeygen" => at' = "aiKeygen"
  /\ at \in Moving => at' \in Moving
  /\ at = "cleaning" => at' = "cleaning"

Quietly == Passes /\ running /\ UNCHANGED <<n, keys, hooks, ending, running>>

LEMMA QuietKeyed == ASSUME Keyed, Quietly PROVE Keyed'
<1>1. CASE hook = 0
  BY <1>1 DEF Keyed, Quietly, Passes, Uncalled, ending
<1>2. CASE hook # 0
  BY <1>2 DEF Keyed, Quietly, Passes, CleanedUp, ending
<1>3. QED
  BY <1>1, <1>2

\* The process exits and leaves the keys it still has.
LEMMA ExitAtOnceKeyed == ASSUME Keyed, running, ExitAtOnce PROVE Keyed' /\ at' \in Ended
<1>1. UNCHANGED <<keys, n, hook, swept>> /\ hooks' = <<>> /\ running' = FALSE /\ at' = "gone"
  BY DEF ExitAtOnce, Exit, ending
<1>2. hook # 0 => keys \cap swept = {}
  BY DEF Keyed, CleanedUp
<1>3. hooks' \in Seq(Hooks)
  BY <1>1
<1>4. QED
  BY <1>1, <1>2, <1>3 DEF Keyed, Ended

----------------------------------------------------------------------------
(* The hooks.                                                              *)

\* The run of the hooks ends before the first farewell, if there is one.
LEMMA FarewellNext ==
  ASSUME hooks \in Seq(Hooks), NEW from \in Nat, from > 0
  PROVE  /\ NextFarewell(from) \in 1..Len(hooks) + 1
         /\ NextFarewell(from) <= Len(hooks) =>
              hooks[NextFarewell(from)].what = "farewell"
         /\ \A i \in from..Len(hooks) :
              hooks[i].what = "farewell" => NextFarewell(from) <= i
<1> DEFINE S == {i \in from..Len(hooks) : hooks[i].what = "farewell"} \union {Len(hooks) + 1}
<1>1. Len(hooks) \in Nat
  OBVIOUS
<1>2. S \in SUBSET Nat /\ Len(hooks) + 1 \in S
  BY <1>1
<1>3. Min(S) \in S /\ \A y \in S : Min(S) <= y
  BY <1>2, LeastNumber
<1>4. NextFarewell(from) = Min(S)
  BY DEF NextFarewell
<1>5. Min(S) <= Len(hooks) + 1
  BY <1>2, <1>3
<1>6. QED
  BY <1>1, <1>3, <1>4, <1>5

\* Where a run of the hooks from one of them leads.
LEMMA RunHooksEffect ==
  ASSUME hooks \in Seq(Hooks), NEW from \in Nat, from > 0, NEW who, RunHooks(from, who)
  PROVE  /\ hook' \in Int /\ hook' # 0 /\ hooks' \in Seq(Hooks)
         /\ keys' = keys \ Reached(from, "key")
         /\ \/ running' = FALSE /\ at' = "gone"
            \/ hook' = Done /\ ~Exits(who) /\ Returns(who) /\ UNCHANGED running
            \/ /\ Awaits(who) /\ UNCHANGED running
               /\ \E i \in 1..Len(hooks) : hooks[i].what = "farewell"
<1> DEFINE next == NextFarewell(from)
<1>1. /\ next \in 1..Len(hooks) + 1 /\ Len(hooks) \in Nat
      /\ next <= Len(hooks) => hooks[next].what = "farewell"
  <2>1. Len(hooks) \in Nat
    OBVIOUS
  <2>2. QED
    BY <2>1, FarewellNext
<1>2. hook' = IF next > Len(hooks) THEN Done ELSE next
  BY DEF RunHooks
<1>3. hook' \in Int /\ hook' # 0
  BY <1>1, <1>2 DEF Done
<1>4. <<>> \in Seq(Hooks)
  OBVIOUS
<1>5. CASE next > Len(hooks) /\ Exits(who)
  <2>1. Exit(keys \ Reached(from, "key"))
    BY <1>5 DEF RunHooks
  <2>2. QED
    BY <1>3, <1>4, <2>1 DEF Exit
<1>6. CASE next > Len(hooks) /\ ~Exits(who)
  <2>1. /\ keys' = keys \ Reached(from, "key") /\ hooks' = <<>>
        /\ Returns(who) /\ UNCHANGED running
    BY <1>6 DEF RunHooks
  <2>2. QED
    BY <1>2, <1>3, <1>4, <1>6, <2>1
<1>7. CASE ~(next > Len(hooks))
  <2>1. /\ keys' = keys \ Reached(from, "key") /\ hooks' = hooks
        /\ Awaits(who) /\ UNCHANGED running
    BY <1>7 DEF RunHooks
  <2>2. next \in 1..Len(hooks)
    BY <1>1, <1>7
  <2>3. QED
    BY <1>1, <1>3, <2>1, <2>2
<1>8. QED
  BY <1>5, <1>6, <1>7

\* Where a mode goes on.
LEMMA ReturnsTo == ASSUME NEW who, Returns(who) PROVE at' \in {"ready", "over"}
BY DEF Returns

LEMMA AwaitsAt ==
  ASSUME NEW who, Awaits(who)
  PROVE  at' = IF who \in {"session", "ai"} THEN "cleaning"
               ELSE IF who = "fatal" THEN "thrown" ELSE at
BY DEF Awaits

\* cleanupAll is called: by a signal, an exception, or a session or the assistant where
\* these end.
LEMMA CleanupKeyed ==
  ASSUME Keyed, Talk, running, UNCHANGED messages,
         NEW who \in {"session", "ai", "signal", "fatal"}, CleanupAll(who),
         who \in {"session", "ai"} =>
           at \notin Setup \union Moving \union Answering \union Ended \union {"resolve", "cleaning"}
  PROVE  Keyed' /\ Talk'
<1>1. /\ n \in 0..MaxSessions /\ hooks \in Seq(Hooks) /\ hook \in Int
      /\ n' = n
  BY DEF Keyed, CleanupAll
<1>2. CASE hook = 0
  <2>1. RunHooks(1, who) /\ runner' = who /\ swept' = Begun /\ Uncalled
    BY <1>2 DEF CleanupAll, Keyed
  <2>2. /\ hook' \in Int /\ hook' # 0 /\ hooks' \in Seq(Hooks)
        /\ keys' = keys \ Reached(1, "key")
        /\ \/ running' = FALSE /\ at' = "gone"
           \/ hook' = Done /\ ~Exits(who) /\ Returns(who) /\ UNCHANGED running
           \/ /\ Awaits(who) /\ UNCHANGED running
              /\ \E i \in 1..Len(hooks) : hooks[i].what = "farewell"
    <3>1. 1 \in Nat /\ 1 > 0
      OBVIOUS
    <3>2. QED
      BY <1>1, <2>1, <3>1, RunHooksEffect
  <2>3. keys' \cap swept' = {}
    <3>1. SUFFICES ASSUME NEW k \in keys, k \in Begun PROVE k \in Reached(1, "key")
      BY <2>1, <2>2
    <3>2. ~(at = "aiKeygen" /\ k = Assistant)
      BY <3>1 DEF Begun
    <3>3. PICK i \in 1..Len(hooks) : hooks[i].what = "key" /\ hooks[i].owner = k
      BY <2>1, <3>2 DEF Uncalled
    <3>4. i < NextFarewell(1)
      <4>1. NextFarewell(1) \in 1..Len(hooks) + 1 /\ Len(hooks) \in Nat
            /\ (NextFarewell(1) <= Len(hooks) => hooks[NextFarewell(1)].what = "farewell")
        BY <1>1, FarewellNext
      <4>2. CASE NextFarewell(1) <= Len(hooks)
        <5>1. NextFarewell(1) \in 1..Len(hooks)
          BY <4>1, <4>2
        <5>2. QED
          BY <2>1, <3>3, <4>1, <4>2, <5>1 DEF Uncalled
      <4>3. CASE ~(NextFarewell(1) <= Len(hooks))
        BY <4>1, <4>3
      <4>4. QED
        BY <4>2, <4>3
    <3>5. i \in 1..NextFarewell(1) - 1
      <4>1. NextFarewell(1) \in Int
        BY <1>1, FarewellNext
      <4>2. QED
        BY <3>4, <4>1
    <3>6. QED
      BY <3>3, <3>5 DEF Reached
  <2>4. CASE running' = FALSE /\ at' = "gone"
    BY <1>1, <2>2, <2>3, <2>4 DEF Keyed, Talk, Ended, Answering
  <2>5. ASSUME at \notin Moving PROVE swept' \subseteq 0..n
    <3>1. keys \subseteq 0..n
      BY <2>1, <2>5 DEF Uncalled
    <3>2. 1..n \subseteq 0..n
      BY <1>1
    <3>3. Begun \subseteq keys \union 1..n
      BY DEF Begun
    <3>4. QED
      BY <2>1, <3>1, <3>2, <3>3
  <2>6. CASE hook' = Done /\ ~Exits(who) /\ Returns(who) /\ UNCHANGED running
    <3>1. at' \in {"ready", "over"} /\ ~(hook' > 0)
      BY <2>6, ReturnsTo DEF Done
    <3>2. who \in {"session", "ai"}
      BY <2>6 DEF Exits
    <3>3. CleanedUp'
      BY <1>1, <2>1, <2>3, <2>5, <3>1, <3>2 DEF CleanedUp, Setup
    <3>4. Talk'
      BY <3>1, <3>2 DEF Talk, Answering, Ended
    <3>5. QED
      BY <1>1, <2>2, <2>6, <3>3, <3>4 DEF Keyed
  <2>7. CASE /\ Awaits(who) /\ UNCHANGED running
             /\ \E i \in 1..Len(hooks) : hooks[i].what = "farewell"
    <3>1. at \in InSession
      BY <2>1, <2>7 DEF Uncalled
    <3>2. at \notin Setup \union Moving \union Answering \union Ended \union {"resolve", "cleaning"}
      BY <3>1 DEF InSession, Setup, Moving, Answering, Ended
    <3>3. at' = IF who \in {"session", "ai"} THEN "cleaning"
                ELSE IF who = "fatal" THEN "thrown" ELSE at
      BY <2>7, AwaitsAt
    <3>4. /\ at' \notin Setup \union {"resolve"} /\ (who \in {"session", "ai"} => at' = "cleaning")
          /\ at' \notin Answering
      BY <3>2, <3>3 DEF Setup, Answering
    <3>5. CleanedUp'
      BY <1>1, <2>1, <2>3, <2>5, <3>2, <3>4 DEF CleanedUp
    <3>6. Talk'
      BY <3>2, <3>4 DEF Talk
    <3>7. QED
      BY <1>1, <2>2, <2>7, <3>5, <3>6 DEF Keyed
  <2>8. QED
    BY <2>2, <2>4, <2>6, <2>7
<1>3. CASE hook # 0
  <2>1. CleanedUp
    BY <1>3 DEF Keyed
  <2>2. CASE Exits(who)
    <3>1. Exit(keys) /\ UNCHANGED ending
      BY <1>3, <2>2 DEF CleanupAll
    <3>2. <<>> \in Seq(Hooks)
      OBVIOUS
    <3>3. QED
      BY <1>1, <2>1, <3>1, <3>2 DEF Exit, ending, Keyed, CleanedUp, Talk, Ended, Answering
  <2>3. CASE ~Exits(who)
    <3>1. Returns(who) /\ UNCHANGED <<keys, hooks, ending, running>>
      BY <1>3, <2>3 DEF CleanupAll
    <3>2. at' \in {"ready", "over"} /\ who \in {"session", "ai"}
      BY <2>3, <3>1, ReturnsTo DEF Exits
    <3>3. ~(hook > 0 /\ runner \in {"session", "ai"})
      BY <2>1, <3>2 DEF CleanedUp
    <3>4. CleanedUp'
      BY <1>1, <2>1, <3>1, <3>2, <3>3 DEF CleanedUp, ending, Setup
    <3>5. Talk'
      BY <3>2 DEF Talk, Answering, Ended
    <3>6. QED
      BY <1>1, <1>3, <3>1, <3>4, <3>5 DEF Keyed, ending
  <2>4. QED
    BY <2>2, <2>3
<1>4. QED
  BY <1>2, <1>3

LEMMA FarewellOverKeyed ==
  ASSUME Keyed, Talk, FarewellOver, UNCHANGED messages
  PROVE  Keyed' /\ Talk'
<1>1. /\ running /\ hook > 0 /\ RunHooks(hook + 1, runner) /\ UNCHANGED <<n, runner, swept>>
      /\ n \in 0..MaxSessions /\ hooks \in Seq(Hooks) /\ hook \in Int /\ hook # 0
      /\ CleanedUp
  BY DEF FarewellOver, Keyed
<1>2. /\ hook' \in Int /\ hook' # 0 /\ hooks' \in Seq(Hooks)
      /\ keys' = keys \ Reached(hook + 1, "key")
      /\ \/ running' = FALSE /\ at' = "gone"
         \/ hook' = Done /\ ~Exits(runner) /\ Returns(runner) /\ UNCHANGED running
         \/ Awaits(runner) /\ UNCHANGED running
  <2>1. hook + 1 \in Nat /\ hook + 1 > 0
    BY <1>1
  <2>2. QED
    BY <1>1, <2>1, RunHooksEffect
<1>3. keys' \cap swept' = {} /\ swept' \subseteq 0..n
  BY <1>1, <1>2 DEF CleanedUp
<1>4. CASE running' = FALSE /\ at' = "gone"
  BY <1>1, <1>2, <1>3, <1>4 DEF Keyed, Talk, Ended, Answering
<1>5. CASE hook' = Done /\ ~Exits(runner) /\ Returns(runner) /\ UNCHANGED running
  <2>1. at' \in {"ready", "over"} /\ ~(hook' > 0)
    BY <1>5, ReturnsTo DEF Done
  <2>2. CleanedUp'
    BY <1>1, <1>3, <2>1 DEF CleanedUp, Setup
  <2>3. at \notin Answering \union Ended
    BY <1>1, <1>5 DEF CleanedUp, Exits, Answering, Ended
  <2>4. Talk'
    BY <2>1, <2>3 DEF Talk, Answering, Ended
  <2>5. QED
    BY <1>1, <1>2, <1>5, <2>2, <2>4 DEF Keyed
<1>6. CASE Awaits(runner) /\ UNCHANGED running
  <2>1. at' = IF runner \in {"session", "ai"} THEN "cleaning"
              ELSE IF runner = "fatal" THEN "thrown" ELSE at
    BY <1>6, AwaitsAt
  <2>2. CleanedUp'
    BY <1>1, <1>3, <2>1 DEF CleanedUp, Setup
  <2>3. Talk'
    BY <1>1, <2>1 DEF Talk, CleanedUp, Answering, Ended
  <2>4. QED
    BY <1>1, <1>2, <1>6, <2>2, <2>3 DEF Keyed
<1>7. QED
  BY <1>2, <1>4, <1>5, <1>6
----------------------------------------------------------------------------
(* Keys and hooks before and after a session, or the assistant's own.      *)

LEMMA Appended ==
  ASSUME NEW old \in Seq(Hooks), NEW added \in Seq(Hooks)
  PROVE  /\ old \o added \in Seq(Hooks)
         /\ Len(old \o added) = Len(old) + Len(added)
         /\ Len(old) \in Nat /\ Len(added) \in Nat
         /\ \A i \in 1..Len(old) : (old \o added)[i] = old[i]
         /\ \A i \in 1..Len(added) : (old \o added)[Len(old) + i] = added[i]
<1>1. PICK all \in Seq(Hooks) : all = old \o added
  BY ConcatProperties
<1>2. Len(old) \in Nat /\ Len(added) \in Nat /\ Len(all) = Len(old) + Len(added)
      /\ \A i \in 1..Len(old) + Len(added) :
           all[i] = IF i <= Len(old) THEN old[i] ELSE added[i - Len(old)]
  BY <1>1, ConcatProperties
<1>3. ASSUME NEW i \in 1..Len(added) PROVE all[Len(old) + i] = added[i]
  <2>1. Len(old) + i \in 1..Len(old) + Len(added) /\ ~(Len(old) + i <= Len(old))
        /\ (Len(old) + i) - Len(old) = i
    BY <1>2
  <2>2. QED
    BY <1>2, <2>1
<1>4. ASSUME NEW i \in 1..Len(old) PROVE all[i] = old[i]
  BY <1>2
<1>5. QED
  BY <1>1, <1>2, <1>3, <1>4

LEMMA AddHooksType ==
  ASSUME hooks \in Seq(Hooks), hook \in Int, NEW added \in Seq(Hooks), AddHooks(added)
  PROVE  hooks' \in Seq(Hooks) /\ (hook = 0 => hooks' = hooks \o added)
<1>1. <<>> \in Seq(Hooks)
  OBVIOUS
<1>2. QED
  BY <1>1, Appended DEF AddHooks, Done

\* Outside the part of a session that ends with its farewell, keys and hooks come and go.
LEMMA HooksGrow ==
  ASSUME Keyed, running, UNCHANGED <<ending, running>>, n' \in n..MaxSessions,
         NEW added \in Seq(Hooks), AddHooks(added) \/ (added = <<>> /\ UNCHANGED hooks),
         at \notin InSession \union {"cleaning"},
         keys' \ keys \subseteq (0..n') \union {Transfer},
         Transfer \in keys' /\ (at \in Moving \/ Transfer \notin keys) => at' \in Moving,
         \A k \in keys' :
           \/ k \in keys /\ ~(at = "aiKeygen" /\ k = Assistant)
           \/ at' = "aiKeygen" /\ k = Assistant
           \/ \E i \in 1..Len(added) : added[i].what = "key" /\ added[i].owner = k,
         \A i \in 1..Len(added) : added[i].what = "farewell" =>
           /\ at' \in InSession
           /\ \A j \in 1..Len(added) : added[j].what # "key",
         at' \in Setup => at \in Setup,
         hook # 0 => (at' = "resolve" => n' \notin swept) /\ (keys' \ keys) \cap swept = {}
  PROVE  Keyed'
<1>1. n \in 0..MaxSessions /\ hooks \in Seq(Hooks) /\ hook \in Int
  BY DEF Keyed
<1>2. hooks' \in Seq(Hooks) /\ (hook = 0 => hooks' = hooks \o added)
  <2>1. CASE AddHooks(added)
    BY <1>1, <2>1, AddHooksType
  <2>2. CASE added = <<>> /\ UNCHANGED hooks
    BY <1>1, <2>2, ConcatEmptySeq
  <2>3. QED
    BY <2>1, <2>2
<1>3. n' \in 0..MaxSessions /\ 0..n \subseteq 0..n'
  BY <1>1, Numbers
<1>4. CASE hook = 0
  <2>1. Uncalled
    BY <1>4 DEF Keyed
  <2>2. PICK all \in Seq(Hooks) : all = hooks'
    BY <1>2
  <2>3. /\ Len(all) = Len(hooks) + Len(added) /\ Len(hooks) \in Nat /\ Len(added) \in Nat
        /\ \A i \in 1..Len(hooks) : all[i] = hooks[i]
        /\ \A i \in 1..Len(added) : all[Len(hooks) + i] = added[i]
    BY <1>1, <1>2, <1>4, <2>2, Appended
  <2>4. \A i \in 1..Len(hooks) : hooks[i].what # "farewell"
    BY <2>1 DEF Uncalled
  <2>5. keys' \subseteq (0..n') \union {Transfer}
    BY <1>3, <2>1 DEF Uncalled
  <2>6. Transfer \in keys' => at' \in Moving
    BY <2>1 DEF Uncalled
  <2>7. ASSUME NEW k \in keys', ~(at' = "aiKeygen" /\ k = Assistant)
        PROVE  \E i \in 1..Len(all) : all[i].what = "key" /\ all[i].owner = k
    <3>1. CASE k \in keys /\ ~(at = "aiKeygen" /\ k = Assistant)
      <4>1. PICK i \in 1..Len(hooks) : hooks[i].what = "key" /\ hooks[i].owner = k
        BY <2>1, <3>1 DEF Uncalled
      <4>2. i \in 1..Len(all) /\ all[i] = hooks[i]
        BY <2>3
      <4>3. QED
        BY <4>1, <4>2
    <3>2. CASE \E i \in 1..Len(added) : added[i].what = "key" /\ added[i].owner = k
      <4>1. PICK i \in 1..Len(added) : added[i].what = "key" /\ added[i].owner = k
        BY <3>2
      <4>2. Len(hooks) + i \in 1..Len(all) /\ all[Len(hooks) + i] = added[i]
        BY <2>3
      <4>3. QED
        BY <4>1, <4>2
    <3>3. QED
      BY <2>7, <3>1, <3>2
  <2>8. ASSUME NEW i \in 1..Len(all), all[i].what = "farewell"
        PROVE  at' \in InSession /\ \A j \in 1..Len(all) : all[j].what = "key" => j < i
    <3>1. i > Len(hooks)
      BY <2>3, <2>4, <2>8
    <3>2. PICK a \in 1..Len(added) : i = Len(hooks) + a
      <4>1. i - Len(hooks) \in 1..Len(added) /\ i = Len(hooks) + (i - Len(hooks))
        BY <2>3, <3>1
      <4>2. QED
        BY <4>1
    <3>3. added[a].what = "farewell"
      BY <2>3, <2>8, <3>2
    <3>4. at' \in InSession /\ \A j \in 1..Len(added) : added[j].what # "key"
      BY <3>3
    <3>5. ASSUME NEW j \in 1..Len(all), all[j].what = "key" PROVE j < i
      <4>1. ASSUME j > Len(hooks) PROVE FALSE
        <5>1. j - Len(hooks) \in 1..Len(added) /\ Len(hooks) + (j - Len(hooks)) = j
          BY <2>3, <4>1
        <5>2. added[j - Len(hooks)].what = "key"
          BY <2>3, <3>5, <5>1
        <5>3. QED
          BY <3>4, <5>1, <5>2
      <4>2. QED
        BY <2>3, <3>1, <4>1
    <3>6. QED
      BY <3>4, <3>5
  <2>9. Uncalled'
    BY <2>2, <2>5, <2>6, <2>7, <2>8 DEF Uncalled
  <2>10. QED
    BY <1>1, <1>2, <1>3, <1>4, <2>9 DEF Keyed, ending
<1>5. CASE hook # 0
  <2>1. CleanedUp
    BY <1>5 DEF Keyed
  <2>2. CleanedUp'
    BY <1>3, <1>5, <2>1 DEF CleanedUp, ending
  <2>3. QED
    BY <1>1, <1>2, <1>3, <1>5, <2>2 DEF Keyed, ending
<1>6. QED
  BY <1>4, <1>5
----------------------------------------------------------------------------
(* The invariant, and the steps that write and remove keys.                *)

IInv == Keyed /\ Talk

\* A step that keeps keys, hooks and conversation.
LEMMA QuietHolds ==
  ASSUME IInv, Quietly, Hushed, UNCHANGED messages
  PROVE  IInv'
BY QuietKeyed, HushedTalk DEF IInv

LEMMA ExitHolds == ASSUME IInv, running, ExitAtOnce, UNCHANGED messages PROVE IInv'
<1>1. Keyed' /\ at' \in Ended
  BY ExitAtOnceKeyed DEF IInv
<1>2. Hushed
  BY <1>1 DEF Hushed, Ended, Answering
<1>3. QED
  BY <1>1, <1>2, HushedTalk DEF IInv

LEMMA CleanupHolds ==
  ASSUME IInv, running, UNCHANGED messages,
         NEW who \in {"session", "ai", "signal", "fatal"}, CleanupAll(who),
         who \in {"session", "ai"} =>
           at \notin Setup \union Moving \union Answering \union Ended
                       \union {"resolve", "cleaning"}
  PROVE  IInv'
BY CleanupKeyed DEF IInv

LEMMA HookTypes ==
  /\ <<>> \in Seq(Hooks) /\ Len(<<>>) = 0
  /\ \A w \in {"log", "key", "farewell", "poll", "sync"}, o \in Int :
       /\ Hook(w, o) \in Hooks /\ Hook(w, o).what = w /\ Hook(w, o).owner = o
       /\ <<Hook(w, o)>> \in Seq(Hooks)
       /\ Len(<<Hook(w, o)>>) = 1 /\ <<Hook(w, o)>>[1] = Hook(w, o)
<1>1. <<>> \in Seq(Hooks) /\ Len(<<>>) = 0
  OBVIOUS
<1>2. ASSUME NEW w \in {"log", "key", "farewell", "poll", "sync"}, NEW o \in Int
      PROVE  /\ Hook(w, o) \in Hooks /\ Hook(w, o).what = w /\ Hook(w, o).owner = o
             /\ <<Hook(w, o)>> \in Seq(Hooks)
             /\ Len(<<Hook(w, o)>>) = 1 /\ <<Hook(w, o)>>[1] = Hook(w, o)
  <2>1. PICK h : h = Hook(w, o)
    OBVIOUS
  <2>2. h \in Hooks /\ h.what = w /\ h.owner = o
    BY <2>1 DEF Hook, Hooks
  <2>3. <<h>> \in Seq(Hooks) /\ Len(<<h>>) = 1 /\ <<h>>[1] = h
    BY <2>2
  <2>4. QED
    BY <2>1, <2>2, <2>3
<1>3. QED
  BY <1>1, <1>2

\* One hook is added, of a key or of a log; or none.
LEMMA OneHook ==
  ASSUME NEW w \in {"log", "key"}, NEW o \in Int
  PROVE  /\ <<Hook(w, o)>> \in Seq(Hooks)
         /\ \A i \in 1..Len(<<Hook(w, o)>>) : <<Hook(w, o)>>[i].what # "farewell"
         /\ w = "key" => \E i \in 1..Len(<<Hook(w, o)>>) :
              <<Hook(w, o)>>[i].what = "key" /\ <<Hook(w, o)>>[i].owner = o
<1>1. PICK s : s = <<Hook(w, o)>>
  OBVIOUS
<1>2. s \in Seq(Hooks) /\ Len(s) = 1 /\ s[1].what = w /\ s[1].owner = o
  BY <1>1, HookTypes
<1>3. QED
  BY <1>1, <1>2

LEMMA WriteKeyHolds ==
  ASSUME IInv, running, UNCHANGED <<messages, n, ending, running>>,
         NEW owner \in (0..n) \union {Transfer}, WriteKey(owner),
         at \notin InSession \union Setup \union Moving \union Answering \union Ended
                     \union {"cleaning"},
         at' \notin Setup \union Answering \union {"resolve"},
         owner = Transfer => at' \in Moving,
         hook # 0 => owner \notin swept
  PROVE  IInv'
<1>1. n \in 0..MaxSessions /\ owner \in Int
  BY Numbers DEF IInv, Keyed
<1>2. keys' = keys \union {owner} /\ AddHooks(<<Hook("key", owner)>>)
  BY DEF WriteKey
<1>3. PICK added \in Seq(Hooks) : added = <<Hook("key", owner)>>
  BY <1>1, OneHook
<1>4. /\ \A i \in 1..Len(added) : added[i].what # "farewell"
      /\ \E i \in 1..Len(added) : added[i].what = "key" /\ added[i].owner = owner
  BY <1>1, <1>3, OneHook
<1>5. n' \in n..MaxSessions
  BY <1>1
<1>6. \A k \in keys' : (k \in keys /\ ~(at = "aiKeygen" /\ k = Assistant)) \/ k = owner
  BY <1>2 DEF Setup
<1>7. Transfer \in keys' /\ (at \in Moving \/ Transfer \notin keys) => at' \in Moving
  BY <1>2
<1>8. Keyed'
  <2>1. keys' \ keys \subseteq (0..n') \union {Transfer}
    BY <1>2
  <2>2. \A k \in keys' :
          \/ k \in keys /\ ~(at = "aiKeygen" /\ k = Assistant)
          \/ at' = "aiKeygen" /\ k = Assistant
          \/ \E i \in 1..Len(added) : added[i].what = "key" /\ added[i].owner = k
    BY <1>4, <1>6
  <2>3. \A i \in 1..Len(added) : added[i].what = "farewell" =>
          /\ at' \in InSession
          /\ \A j \in 1..Len(added) : added[j].what # "key"
    BY <1>4
  <2>4. hook # 0 => (at' = "resolve" => n' \notin swept) /\ (keys' \ keys) \cap swept = {}
    BY <1>2
  <2>5. at \notin InSession \union {"cleaning"} /\ (at' \in Setup => at \in Setup)
    OBVIOUS
  <2>6. Keyed /\ AddHooks(added)
    BY <1>2, <1>3 DEF IInv
  <2>7. QED
    BY <1>5, <1>7, <2>1, <2>2, <2>3, <2>4, <2>5, <2>6, HooksGrow
<1>9. QED
  BY <1>8 DEF IInv, Talk

\* Nothing is written: a key is read or removed, or the hook of a log is added.
LEMMA KeysShrinkHolds ==
  ASSUME IInv, running, UNCHANGED <<messages, ending, running>>, n' \in n..MaxSessions,
         keys' \subseteq keys,
         NEW added \in Seq(Hooks), AddHooks(added) \/ (added = <<>> /\ UNCHANGED hooks),
         \A i \in 1..Len(added) : added[i].what # "farewell",
         at \notin InSession \union Answering \union Ended \union {"cleaning"},
         at' \notin Setup \union Answering,
         at' = "resolve" => n' = n + 1,
         at \in Moving => at' \in Moving \/ Transfer \notin keys',
         at = "aiKeygen" /\ Assistant \in keys' =>
           \E i \in 1..Len(added) : added[i].what = "key" /\ added[i].owner = Assistant
  PROVE  IInv'
<1>1. ASSUME hook # 0, at' = "resolve" PROVE n' \notin swept
  <2>1. swept \subseteq 0..n /\ n \in 0..MaxSessions
    BY <1>1 DEF IInv, Keyed, CleanedUp
  <2>2. QED
    BY <1>1, <2>1
<1>2. Transfer \in keys' /\ (at \in Moving \/ Transfer \notin keys) => at' \in Moving
  OBVIOUS
<1>3. \A k \in keys' :
        \/ k \in keys /\ ~(at = "aiKeygen" /\ k = Assistant)
        \/ \E i \in 1..Len(added) : added[i].what = "key" /\ added[i].owner = k
  OBVIOUS
<1>4. keys' \ keys = {}
  OBVIOUS
<1>5. Keyed'
  <2>1. keys' \ keys \subseteq (0..n') \union {Transfer}
    BY <1>4
  <2>2. \A k \in keys' :
          \/ k \in keys /\ ~(at = "aiKeygen" /\ k = Assistant)
          \/ at' = "aiKeygen" /\ k = Assistant
          \/ \E i \in 1..Len(added) : added[i].what = "key" /\ added[i].owner = k
    BY <1>3
  <2>3. \A i \in 1..Len(added) : added[i].what = "farewell" =>
          /\ at' \in InSession
          /\ \A j \in 1..Len(added) : added[j].what # "key"
    OBVIOUS
  <2>4. hook # 0 => (at' = "resolve" => n' \notin swept) /\ (keys' \ keys) \cap swept = {}
    BY <1>1, <1>4
  <2>5. at \notin InSession \union {"cleaning"} /\ (at' \in Setup => at \in Setup)
    OBVIOUS
  <2>6. Keyed
    BY DEF IInv
  <2>7. QED
    BY <1>2, <2>1, <2>2, <2>3, <2>4, <2>5, <2>6, HooksGrow
<1>6. QED
  BY <1>5 DEF IInv, Talk
----------------------------------------------------------------------------
(* The actions of a client.                                                *)

Same == UNCHANGED <<n, keys, hooks, ending, running>>

LEMMA EntersTo ==
  ASSUME NEW to, NEW child, NEW browser, Enters(to, child, browser)
  PROVE  at' = to /\ Same
BY DEF Enters, Unended, Same, session

LEMMA GoesTo ==
  ASSUME NEW from, NEW to, Goes(from, to)
  PROVE  running /\ at = from /\ at' = to /\ Same
BY DEF Goes, At, Same, session

\* Inside a session neither keys nor hooks change.
SessionStep == running /\ at \in InSession /\ at' \in InSession /\ Same

LEMMA SessionStepHolds == ASSUME IInv, SessionStep, UNCHANGED messages PROVE IInv'
<1>1. Passes /\ Hushed
  BY DEF SessionStep, Passes, Hushed, InSession, Setup, Moving, Answering, Ended
<1>2. QED
  BY <1>1, QuietHolds DEF SessionStep, Same, Quietly

LEMMA InterludeSteps ==
  ASSUME \/ (\E a \in {"ssh", "upload", "download", "reverse", "chat"} : Choose(a))
         \/ Told \/ Verified \/ KeyRefused \/ FallBack \/ ShellOver \/ Retry
         \/ RetryInterrupted
  PROVE  SessionStep
<1>1. CASE \E a \in {"ssh", "upload", "download", "reverse", "chat"} : Choose(a)
  BY <1>1 DEF Choose, At, Unended, SessionStep, Same, InSession, session
<1>2. CASE Told
  <2>1. First.at \in {"verify", "drop", "remote", "local", "fetch", "ports", "chat"}
    BY DEF First
  <2>2. QED
    BY <1>2, <2>1, EntersTo DEF Told, At, SessionStep, InSession
<1>3. CASE Verified
  BY <1>3, EntersTo DEF Verified, At, SessionStep, InSession
<1>4. CASE KeyRefused
  BY <1>4, GoesTo DEF KeyRefused, SessionStep, InSession
<1>5. CASE FallBack
  BY <1>5, EntersTo DEF FallBack, At, SessionStep, InSession
<1>6. CASE ShellOver
  BY <1>6, EntersTo DEF ShellOver, At, SessionStep, InSession
<1>7. CASE Retry
  BY <1>7, GoesTo DEF Retry, SessionStep, InSession
<1>8. CASE RetryInterrupted
  <2>1. PICK to \in {"fallback", "again"} : Goes("retry", to)
    BY <1>8 DEF RetryInterrupted
  <2>2. QED
    BY <2>1, GoesTo DEF SessionStep, InSession
<1>9. QED
  BY <1>1, <1>2, <1>3, <1>4, <1>5, <1>6, <1>7, <1>8

LEMMA TransferSteps ==
  ASSUME \/ ChooseDrop \/ PathChosen \/ Hashed \/ TransferOver \/ Checked \/ OpenReverse
         \/ ReverseOver \/ ChatOver \/ Again
  PROVE  SessionStep
<1>1. CASE ChooseDrop
  BY <1>1, EntersTo DEF ChooseDrop, At, SessionStep, InSession
<1>2. CASE PathChosen
  <2>1. /\ At("remote") \/ At("local")
        /\ \E to \in {"local", "hash", "transfer", "tell", "drop", "remote"} :
             \E child, browser : Enters(to, child, browser)
    BY <1>2 DEF PathChosen, At
  <2>2. QED
    BY <2>1, EntersTo DEF At, SessionStep, InSession
<1>3. CASE Hashed
  BY <1>3, EntersTo DEF Hashed, At, SessionStep, InSession
<1>4. CASE TransferOver
  BY <1>4, EntersTo DEF TransferOver, At, SessionStep, InSession
<1>5. CASE Checked
  BY <1>5, GoesTo DEF Checked, SessionStep, InSession
<1>6. CASE OpenReverse
  BY <1>6, EntersTo DEF OpenReverse, At, SessionStep, InSession
<1>7. CASE ReverseOver
  BY <1>7, EntersTo DEF ReverseOver, At, SessionStep, InSession
<1>8. CASE ChatOver
  BY <1>8, GoesTo DEF ChatOver, SessionStep, InSession
<1>9. CASE Again
  BY <1>9, GoesTo DEF Again, SessionStep, InSession
<1>10. QED
  BY <1>1, <1>2, <1>3, <1>4, <1>5, <1>6, <1>7, <1>8, <1>9

\* Wherever the program waits, the browser goes on, and so do the copies of the log.
LEMMA AsideHolds ==
  ASSUME IInv, ListDirectory \/ Navigate \/ SyncTick \/ SyncOver, UNCHANGED messages
  PROVE  IInv'
<1>1. running /\ at' = at /\ Same
  BY DEF ListDirectory, Navigate, SyncTick, SyncOver, Syncing, Rest, Same, place, session
<1>2. Passes /\ Hushed
  BY <1>1 DEF Passes, Hushed, Answering, Ended
<1>3. QED
  BY <1>1, <1>2, QuietHolds DEF Same, Quietly

\* Every way out of a session, and those out of the process that call no hook.
LEMMA EndsHolds ==
  ASSUME IInv, UNCHANGED messages,
         \/ LeaveMenu \/ LeaveAgain \/ RevokeOver \/ ProxyOver \/ (At("fetch") /\ EndSession)
         \/ Quit \/ Signal \/ Refused \/ Drain \/ PollFindsEnd \/ FarewellOver
         \/ (running /\ Fatal)
  PROVE  IInv'
<1>1. CASE LeaveMenu \/ LeaveAgain \/ RevokeOver \/ ProxyOver \/ (At("fetch") /\ EndSession)
  <2>1. running /\ at \in {"menu", "again", "revoke", "proxy", "fetch"} /\ CleanupAll("session")
    BY <1>1 DEF LeaveMenu, LeaveAgain, RevokeOver, ProxyOver, EndSession, At
  <2>2. at \notin Setup \union Moving \union Answering \union Ended \union {"resolve", "cleaning"}
    BY <2>1 DEF Setup, Moving, Answering, Ended
  <2>3. QED
    BY <2>1, <2>2, CleanupHolds
<1>2. CASE Quit
  <2>1. running /\ at = "ready" /\ CleanupAll("ai")
    BY <1>2 DEF Quit, At
  <2>2. at \notin Setup \union Moving \union Answering \union Ended \union {"resolve", "cleaning"}
    BY <2>1 DEF Setup, Moving, Answering, Ended
  <2>3. QED
    BY <2>1, <2>2, CleanupHolds
<1>3. CASE Signal
  BY <1>3, CleanupHolds DEF Signal
<1>4. CASE running /\ Fatal
  BY <1>4, CleanupHolds DEF Fatal
<1>5. CASE Refused \/ Drain \/ PollFindsEnd
  BY <1>5, ExitHolds DEF Refused, Drain, PollFindsEnd, At
<1>6. CASE FarewellOver
  BY <1>6, FarewellOverKeyed DEF IInv
<1>7. QED
  BY <1>1, <1>2, <1>3, <1>4, <1>5, <1>6

\* Before the session: its payload, its key, the telemetry.
LEMMA ResolvedHolds ==
  ASSUME IInv, NEW o, Resolved(o), UNCHANGED messages
  PROVE  IInv'
<1>1. running /\ at = "resolve" /\ UNCHANGED <<n, ending, running>>
  BY DEF Resolved, At, Unended
<1>2. \/ at' \in {"hung", "proxy", "greet"} /\ UNCHANGED <<keys, hooks>>
      \/ at' = "keygen" /\ WriteKey(n)
  BY DEF Resolved
<1>3. CASE at' \in {"hung", "proxy", "greet"} /\ UNCHANGED <<keys, hooks>>
  <2>1. Passes /\ Hushed
    BY <1>1, <1>3 DEF Passes, Hushed, InSession, Setup, Moving, Answering, Ended
  <2>2. QED
    BY <1>1, <1>3, <2>1, QuietHolds DEF Quietly
<1>4. CASE at' = "keygen" /\ WriteKey(n)
  <2>1. n \in (0..n) \union {Transfer} /\ n # Transfer
    BY Numbers DEF IInv, Keyed
  <2>2. hook # 0 => n \notin swept
    BY <1>1 DEF IInv, Keyed, CleanedUp
  <2>3. /\ at \notin InSession \union Setup \union Moving \union Answering \union Ended
                       \union {"cleaning"}
        /\ at' \notin Setup \union Answering \union {"resolve"}
    BY <1>1, <1>4 DEF InSession, Setup, Moving, Answering, Ended
  <2>4. QED
    BY <1>1, <1>4, <2>1, <2>2, <2>3, WriteKeyHolds
<1>5. QED
  BY <1>2, <1>3, <1>4

LEMMA KeyVerifiedHolds == ASSUME IInv, KeyVerified, UNCHANGED messages PROVE IInv'
<1>1. /\ running /\ at = "keygen" /\ at' = "greet" /\ UNCHANGED <<n, ending, running>>
      /\ n \in 0..MaxSessions
  BY DEF KeyVerified, At, Unended, IInv, Keyed
<1>2. \/ AddHooks(<<Hook("key", n)>>) /\ UNCHANGED keys
      \/ keys' = keys \ {n} /\ UNCHANGED hooks
  BY DEF KeyVerified
<1>3. PICK added \in Seq(Hooks) :
        /\ \A i \in 1..Len(added) : added[i].what # "farewell"
        /\ AddHooks(added) \/ (added = <<>> /\ UNCHANGED hooks)
  <2>1. CASE AddHooks(<<Hook("key", n)>>)
    <3>1. n \in Int
      BY <1>1
    <3>2. PICK s : s = <<Hook("key", n)>>
      OBVIOUS
    <3>3. s \in Seq(Hooks) /\ \A i \in 1..Len(s) : s[i].what # "farewell"
      BY <3>1, <3>2, OneHook
    <3>4. QED
      BY <2>1, <3>2, <3>3
  <2>2. CASE UNCHANGED hooks
    <3>1. PICK s \in Seq(Hooks) : s = <<>> /\ Len(s) = 0
      BY HookTypes
    <3>2. 1..Len(s) = {}
      BY <3>1
    <3>3. QED
      BY <2>2, <3>1, <3>2
  <2>3. QED
    BY <1>2, <2>1, <2>2
<1>4. keys' \subseteq keys /\ n' \in n..MaxSessions
  BY <1>1, <1>2, Numbers
<1>5. /\ at \notin InSession \union Answering \union Ended \union {"cleaning"}
      /\ at' \notin Setup \union Answering /\ at' # "resolve" /\ at \notin Moving
      /\ at # "aiKeygen"
  BY <1>1 DEF InSession, Setup, Moving, Answering, Ended
<1>6. QED
  BY <1>1, <1>3, <1>4, <1>5, KeysShrinkHolds
\* The farewell is hooked when the key's hooks are all there.
LEMMA GreetedHolds == ASSUME IInv, Greeted, UNCHANGED messages PROVE IInv'
<1>1. /\ running /\ at = "greet" /\ at' \in {"local", "menu"}
      /\ UNCHANGED <<n, keys, ending, running>> /\ n \in 0..MaxSessions
  BY DEF Greeted, At, Unended, session, IInv, Keyed
<1>2. PICK added : added = <<Hook("farewell", n), Hook("poll", n)>>
                            \o (IF offer.drop THEN <<Hook("sync", n)>> ELSE <<>>)
                   /\ AddHooks(added)
  BY DEF Greeted
<1>3. added \in Seq(Hooks) /\ \A i \in 1..Len(added) : added[i].what # "key"
  <2>1. PICK f \in Hooks, p \in Hooks, s \in Hooks :
          /\ f = Hook("farewell", n) /\ p = Hook("poll", n) /\ s = Hook("sync", n)
          /\ f.what # "key" /\ p.what # "key" /\ s.what # "key"
    BY <1>1, HookTypes
  <2>2. PICK two : two = <<f, p>>
    OBVIOUS
  <2>3. two \in Seq(Hooks) /\ Len(two) = 2 /\ two[1] = f /\ two[2] = p
    BY <2>1, <2>2
  <2>4. \A i \in 1..Len(two) : two[i].what # "key"
    <3>1. 1..Len(two) = {1, 2}
      BY <2>3
    <3>2. QED
      BY <2>1, <2>3, <3>1
  <2>5. PICK rest : rest = IF offer.drop THEN <<s>> ELSE <<>>
    OBVIOUS
  <2>6. rest \in Seq(Hooks) /\ \A i \in 1..Len(rest) : rest[i].what # "key"
    <3>1. CASE offer.drop
      <4>1. rest = <<s>>
        BY <2>5, <3>1
      <4>2. rest \in Seq(Hooks) /\ Len(rest) = 1 /\ rest[1] = s
        BY <2>1, <4>1
      <4>3. QED
        BY <2>1, <4>2
    <3>2. CASE ~offer.drop
      <4>1. rest = <<>>
        BY <2>5, <3>2
      <4>2. rest \in Seq(Hooks) /\ Len(rest) = 0
        BY <4>1
      <4>3. QED
        BY <4>2
    <3>3. QED
      BY <3>1, <3>2
  <2>7. added = two \o rest
    BY <1>2, <2>1, <2>2, <2>5
  <2>8. ASSUME NEW i \in 1..Len(added) PROVE added[i].what # "key"
    <3>1. CASE i <= Len(two)
      BY <2>3, <2>4, <2>6, <2>7, <2>8, <3>1, Appended
    <3>2. CASE i > Len(two)
      <4>1. Len(two \o rest) = Len(two) + Len(rest) /\ Len(rest) \in Nat
        BY <2>3, <2>6, Appended
      <4>2. i - Len(two) \in 1..Len(rest) /\ Len(two) + (i - Len(two)) = i
        BY <2>3, <2>7, <2>8, <3>2, <4>1
      <4>3. (two \o rest)[Len(two) + (i - Len(two))] = rest[i - Len(two)]
        BY <2>3, <2>6, <4>2, Appended
      <4>4. QED
        BY <2>6, <2>7, <4>2, <4>3
    <3>3. QED
      BY <2>3, <2>8, <3>1, <3>2
  <2>9. QED
    BY <2>3, <2>6, <2>7, <2>8, Appended
<1>4. /\ at \notin InSession \union {"cleaning"} \union Setup \union Moving
      /\ at' \in InSession /\ at' \notin Setup /\ at' # "resolve"
  BY <1>1 DEF InSession, Setup, Moving
<1>5. Keyed'
  <2>1. n' \in n..MaxSessions /\ keys' \ keys = {} /\ Keyed
    BY <1>1, Numbers DEF IInv
  <2>2. \A k \in keys' : k \in keys /\ ~(at = "aiKeygen" /\ k = Assistant)
    BY <1>1
  <2>3. Transfer \in keys' /\ (at \in Moving \/ Transfer \notin keys) => at' \in Moving
    BY <1>1, <1>4
  <2>4. keys' \ keys \subseteq (0..n') \union {Transfer} /\ (keys' \ keys) \cap swept = {}
    BY <2>1
  <2>5. QED
    BY <1>1, <1>2, <1>3, <1>4, <2>1, <2>2, <2>3, <2>4, HooksGrow
<1>6. Talk'
  BY <1>1, <1>4 DEF IInv, Talk, InSession, Answering, Ended
<1>7. QED
  BY <1>5, <1>6 DEF IInv

\* A session of the assistant begins.
LEMMA ConnectHolds == ASSUME IInv, Connect, UNCHANGED messages PROVE IInv'
<1>1. /\ running /\ at = "ready" /\ at' = "resolve" /\ n < MaxSessions /\ n' = n + 1
      /\ UNCHANGED <<keys, ending, running>> /\ n \in 0..MaxSessions
      /\ AddHooks(<<Hook("log", n + 1)>>)
  BY DEF Connect, At, StartSession, IInv, Keyed
<1>2. PICK added \in Seq(Hooks) : /\ added = <<Hook("log", n + 1)>>
                                  /\ \A i \in 1..Len(added) : added[i].what # "farewell"
  <2>1. n + 1 \in Int
    BY <1>1
  <2>2. PICK s : s = <<Hook("log", n + 1)>>
    OBVIOUS
  <2>3. s \in Seq(Hooks) /\ \A i \in 1..Len(s) : s[i].what # "farewell"
    BY <2>1, <2>2, OneHook
  <2>4. QED
    BY <2>2, <2>3
<1>3. n' \in n..MaxSessions
  BY <1>1, Numbers
<1>4. /\ at \notin InSession \union Answering \union Ended \union {"cleaning"}
      /\ at' \notin Setup \union Answering /\ at \notin Moving /\ at # "aiKeygen"
  BY <1>1 DEF InSession, Setup, Moving, Answering, Ended
<1>5. QED
  BY <1>1, <1>2, <1>3, <1>4, KeysShrinkHolds

LEMMA ClientHolds ==
  ASSUME IInv, ClientProgram \/ ClientUser \/ Background, UNCHANGED messages
  PROVE  IInv'
<1>1. CASE SessionStep
  BY <1>1, SessionStepHolds
<1>2. CASE \E o \in Offers : Resolved(o)
  BY <1>2, ResolvedHolds
<1>3. CASE FetchOver
  <2>1. CASE At("fetch") /\ kid = "alive" /\ Enters("revoke", "none", NoBrowser)
    <3>1. SessionStep
      BY <2>1, EntersTo DEF At, SessionStep, InSession
    <3>2. QED
      BY <3>1, SessionStepHolds
  <2>2. CASE At("fetch") /\ EndSession
    BY <2>2, EndsHolds
  <2>3. QED
    BY <1>3, <2>1, <2>2 DEF FetchOver
<1>4. CASE Overflow \/ Interrupt
  <2>1. running /\ Fatal
    BY <1>4 DEF Overflow, Interrupt
  <2>2. QED
    BY <2>1, EndsHolds
<1>5. CASE ClientProgram
  BY <1>1, <1>2, <1>3, <1>4, <1>5, InterludeSteps, TransferSteps, AsideHolds, EndsHolds,
     KeyVerifiedHolds, GreetedHolds DEF ClientProgram, ClientOwn, ClientAnswers
<1>6. CASE ClientUser
  BY <1>1, <1>4, <1>6, InterludeSteps, TransferSteps, AsideHolds, EndsHolds DEF ClientUser
<1>7. CASE Background
  BY <1>7, AsideHolds, EndsHolds DEF Background
<1>8. QED
  BY <1>5, <1>6, <1>7
----------------------------------------------------------------------------
(* The assistant's own steps.                                              *)

\* Steps of the assistant that leave keys, hooks and the conversation alone.
LEMMA AssistantQuiet ==
  ASSUME IInv, UNCHANGED messages,
         \/ Consent \/ ModelsListed \/ ChooseScope \/ TransferUnresolved \/ StartTransfer
         \/ AskTransfer \/ ResolveTransfer \/ AskUser \/ CallAllowed
  PROVE  IInv'
<1>1. /\ running /\ UNCHANGED <<n, keys, hooks, ending, running>>
      /\ \/ at = "consent" /\ at' \in {"models", "over"}
         \/ at = "models" /\ at' = "scope"
         \/ at = "scope" /\ at' \in {"ready", "lookup"}
         \/ at = "resolving" /\ at' = "ready"
         \/ at = "ready" /\ at' \in {"moving", "transferPrompt"}
         \/ at = "transferPrompt" /\ at' = "resolving"
         \/ at = "calling" /\ at' = "approve"
         \/ at = "approve" /\ at' = "command"
  <2>1. CASE Consent
    BY <2>1 DEF Consent, Goes, At, session
  <2>2. CASE ModelsListed
    BY <2>2 DEF ModelsListed, Goes, At, session
  <2>3. CASE ChooseScope
    BY <2>3 DEF ChooseScope, At, session
  <2>4. CASE TransferUnresolved
    BY <2>4 DEF TransferUnresolved, Goes, At, session
  <2>5. CASE StartTransfer
    BY <2>5 DEF StartTransfer, Enters, Unended, At, session
  <2>6. CASE AskTransfer
    BY <2>6 DEF AskTransfer, Goes, At, session
  <2>7. CASE ResolveTransfer
    BY <2>7 DEF ResolveTransfer, Goes, At, session
  <2>8. CASE AskUser
    BY <2>8 DEF AskUser, Goes, At, session
  <2>9. CASE CallAllowed
    BY <2>9 DEF CallAllowed, Speaks, At, session
  <2>10. QED
    BY <2>1, <2>2, <2>3, <2>4, <2>5, <2>6, <2>7, <2>8, <2>9
<1>2. Passes /\ Hushed
  BY <1>1 DEF Passes, Hushed, InSession, Setup, Moving, Answering, Ended
<1>3. QED
  BY <1>1, <1>2, QuietHolds DEF Quietly

\* What is said changes neither keys nor hooks.
LEMMA SpeakingHolds ==
  ASSUME IInv,
         \/ StartTurn \/ RateLimited \/ ModelAnswers \/ (\E k \in 1..MaxCalls : ModelCalls(k))
         \/ CallBlocked \/ CallDenied \/ CallOver
  PROVE  IInv'
<1>1. running /\ UNCHANGED <<n, keys, hooks, ending, running>>
  BY DEF StartTurn, RateLimited, ModelAnswers, ModelCalls, CallBlocked, CallDenied, CallOver,
         AnswerCall, Speaks, At, session
<1>2. /\ Talk'
      /\ at \in {"ready", "thinking", "calling", "approve", "command"}
      /\ at' \in {"calling", "thinking", "ready"}
  <2>1. CASE StartTurn \/ RateLimited \/ ModelAnswers \/ (\E k \in 1..MaxCalls : ModelCalls(k))
    BY <2>1, TurnTalk DEF IInv
  <2>2. CASE CallBlocked \/ CallDenied \/ CallOver
    <3>1. at \in {"calling", "approve", "command"} /\ AnswerCall
      BY <2>2 DEF CallBlocked, CallDenied, CallOver, At
    <3>2. QED
      BY <3>1, AnswerCallTalk DEF IInv, Answering
  <2>3. QED
    BY <2>1, <2>2
<1>3. Passes
  BY <1>2 DEF Passes, InSession, Setup, Moving
<1>4. QED
  BY <1>1, <1>2, <1>3, QuietKeyed DEF IInv, Quietly

\* The key of the assistant is written, and hooked only when it was read.
LEMMA AssistantKeyHolds ==
  ASSUME IInv, LookUp \/ AgentKeyRead \/ AgentKeyRefused, UNCHANGED messages
  PROVE  IInv'
<1>1. CASE LookUp
  <2>1. running /\ at = "lookup"
    BY <1>1 DEF LookUp, At
  <2>2. CASE Fatal
    BY <2>1, <2>2, EndsHolds
  <2>3. CASE ~Fatal
    <3>1. /\ UNCHANGED <<n, hooks, ending, running>>
          /\ \/ at' = "ready" /\ UNCHANGED keys
             \/ at' = "aiKeygen" /\ keys' = keys \union {Assistant}
      BY <1>1, <2>3 DEF LookUp, Unended, session
    <3>2. CASE at' = "ready" /\ UNCHANGED keys
      <4>1. Passes /\ Hushed
        BY <2>1, <3>2 DEF Passes, Hushed, InSession, Setup, Moving, Answering, Ended
      <4>2. QED
        BY <2>1, <3>1, <3>2, <4>1, QuietHolds DEF Quietly
    <3>3. CASE at' = "aiKeygen" /\ keys' = keys \union {Assistant}
      <4>1. PICK added \in Seq(Hooks) : added = <<>> /\ 1..Len(added) = {}
        <5>1. PICK s : s = <<>>
          OBVIOUS
        <5>2. s \in Seq(Hooks) /\ Len(s) = 0
          BY <5>1, HookTypes
        <5>3. 1..Len(s) = {}
          BY <5>2
        <5>4. QED
          BY <5>1, <5>2, <5>3
      <4>2. hook = 0
        BY <2>1 DEF IInv, Keyed, CleanedUp, Setup
      <4>3. n \in 0..MaxSessions /\ n' \in n..MaxSessions /\ Keyed
        BY <3>1, Numbers DEF IInv, Keyed
      <4>4. Assistant # Transfer /\ Assistant \in 0..n'
        BY <3>1, <4>3, Numbers DEF Assistant
      <4>5. keys' \ keys \subseteq (0..n') \union {Transfer}
        BY <3>3, <4>4
      <4>6. Transfer \in keys' /\ (at \in Moving \/ Transfer \notin keys) => at' \in Moving
        BY <2>1, <3>3, <4>4 DEF Moving
      <4>7. \A k \in keys' :
              \/ k \in keys /\ ~(at = "aiKeygen" /\ k = Assistant)
              \/ at' = "aiKeygen" /\ k = Assistant
              \/ \E i \in 1..Len(added) : added[i].what = "key" /\ added[i].owner = k
        BY <2>1, <3>3
      <4>8. at \notin InSession \union {"cleaning"} /\ (at' \in Setup => at \in Setup)
        BY <2>1 DEF InSession, Setup
      <4>9. \A i \in 1..Len(added) : added[i].what = "farewell" =>
              /\ at' \in InSession
              /\ \A j \in 1..Len(added) : added[j].what # "key"
        BY <4>1
      <4>10. hook # 0 => (at' = "resolve" => n' \notin swept) /\ (keys' \ keys) \cap swept = {}
        BY <4>2
      <4>11. AddHooks(added) \/ (added = <<>> /\ UNCHANGED hooks)
        BY <3>1, <4>1
      <4>12. Keyed'
        BY <2>1, <3>1, <4>3, <4>5, <4>6, <4>7, <4>8, <4>9, <4>10, <4>11, HooksGrow
      <4>13. Hushed
        BY <2>1, <3>3 DEF Hushed, Answering, Ended
      <4>14. QED
        BY <4>12, <4>13, HushedTalk DEF IInv
    <3>4. QED
      BY <3>1, <3>2, <3>3
  <2>4. QED
    BY <2>2, <2>3
<1>2. CASE AgentKeyRead
  <2>1. /\ running /\ at = "aiKeygen" /\ at' = "ready"
        /\ AddHooks(<<Hook("key", Assistant)>>) /\ UNCHANGED <<n, keys, ending, running>>
    BY <1>2 DEF AgentKeyRead, At, Unended, session
  <2>2. Assistant \in Int
    BY DEF Assistant
  <2>3. PICK added : added = <<Hook("key", Assistant)>>
    OBVIOUS
  <2>4. /\ added \in Seq(Hooks) /\ \A i \in 1..Len(added) : added[i].what # "farewell"
        /\ \E i \in 1..Len(added) : added[i].what = "key" /\ added[i].owner = Assistant
    BY <2>2, <2>3, OneHook
  <2>5. n' \in n..MaxSessions /\ keys' \subseteq keys
    BY <2>1, Numbers DEF IInv, Keyed
  <2>6. /\ at \notin InSession \union Answering \union Ended \union {"cleaning"}
        /\ at' \notin Setup \union Answering /\ at' # "resolve" /\ at \notin Moving
    BY <2>1 DEF InSession, Setup, Moving, Answering, Ended
  <2>7. QED
    BY <2>1, <2>3, <2>4, <2>5, <2>6, KeysShrinkHolds
<1>3. CASE AgentKeyRefused
  <2>1. /\ running /\ at = "aiKeygen" /\ at' = "failing" /\ keys' = keys \ {Assistant}
        /\ UNCHANGED <<n, hooks, ending, running>>
    BY <1>3 DEF AgentKeyRefused, At, Unended, session
  <2>2. PICK added : added = <<>>
    OBVIOUS
  <2>3. added \in Seq(Hooks) /\ Len(added) = 0
    BY <2>2, HookTypes
  <2>4. n' \in n..MaxSessions /\ keys' \subseteq keys /\ Assistant \notin keys'
    BY <2>1, Numbers DEF IInv, Keyed
  <2>5. /\ at \notin InSession \union Answering \union Ended \union {"cleaning"}
        /\ at' \notin Setup \union Answering /\ at' # "resolve" /\ at \notin Moving
    BY <2>1 DEF InSession, Setup, Moving, Answering, Ended
  <2>6. \A i \in 1..Len(added) : added[i].what # "farewell"
    BY <2>3
  <2>7. QED
    BY <2>1, <2>2, <2>3, <2>4, <2>5, <2>6, KeysShrinkHolds
<1>4. QED
  BY <1>1, <1>2, <1>3
\* The key of a transfer is written, read or refused, and removed with the transfer.
LEMMA TransferKeyHolds ==
  ASSUME IInv, TransferResolved \/ TransferKeyRead \/ MoveOver, UNCHANGED messages
  PROVE  IInv'
<1>1. CASE TransferResolved
  <2>1. /\ running /\ at = "resolving" /\ UNCHANGED <<n, ending, running>>
        /\ \/ at' = "transferKeygen" /\ WriteKey(Transfer)
           \/ at' = "moving" /\ UNCHANGED <<keys, hooks>>
    BY <1>1 DEF TransferResolved, At, Unended, session
  <2>2. CASE at' = "moving" /\ UNCHANGED <<keys, hooks>>
    <3>1. Passes /\ Hushed
      BY <2>1, <2>2 DEF Passes, Hushed, InSession, Setup, Moving, Answering, Ended
    <3>2. QED
      BY <2>1, <2>2, <3>1, QuietHolds DEF Quietly
  <2>3. CASE at' = "transferKeygen" /\ WriteKey(Transfer)
    <3>1. Transfer \in (0..n) \union {Transfer} /\ at' \in Moving
      BY <2>3 DEF Moving
    <3>2. hook # 0 => Transfer \notin swept
      BY <2>1, Numbers DEF IInv, Keyed, CleanedUp
    <3>3. /\ at \notin InSession \union Setup \union Moving \union Answering \union Ended
                         \union {"cleaning"}
          /\ at' \notin Setup \union Answering \union {"resolve"}
      BY <2>1, <2>3 DEF InSession, Setup, Moving, Answering, Ended
    <3>4. QED
      BY <2>1, <2>3, <3>1, <3>2, <3>3, WriteKeyHolds
  <2>4. QED
    BY <2>1, <2>2, <2>3
<1>2. CASE TransferKeyRead \/ MoveOver
  <2>1. /\ running /\ at \in Moving /\ UNCHANGED <<n, hooks, ending, running>>
        /\ \/ at' = "moving" /\ keys' = keys
           \/ at' = "ready" /\ keys' = keys \ {Transfer}
    BY <1>2 DEF TransferKeyRead, MoveOver, At, Unended, session, Moving
  <2>2. PICK added : added = <<>>
    OBVIOUS
  <2>3. added \in Seq(Hooks) /\ Len(added) = 0
    BY <2>2, HookTypes
  <2>4. \A i \in 1..Len(added) : added[i].what # "farewell"
    BY <2>3
  <2>5. n' \in n..MaxSessions /\ keys' \subseteq keys
    BY <2>1, Numbers DEF IInv, Keyed
  <2>6. /\ at \notin InSession \union Answering \union Ended \union {"cleaning"}
        /\ at' \notin Setup \union Answering /\ at' # "resolve" /\ at # "aiKeygen"
        /\ at' \in Moving \/ Transfer \notin keys'
    BY <2>1 DEF InSession, Setup, Moving, Answering, Ended
  <2>7. QED
    BY <2>1, <2>2, <2>3, <2>4, <2>5, <2>6, KeysShrinkHolds
<1>3. QED
  BY <1>1, <1>2

----------------------------------------------------------------------------
(* The theorems.                                                           *)

LEMMA InitHolds == ASSUME Init PROVE IInv
<1>1. /\ running = TRUE /\ hook = 0 /\ keys = {} /\ n \in 0..MaxSessions
      /\ at \notin Answering
  BY Numbers DEF Init, Answering
<1>2. messages \in Seq(Messages) /\ Sound(messages)
  BY SoundEmpty DEF Init
<1>3. hooks \in Seq(Hooks) /\ \A i \in 1..Len(hooks) : hooks[i].what # "farewell"
  <2>1. CASE mode = "ai"
    <3>1. hooks = <<>>
      BY <2>1 DEF Init
    <3>2. hooks \in Seq(Hooks) /\ Len(hooks) = 0
      BY <3>1, HookTypes
    <3>3. QED
      BY <3>2
  <2>2. CASE mode # "ai"
    <3>1. hooks = <<Hook("log", 1)>>
      BY <2>2 DEF Init
    <3>2. 1 \in Int
      OBVIOUS
    <3>3. QED
      BY <3>1, <3>2, OneHook
  <2>3. QED
    BY <2>1, <2>2
<1>4. Uncalled
  BY <1>1, <1>3 DEF Uncalled
<1>5. QED
  BY <1>1, <1>2, <1>3, <1>4 DEF IInv, Keyed, Talk

LEMMA NextHolds == ASSUME IInv, Next PROVE IInv'
<1>1. CASE AgentProgram
  <2>1. CASE /\ \/ ModelsListed \/ LookUp \/ AgentKeyRead \/ AgentKeyRefused \/ Failing
                \/ TransferUnresolved \/ TransferResolved \/ TransferKeyRead \/ MoveOver
             /\ Unspoken
    <3>1. UNCHANGED messages
      BY <2>1 DEF Unspoken
    <3>2. CASE Failing
      <4>1. running /\ Fatal
        BY <3>2 DEF Failing, At
      <4>2. QED
        BY <3>1, <4>1, EndsHolds
    <3>3. QED
      BY <2>1, <3>1, <3>2, AssistantQuiet, AssistantKeyHolds, TransferKeyHolds
  <2>2. CASE ServiceFailed
    <3>1. running /\ Fatal /\ UNCHANGED messages
      BY <2>2 DEF ServiceFailed, At, Unspoken
    <3>2. QED
      BY <3>1, EndsHolds
  <2>3. CASE AskUser
    <3>1. UNCHANGED messages
      BY <2>3 DEF AskUser, Unspoken
    <3>2. QED
      BY <2>3, <3>1, AssistantQuiet
  <2>4. QED
    BY <1>1, <2>1, <2>2, <2>3, SpeakingHolds DEF AgentProgram, AgentOwn, AgentAnswers
<1>2. CASE AgentUser
  <2>1. CASE /\ \/ Consent \/ StartTransfer \/ AskTransfer \/ ResolveTransfer \/ Connect
                \/ Quit \/ AgentInterrupt
             /\ Unspoken
    <3>1. UNCHANGED messages
      BY <2>1 DEF Unspoken
    <3>2. CASE AgentInterrupt
      <4>1. running /\ Fatal
        BY <3>2 DEF AgentInterrupt
      <4>2. QED
        BY <3>1, <4>1, EndsHolds
    <3>3. QED
      BY <2>1, <3>1, <3>2, AssistantQuiet, ConnectHolds, EndsHolds
  <2>2. CASE ChooseScope /\ UNCHANGED <<messages, step>>
    BY <2>2, AssistantQuiet
  <2>3. CASE CallAllowed
    <3>1. UNCHANGED messages
      BY <2>3 DEF CallAllowed
    <3>2. QED
      BY <2>3, <3>1, AssistantQuiet
  <2>4. QED
    BY <1>2, <2>1, <2>2, <2>3, SpeakingHolds DEF AgentUser
<1>3. CASE (ClientProgram \/ ClientUser \/ Background) /\ Unspoken
  <2>1. UNCHANGED messages
    BY <1>3 DEF Unspoken
  <2>2. QED
    BY <1>3, <2>1, ClientHolds
<1>4. QED
  BY <1>1, <1>2, <1>3 DEF Next, Own, Answers, AgentProgram, ClientProgram

LEMMA StutterHolds == ASSUME IInv, UNCHANGED vars PROVE IInv'
BY DEF IInv, Keyed, Uncalled, CleanedUp, Talk, Asked, vars, agentVars, clientVars, session,
       place, ending

LEMMA Invariance == Spec => []IInv
<1>1. Init => IInv
  BY InitHolds
<1>2. IInv /\ [Next]_vars => IInv'
  BY NextHolds, StutterHolds
<1>3. QED
  BY <1>1, <1>2, PTL DEF Spec

(***************************************************************************)
(* A process that exits after cleanupAll of lib/mod/cleanup.js leaves none *)
(* of the private keys whose work had begun when it was called, in         *)
(* whichever order keys, hooks, Ctrl-C, signals and exceptions come, and   *)
(* for any number of sessions of an assistant.                             *)
(***************************************************************************)
THEOREM KeysGone == Spec => []KeysRemoved
<1>1. IInv => KeysRemoved
  BY DEF IInv, Keyed, KeysRemoved
<1>2. QED
  BY <1>1, Invariance, PTL

(***************************************************************************)
(* runAgentTurn of modes/ai.js never asks the model with a call that has   *)
(* no answer or an answer that has no call, however often it was asked,    *)
(* whatever the user denied and wherever the conversation was cut.         *)
(***************************************************************************)
THEOREM ConversationKept == Spec => []ConversationSound
<1>1. IInv => ConversationSound
  BY Places DEF IInv, Talk, ConversationSound
<1>2. QED
  BY <1>1, Invariance, PTL
=============================================================================
