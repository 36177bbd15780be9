--------------------- MODULE TwitchReadConnection_proofs ---------------------
(***************************************************************************)
(* Invariance proofs for TwitchReadConnection, for every finite set of     *)
(* channels, every join budget and every bound.                            *)
(***************************************************************************)
EXTENDS TwitchReadConnection, SequenceTheorems, FiniteSetTheorems, TLAPS

\* On a connection that is up, the flags of the ping timer tell how long no
\* message has arrived.
FlagsTellQuiet ==
    link = "connected" /\ ~recentlyReceivedMessage
    => /\ quiet >= 1
       /\ waitingForPong => quiet = 2

\* Only a connection that was closed on purpose expects its loss.
ExpectsNoLoss == link # "closed" => ~expectConnectionLoss

\* The inductive invariant.
Inv ==
    /\ TypeOK
    /\ JoinsAreLimited
    /\ JoinWaitsForCooldown
    /\ OpenChannelsAreJoined
    /\ ClosedChannelsAreParted
    /\ ClosedLinkReconnects
    /\ ExpectsNoLoss
    /\ FlagsTellQuiet
-----------------------------------------------------------------------------
\* The bucket has at least one token.
LEMMA BudgetIsPositive == JOIN_RATELIMIT_BUDGET \in Nat /\ JOIN_RATELIMIT_BUDGET > 0
  <1>1. JOIN_RATELIMIT_BUDGET \in Nat \ {0}
    BY ConnectionAssumption
  <1> QED
    BY <1>1

\* Whatever moves tokens without losing one keeps the limit, and an entry that
\* waits has a cooldown to wait for.
LEMMA TokensStay ==
    ASSUME JoinsAreLimited, budget' \in Nat, cooldowns' \in Nat,
           budget' + cooldowns' = budget + cooldowns,
           queue' # << >> => budget' = 0
    PROVE  JoinsAreLimited' /\ JoinWaitsForCooldown'
  <1>1. budget' + cooldowns' = JOIN_RATELIMIT_BUDGET
    BY DEF JoinsAreLimited
  <1>2. ASSUME budget' = 0
        PROVE  cooldowns' > 0
    <2>1. 0 + cooldowns' = JOIN_RATELIMIT_BUDGET
      BY <1>1, <1>2
    <2>2. cooldowns' = JOIN_RATELIMIT_BUDGET
      BY <2>1
    <2> QED
      BY <2>2, BudgetIsPositive
  <1> QED
    BY <1>1, <1>2 DEF JoinsAreLimited, JoinWaitsForCooldown

\* The bucket after a sequence of send(): a part of the names, oldest first, is
\* sent and the rest waits; tokens are neither lost nor made, and nothing waits
\* while there is budget.
LEMMA SendEffect ==
    ASSUME NEW names \in Seq(Channel), NEW STATE before,
           queue \in Seq(Channel), budget \in Nat, cooldowns \in Nat,
           queue # << >> => budget = 0,
           Send(names, before)
    PROVE  /\ queue' \in Seq(Channel)
           /\ budget' \in Nat /\ cooldowns' \in Nat
           /\ budget' + cooldowns' = budget + cooldowns
           /\ queue' # << >> => budget' = 0
           /\ joined' \subseteq before \cup channels'
           /\ before \subseteq joined'
           /\ \A c \in channels' \cap (Entries(queue) \cup Entries(names)) :
                 link' = "connected" => c \in joined' \cup Entries(queue')
  <1> DEFINE all == queue \o names
             taken == IF budget < Len(names) THEN budget ELSE Len(names)
  <1>1. /\ all \in Seq(Channel)
        /\ Len(queue) \in Nat /\ Len(names) \in Nat
        /\ Len(all) = Len(queue) + Len(names)
        /\ \A i \in 1..Len(queue) + Len(names) :
              all[i] = IF i <= Len(queue) THEN queue[i] ELSE names[i - Len(queue)]
    BY ConcatProperties, LenProperties
  <1>2. taken \in Nat /\ taken <= budget /\ taken <= Len(names)
    BY <1>1
  <1>3. /\ queue' = SubSeq(all, taken + 1, Len(all))
        /\ budget' = budget - taken
        /\ cooldowns' = cooldowns + taken
        /\ joined' = before \cup JoinNames({all[i] : i \in 1..taken})
    BY DEF Send
  <1> HIDE DEF all, taken
  <1>4. \A i \in (taken + 1)..Len(all) : all[i] \in Channel
    BY <1>1, <1>2, ElementOfSeq
  <1>5. /\ queue' \in Seq(Channel)
        /\ Len(queue') = Len(all) - taken
        /\ \A i \in 1..(Len(all) - taken) : queue'[i] = all[taken + i]
    <2>1. /\ SubSeq(all, taken + 1, Len(all)) \in Seq(Channel)
          /\ Len(SubSeq(all, taken + 1, Len(all))) =
                IF taken + 1 <= Len(all) THEN Len(all) - (taken + 1) + 1 ELSE 0
          /\ \A i \in 1..(Len(all) - (taken + 1) + 1) :
                SubSeq(all, taken + 1, Len(all))[i] = all[taken + 1 + i - 1]
      <3>1. taken + 1 \in Int /\ Len(all) \in Int
        BY <1>1, <1>2
      <3> QED
        BY <3>1, <1>4, SubSeqProperties
    <2> QED
      BY <2>1, <1>1, <1>2, <1>3
  <1>6. budget' \in Nat /\ cooldowns' \in Nat /\ budget' + cooldowns' = budget + cooldowns
    BY <1>2, <1>3
  <1>7. ASSUME queue' # << >>
        PROVE  budget' = 0
    <2>1. CASE budget < Len(names)
      BY <2>1, <1>3 DEF taken
    <2>2. CASE ~(budget < Len(names))
      <3>1. taken = Len(names)
        BY <2>2 DEF taken
      <3>2. Len(queue') # 0
        BY <1>5, <1>7, EmptySeq
      <3>3. Len(queue) # 0
        BY <3>1, <3>2, <1>1, <1>5
      <3>4. budget = 0
        BY <3>3, EmptySeq
      <3> QED
        BY <3>4, <1>2, <1>3
    <2> QED
      BY <2>1, <2>2
  <1>8. joined' \subseteq before \cup channels' /\ before \subseteq joined'
    BY <1>3 DEF JoinNames
  <1>9. ASSUME NEW c \in channels' \cap (Entries(queue) \cup Entries(names)),
               link' = "connected"
        PROVE  c \in joined' \cup Entries(queue')
    <2>1. PICK i \in 1..Len(all) : all[i] = c
      <3>1. CASE c \in Entries(queue)
        BY <3>1, <1>1 DEF Entries
      <3>2. CASE c \in Entries(names)
        <4>1. PICK j \in 1..Len(names) : names[j] = c
          BY <3>2 DEF Entries
        <4>2. Len(queue) + j \in 1..(Len(queue) + Len(names))
          BY <1>1
        <4>5. ~(Len(queue) + j <= Len(queue))
          BY <1>1
        <4>3. all[Len(queue) + j] = names[(Len(queue) + j) - Len(queue)]
          <5> DEFINE k == Len(queue) + j
          <5> HIDE DEF k
          <5>1. k \in 1..(Len(queue) + Len(names)) /\ ~(k <= Len(queue))
            BY <4>2, <4>5 DEF k
          <5>2. all[k] = names[k - Len(queue)]
            BY <5>1, <1>1
          <5> QED
            BY <5>2 DEF k
        <4>4. (Len(queue) + j) - Len(queue) = j
          BY <1>1
        <4> QED
          BY <4>1, <4>2, <4>3, <4>4, <1>1
      <3> QED
        BY <3>1, <3>2, <1>9
    <2>2. CASE i <= taken
      <3>1. c \in {all[k] : k \in 1..taken}
        BY <2>1, <2>2, <1>1, <1>2
      <3> QED
        BY <3>1, <1>3, <1>9 DEF JoinNames
    <2>3. CASE ~(i <= taken)
      <3>1. i - taken \in 1..Len(queue') /\ queue'[i - taken] = c
        BY <2>1, <2>3, <1>1, <1>2, <1>5
      <3> QED
        BY <3>1 DEF Entries
    <2> QED
      BY <2>2, <2>3
  <1> QED
    BY <1>5, <1>6, <1>7, <1>8, <1>9

\* What Registered sends to the bucket are the open channels.
LEMMA OrdersCoverChannels ==
    ASSUME channels \subseteq Channel, NEW order \in JoinOrders
    PROVE  order \in Seq(Channel) /\ Entries(order) = channels
  <1>1. Cardinality(channels) \in Nat
    BY ConnectionAssumption, FS_Subset, FS_CardinalityType
  <1>2. order \in [1..Cardinality(channels) -> channels]
    BY DEF JoinOrders
  <1>3. order \in Seq(channels)
    BY <1>1, <1>2, SeqDef
  <1>4. Len(order) = Cardinality(channels)
    BY <1>1, <1>2, <1>3, LenProperties
  <1>5. Entries(order) = channels
    BY <1>2, <1>4 DEF Entries, JoinOrders
  <1> QED
    BY <1>3, <1>5, SeqMonotonic

\* A step of the connection itself that is not up afterwards, or stays up as it
\* was, leaves the bucket and the channels alone.
Idle == UNCHANGED <<bucket, channels>>

LEMMA IdleStep ==
    ASSUME Inv, Idle, link' = "connected" => joined' = joined /\ link = "connected",
           joined' \in {{}, joined}
    PROVE  /\ JoinsAreLimited' /\ JoinWaitsForCooldown'
           /\ OpenChannelsAreJoined' /\ ClosedChannelsAreParted'
           /\ channels' \subseteq Channel /\ joined' \subseteq Channel
           /\ budget' \in Nat /\ cooldowns' \in Nat /\ queue' \in Seq(Channel)
  <1>1. /\ channels' = channels /\ queue' = queue
        /\ budget' = budget /\ cooldowns' = cooldowns
    BY DEF Idle, bucket
  <1>2. Entries(queue') = Entries(queue)
    BY <1>1
  <1>3. OpenChannelsAreJoined'
    BY <1>1, <1>2 DEF Inv, OpenChannelsAreJoined
  <1>4. ClosedChannelsAreParted'
    BY <1>1 DEF Inv, ClosedChannelsAreParted
  <1> QED
    BY <1>1, <1>3, <1>4
       DEF Inv, TypeOK, JoinsAreLimited, JoinWaitsForCooldown
-----------------------------------------------------------------------------
\* The invariant holds initially.
LEMMA InitInv == Init => Inv
  <1> SUFFICES ASSUME Init PROVE Inv
    OBVIOUS
  <1>1. queue \in Seq(Channel)
    BY EmptySeq DEF Init
  <1>2. TypeOK
    <2>1. budget \in Nat /\ cooldowns \in Nat /\ quiet \in 0..2
      BY BudgetIsPositive DEF Init
    <2>2. losses \in Nat /\ connects \in Nat /\ opens \in Nat
      BY DEF Init
    <2>3. /\ silent \in BOOLEAN /\ expectConnectionLoss \in BOOLEAN
          /\ waitingForPong \in BOOLEAN /\ recentlyReceivedMessage \in BOOLEAN
          /\ pingTimer \in BOOLEAN /\ reconnectTimer \in BOOLEAN
      BY DEF Init
    <2>4. /\ link \in {"closed", "connecting", "connected"}
          /\ channels \subseteq Channel /\ joined \subseteq Channel
      BY DEF Init
    <2> QED
      BY <1>1, <2>1, <2>2, <2>3, <2>4 DEF TypeOK
  <1>3. JoinsAreLimited /\ JoinWaitsForCooldown
    BY BudgetIsPositive DEF Init, JoinsAreLimited, JoinWaitsForCooldown
  <1>4. /\ OpenChannelsAreJoined /\ ClosedChannelsAreParted /\ ClosedLinkReconnects
        /\ ExpectsNoLoss /\ FlagsTellQuiet
    BY DEF Init, OpenChannelsAreJoined, ClosedChannelsAreParted, ClosedLinkReconnects,
           ExpectsNoLoss, FlagsTellQuiet
  <1> QED
    BY <1>2, <1>3, <1>4 DEF Inv

\* Opening a channel: it is joined, or waits, if the connection is up.
LEMMA AddChannelStep ==
    ASSUME Inv, NEW c \in Channel, AddChannel(c)
    PROVE  Inv'
  <1> USE DEF Inv
  <1>1. /\ UNCHANGED irc /\ channels' = channels \cup {c}
        /\ losses' = losses /\ connects' = connects /\ opens' \in Nat
    BY DEF AddChannel, TypeOK
  <1>2. CASE link = "connected" /\ Send(<<c>>, joined)
    <2>1. <<c>> \in Seq(Channel) /\ Entries(<<c>>) = {c}
      <3>1. <<c>> \in Seq(Channel) /\ Len(<<c>>) = 1 /\ <<c>>[1] = c
        OBVIOUS
      <3> QED
        BY <3>1 DEF Entries
    <2>2. queue # << >> => budget = 0
      BY DEF JoinWaitsForCooldown
    <2>3. /\ queue' \in Seq(Channel)
          /\ budget' \in Nat /\ cooldowns' \in Nat
          /\ budget' + cooldowns' = budget + cooldowns
          /\ queue' # << >> => budget' = 0
          /\ joined' \subseteq joined \cup channels'
          /\ joined \subseteq joined'
          /\ \A d \in channels' \cap (Entries(queue) \cup Entries(<<c>>)) :
                link' = "connected" => d \in joined' \cup Entries(queue')
      BY <1>2, <2>1, <2>2, SendEffect DEF TypeOK
    <2>4. TypeOK'
      BY <1>1, <2>3 DEF TypeOK, irc
    <2>8. /\ budget' \in Nat /\ cooldowns' \in Nat
          /\ budget' + cooldowns' = budget + cooldowns
          /\ queue' # << >> => budget' = 0
      BY <2>3
    <2>5. JoinsAreLimited' /\ JoinWaitsForCooldown'
      BY <2>8, TokensStay
    <2>6. OpenChannelsAreJoined'
      BY <1>1, <1>2, <2>1, <2>3 DEF OpenChannelsAreJoined, irc
    <2>7. ClosedChannelsAreParted'
      BY <1>1, <2>3 DEF ClosedChannelsAreParted
    <2> QED
      BY <1>1, <2>4, <2>5, <2>6, <2>7 DEF irc, ClosedLinkReconnects, ExpectsNoLoss, FlagsTellQuiet
  <1>3. CASE link # "connected" /\ UNCHANGED <<bucket, joined>>
    BY <1>1, <1>3
       DEF irc, bucket, TypeOK, JoinsAreLimited, JoinWaitsForCooldown, OpenChannelsAreJoined,
           ClosedChannelsAreParted, ClosedLinkReconnects, ExpectsNoLoss, FlagsTellQuiet
  <1> QED
    BY <1>2, <1>3 DEF AddChannel

\* Closing a channel: it is parted, and the others stay where they are.
LEMMA ChannelDestroyedStep ==
    ASSUME Inv, NEW c \in Channel, ChannelDestroyed(c)
    PROVE  Inv'
  <1>1. Entries(queue') = Entries(queue)
    BY DEF ChannelDestroyed, bucket
  <1>2. OpenChannelsAreJoined'
    BY <1>1 DEF Inv, ChannelDestroyed, OpenChannelsAreJoined, irc
  <1> QED
    BY <1>2
       DEF Inv, ChannelDestroyed, irc, bucket, TypeOK, JoinsAreLimited, JoinWaitsForCooldown,
           ClosedChannelsAreParted, ClosedLinkReconnects, ExpectsNoLoss, FlagsTellQuiet

\* A cooldown ends: its token is free again, or used at once for the first JOIN
\* that waits.
LEMMA CooldownStep ==
    ASSUME Inv, Cooldown
    PROVE  Inv'
  <1> USE DEF Inv
  <1>1. /\ UNCHANGED <<irc, channels, losses, connects, opens>>
        /\ cooldowns > 0
    BY DEF Cooldown
  <1>2. CASE queue = << >> /\ budget' = budget + 1 /\ cooldowns' = cooldowns - 1
             /\ UNCHANGED <<queue, joined>>
    <2>1. Entries(queue') = Entries(queue)
      BY <1>2
    <2>2. OpenChannelsAreJoined'
      BY <1>1, <1>2, <2>1 DEF OpenChannelsAreJoined, irc
    <2> QED
      BY <1>1, <1>2, <2>2
         DEF irc, TypeOK, JoinsAreLimited, JoinWaitsForCooldown,
             ClosedChannelsAreParted, ClosedLinkReconnects, ExpectsNoLoss, FlagsTellQuiet
  <1>3. CASE queue # << >> /\ queue' = Tail(queue)
             /\ joined' = joined \cup JoinNames({Head(queue)})
             /\ UNCHANGED <<budget, cooldowns>>
    <2>1. /\ queue \in Seq(Channel) /\ Len(queue) \in Nat /\ Len(queue) # 0
          /\ Head(queue) \in Channel /\ queue' \in Seq(Channel)
          /\ Len(queue') = Len(queue) - 1
          /\ \A i \in 1..Len(queue') : queue'[i] = queue[i + 1]
          /\ Head(queue) = queue[1]
      BY <1>3, HeadTailProperties, EmptySeq, LenProperties DEF TypeOK
    <2>2. Entries(queue) \subseteq {Head(queue)} \cup Entries(queue')
      <3> SUFFICES ASSUME NEW i \in 1..Len(queue), i # 1
                   PROVE  queue[i] \in Entries(queue')
        BY <2>1 DEF Entries
      <3>1. i - 1 \in 1..Len(queue') /\ queue'[i - 1] = queue[i]
        BY <2>1
      <3> QED
        BY <3>1 DEF Entries
    <2>3. OpenChannelsAreJoined'
      BY <1>1, <1>3, <2>2 DEF OpenChannelsAreJoined, JoinNames, irc
    <2>4. ClosedChannelsAreParted'
      BY <1>1, <1>3 DEF ClosedChannelsAreParted, JoinNames
    <2>5. TypeOK'
      BY <1>1, <1>3, <2>1 DEF TypeOK, JoinNames, irc
    <2>6. JoinsAreLimited' /\ JoinWaitsForCooldown'
      BY <1>1, <1>3, BudgetIsPositive DEF JoinsAreLimited, JoinWaitsForCooldown, TypeOK
    <2> QED
      BY <1>1, <2>3, <2>4, <2>5, <2>6 DEF irc, ClosedLinkReconnects, ExpectsNoLoss, FlagsTellQuiet
  <1> QED
    BY <1>2, <1>3 DEF Cooldown

\* A connection that registers sends every open channel to the bucket.
LEMMA RegisteredStep ==
    ASSUME Inv, Registered
    PROVE  Inv'
  <1> USE DEF Inv
  <1>1. PICK order \in JoinOrders : Send(order, {})
    BY DEF Registered
  <1>2. order \in Seq(Channel) /\ Entries(order) = channels
    BY OrdersCoverChannels DEF TypeOK
  <1>3. /\ channels' = channels /\ link = "connecting" /\ link' = "connected"
        /\ recentlyReceivedMessage' = TRUE
        /\ expectConnectionLoss' = expectConnectionLoss
    BY DEF Registered
  <1>4. queue # << >> => budget = 0
    BY DEF JoinWaitsForCooldown
  <1>5. /\ queue' \in Seq(Channel)
        /\ budget' \in Nat /\ cooldowns' \in Nat
        /\ budget' + cooldowns' = budget + cooldowns
        /\ queue' # << >> => budget' = 0
        /\ joined' \subseteq {} \cup channels'
        /\ \A c \in channels' \cap (Entries(queue) \cup Entries(order)) :
              link' = "connected" => c \in joined' \cup Entries(queue')
    BY <1>1, <1>2, <1>4, SendEffect DEF TypeOK
  <1>6. OpenChannelsAreJoined' /\ ClosedChannelsAreParted'
    BY <1>2, <1>3, <1>5 DEF OpenChannelsAreJoined, ClosedChannelsAreParted
  <1>7. JoinsAreLimited' /\ JoinWaitsForCooldown'
    <2>1. /\ budget' \in Nat /\ cooldowns' \in Nat
          /\ budget' + cooldowns' = budget + cooldowns
          /\ queue' # << >> => budget' = 0
      BY <1>5
    <2> QED
      BY <2>1, TokensStay
  <1>8. TypeOK'
    BY <1>3, <1>5 DEF TypeOK, Registered
  <1> QED
    BY <1>3, <1>6, <1>7, <1>8 DEF ClosedLinkReconnects, ExpectsNoLoss, FlagsTellQuiet

\* connect(), a loss, the reconnect timer, messages and ticks leave the bucket
\* alone.
LEMMA ConnectionStep ==
    ASSUME Inv,
           \/ Connect \/ LinkFails \/ GoesSilent \/ ReconnectTimer \/ PingTick
           \/ \E isPong \in BOOLEAN : MessageReceived(isPong)
    PROVE  Inv'
  <1> DEFINE BucketKept ==
          /\ JoinsAreLimited' /\ JoinWaitsForCooldown'
          /\ OpenChannelsAreJoined' /\ ClosedChannelsAreParted'
          /\ channels' \subseteq Channel /\ joined' \subseteq Channel
          /\ budget' \in Nat /\ cooldowns' \in Nat /\ queue' \in Seq(Channel)
  <1>1. CASE Connect
    <2>1. Idle /\ link' = "connecting" /\ joined' = {}
      BY <1>1 DEF Connect, Open, Idle
    <2>2. BucketKept
      BY <2>1, IdleStep
    <2>3. TypeOK'
      <3>1. /\ expectConnectionLoss' = FALSE /\ waitingForPong' = FALSE
            /\ recentlyReceivedMessage' = FALSE /\ silent' = FALSE
            /\ pingTimer' = (pingTimer /\ link = "closed")
            /\ reconnectTimer' = reconnectTimer
        BY <1>1 DEF Connect, Open
      <3>2. pingTimer' \in BOOLEAN
        BY <3>1
      <3>4. /\ expectConnectionLoss' \in BOOLEAN /\ waitingForPong' \in BOOLEAN
            /\ recentlyReceivedMessage' \in BOOLEAN /\ silent' \in BOOLEAN
        BY <3>1
      <3>5. reconnectTimer' \in BOOLEAN
        BY <3>1 DEF Inv, TypeOK
      <3>3. /\ quiet' = quiet /\ losses' = losses /\ connects' = connects + 1
            /\ opens' = opens
        BY <1>1 DEF Connect
      <3> QED
        BY <2>1, <2>2, <3>2, <3>3, <3>4, <3>5 DEF Inv, TypeOK
    <2>4. ClosedLinkReconnects' /\ ExpectsNoLoss'
      BY <1>1 DEF Inv, ClosedLinkReconnects, ExpectsNoLoss, Connect, Open
    <2>5. FlagsTellQuiet'
      BY <1>1 DEF Inv, TypeOK, FlagsTellQuiet, Connect, Open
    <2> QED
      BY <2>2, <2>3, <2>4, <2>5 DEF Inv
  <1>2. CASE LinkFails
    <2>1. Idle /\ link' = "closed" /\ joined' = {}
      BY <1>2 DEF LinkFails, Idle
    <2>2. BucketKept
      BY <2>1, IdleStep
    <2>3. TypeOK'
      <3>1. reconnectTimer' = (reconnectTimer \/ ~expectConnectionLoss)
        BY <1>2 DEF LinkFails
      <3>2. reconnectTimer' \in BOOLEAN
        BY <3>1
      <3>3. /\ silent' = FALSE /\ pingTimer' = FALSE
            /\ UNCHANGED <<expectConnectionLoss, waitingForPong, recentlyReceivedMessage>>
        BY <1>2 DEF LinkFails
      <3>5. silent' \in BOOLEAN /\ pingTimer' \in BOOLEAN
        BY <3>3
      <3>6. /\ expectConnectionLoss' \in BOOLEAN /\ waitingForPong' \in BOOLEAN
            /\ recentlyReceivedMessage' \in BOOLEAN
        BY <3>3 DEF Inv, TypeOK
      <3>4. /\ quiet' = quiet /\ losses' = losses + 1 /\ connects' = connects
            /\ opens' = opens
        BY <1>2 DEF LinkFails
      <3> QED
        BY <2>1, <2>2, <3>2, <3>4, <3>5, <3>6 DEF Inv, TypeOK
    <2>4. ClosedLinkReconnects' /\ ExpectsNoLoss'
      BY <1>2 DEF Inv, ClosedLinkReconnects, ExpectsNoLoss, LinkFails
    <2>5. FlagsTellQuiet'
      BY <1>2 DEF Inv, TypeOK, FlagsTellQuiet, LinkFails
    <2> QED
      BY <2>2, <2>3, <2>4, <2>5 DEF Inv
  <1>3. CASE GoesSilent
    <2>1. Idle /\ link' = link /\ joined' = joined
      BY <1>3 DEF GoesSilent, Idle
    <2>2. BucketKept
      BY <2>1, IdleStep
    <2>3. TypeOK'
      BY <1>3, <2>2 DEF Inv, TypeOK, GoesSilent
    <2>4. ClosedLinkReconnects' /\ ExpectsNoLoss'
      BY <1>3 DEF Inv, ClosedLinkReconnects, ExpectsNoLoss, GoesSilent
    <2>5. FlagsTellQuiet'
      BY <1>3 DEF Inv, TypeOK, FlagsTellQuiet, GoesSilent
    <2> QED
      BY <2>2, <2>3, <2>4, <2>5 DEF Inv
  <1>4. CASE ReconnectTimer
    <2>1. Idle /\ joined' = joined /\ (link' = "connected" => link = "connected")
      BY <1>4 DEF ReconnectTimer, Open, Idle
    <2>2. BucketKept
      BY <2>1, IdleStep
    <2>3. TypeOK'
      BY <1>4, <2>2 DEF Inv, TypeOK, ReconnectTimer, Open
    <2>4. ClosedLinkReconnects' /\ ExpectsNoLoss'
      BY <1>4 DEF Inv, ClosedLinkReconnects, ExpectsNoLoss, ReconnectTimer, Open
    <2>5. FlagsTellQuiet'
      BY <1>4 DEF Inv, TypeOK, FlagsTellQuiet, ReconnectTimer, Open
    <2> QED
      BY <2>2, <2>3, <2>4, <2>5 DEF Inv
  <1>5. CASE PingTick
    <2>1. /\ Idle
          /\ \/ link' = link /\ joined' = joined
             \/ link' = "closed" /\ joined' = {}
      BY <1>5 DEF PingTick, Idle
    <2>2. BucketKept
      BY <2>1, IdleStep
    <2>3. /\ quiet' = IF quiet < 2 THEN quiet + 1 ELSE quiet
          /\ connects' = connects /\ opens' = opens
      BY <1>5 DEF PingTick
    <2>4. CASE recentlyReceivedMessage
      <3>1. /\ recentlyReceivedMessage' = FALSE /\ waitingForPong' = FALSE
            /\ UNCHANGED <<link, silent, expectConnectionLoss, pingTimer,
                           reconnectTimer, joined, losses>>
        BY <1>5, <2>4 DEF PingTick
      <3>4. recentlyReceivedMessage' \in BOOLEAN /\ waitingForPong' \in BOOLEAN
        BY <3>1
      <3>5. /\ UNCHANGED <<link, silent, expectConnectionLoss, pingTimer,
                           reconnectTimer, joined, losses>>
        BY <3>1
      <3>2. TypeOK'
        BY <2>2, <2>3, <3>4, <3>5 DEF Inv, TypeOK
      <3>3. ClosedLinkReconnects' /\ ExpectsNoLoss' /\ FlagsTellQuiet'
        BY <2>3, <2>1, <3>1
           DEF Inv, TypeOK, ClosedLinkReconnects, ExpectsNoLoss, FlagsTellQuiet
      <3> QED
        BY <2>2, <3>2, <3>3 DEF Inv
    <2>5. CASE ~recentlyReceivedMessage /\ ~waitingForPong
      <3>1. /\ waitingForPong' = TRUE
            /\ UNCHANGED <<link, silent, expectConnectionLoss, recentlyReceivedMessage,
                           pingTimer, reconnectTimer, joined, losses>>
        BY <1>5, <2>5 DEF PingTick
      <3>2. TypeOK'
        BY <2>2, <2>3, <3>1 DEF Inv, TypeOK
      <3>3. ClosedLinkReconnects' /\ ExpectsNoLoss' /\ FlagsTellQuiet'
        BY <2>3, <2>1, <3>1
           DEF Inv, TypeOK, ClosedLinkReconnects, ExpectsNoLoss, FlagsTellQuiet
      <3> QED
        BY <2>2, <3>2, <3>3 DEF Inv
    <2>6. CASE ~recentlyReceivedMessage /\ waitingForPong
      <3>1. /\ link' = "closed" /\ silent' = FALSE /\ expectConnectionLoss' = TRUE
            /\ pingTimer' = FALSE /\ reconnectTimer' = TRUE
            /\ losses' \in {losses, losses + 1}
            /\ UNCHANGED <<waitingForPong, recentlyReceivedMessage>>
        BY <1>5, <2>6 DEF PingTick
      <3>4. /\ silent' \in BOOLEAN /\ expectConnectionLoss' \in BOOLEAN
            /\ pingTimer' \in BOOLEAN /\ reconnectTimer' \in BOOLEAN
        BY <3>1
      <3>5. /\ link' = "closed" /\ losses' \in {losses, losses + 1}
            /\ UNCHANGED <<waitingForPong, recentlyReceivedMessage>>
        BY <3>1
      <3>2. TypeOK'
        BY <2>2, <2>3, <3>4, <3>5 DEF Inv, TypeOK
      <3>3. ClosedLinkReconnects' /\ ExpectsNoLoss' /\ FlagsTellQuiet'
        BY <2>3, <2>1, <3>1
           DEF Inv, TypeOK, ClosedLinkReconnects, ExpectsNoLoss, FlagsTellQuiet
      <3> QED
        BY <2>2, <3>2, <3>3 DEF Inv
    <2> QED
      BY <2>4, <2>5, <2>6
  <1>6. CASE \E isPong \in BOOLEAN : MessageReceived(isPong)
    <2>1. Idle /\ link' = link /\ joined' = joined
      BY <1>6 DEF MessageReceived, Idle
    <2>2. BucketKept
      BY <2>1, IdleStep
    <2>3. TypeOK'
      BY <1>6, <2>2 DEF Inv, TypeOK, MessageReceived
    <2>4. ClosedLinkReconnects' /\ ExpectsNoLoss'
      BY <1>6 DEF Inv, ClosedLinkReconnects, ExpectsNoLoss, MessageReceived
    <2>5. FlagsTellQuiet'
      BY <1>6 DEF Inv, TypeOK, FlagsTellQuiet, MessageReceived
    <2> QED
      BY <2>2, <2>3, <2>4, <2>5 DEF Inv
  <1> QED
    BY <1>1, <1>2, <1>3, <1>4, <1>5, <1>6
-----------------------------------------------------------------------------
\* The invariant is inductive.
LEMMA NextInv == Inv /\ [Next]_vars => Inv'
  <1> SUFFICES ASSUME Inv, [Next]_vars PROVE Inv'
    OBVIOUS
  <1>1. CASE \E c \in Channel : AddChannel(c) \/ ChannelDestroyed(c)
    BY <1>1, AddChannelStep, ChannelDestroyedStep
  <1>2. CASE Cooldown
    BY <1>2, CooldownStep
  <1>3. CASE Registered
    BY <1>3, RegisteredStep
  <1>4. CASE \/ Connect \/ LinkFails \/ GoesSilent \/ ReconnectTimer \/ PingTick
             \/ \E isPong \in BOOLEAN : MessageReceived(isPong)
    BY <1>4, ConnectionStep
  <1>5. CASE UNCHANGED vars
    <2>1. /\ UNCHANGED irc /\ UNCHANGED bucket /\ channels' = channels /\ joined' = joined
          /\ losses' = losses /\ connects' = connects /\ opens' = opens
      BY <1>5 DEF vars
    <2>2. Entries(queue') = Entries(queue)
      BY <2>1 DEF bucket
    <2>3. OpenChannelsAreJoined'
      BY <2>1, <2>2 DEF Inv, OpenChannelsAreJoined, irc
    <2> QED
      BY <2>1, <2>3
         DEF Inv, irc, bucket, TypeOK, JoinsAreLimited, JoinWaitsForCooldown,
             ClosedChannelsAreParted, ClosedLinkReconnects, ExpectsNoLoss, FlagsTellQuiet
  <1> QED
    BY <1>1, <1>2, <1>3, <1>4, <1>5 DEF Next

LEMMA InvIsInvariant == Spec => []Inv
  <1>1. Init => Inv
    BY InitInv
  <1>2. Inv /\ [Next]_vars => Inv'
    BY NextInv
  <1> QED
    BY <1>1, <1>2, PTL DEF Spec

\* Every variable of the connection, the bucket and the channels has its type.
THEOREM TypeCorrect == Spec => []TypeOK
  <1>1. Inv => TypeOK
    BY DEF Inv
  <1> QED
    BY <1>1, InvIsInvariant, PTL

\* RatelimitBucket sends at most its budget of JOINs per cooldown and loses no
\* token, and no JOIN waits while there is budget or without a cooldown that
\* will take it.
THEOREM BucketIsSound == Spec => [](JoinsAreLimited /\ JoinWaitsForCooldown)
  <1>1. Inv => JoinsAreLimited /\ JoinWaitsForCooldown
    BY DEF Inv
  <1> QED
    BY <1>1, InvIsInvariant, PTL

\* Whatever happens to connection and channels, on a connection that is up every
\* open channel is joined or waits in the bucket.
THEOREM OpenChannelsJoin == Spec => []OpenChannelsAreJoined
  <1>1. Inv => OpenChannelsAreJoined
    BY DEF Inv
  <1> QED
    BY <1>1, InvIsInvariant, PTL

\* A JOIN that waited in the bucket never joins a channel that was closed.
THEOREM ClosedChannelsPart == Spec => []ClosedChannelsAreParted
  <1>1. Inv => ClosedChannelsAreParted
    BY DEF Inv
  <1> QED
    BY <1>1, InvIsInvariant, PTL

\* A connection that is down always has a reconnect timer.
THEOREM LinkComesBack == Spec => []ClosedLinkReconnects
  <1>1. Inv => ClosedLinkReconnects
    BY DEF Inv
  <1> QED
    BY <1>1, InvIsInvariant, PTL

\* The ping timer closes a connection only after two ticks without a message.
THEOREM TimeoutMeansQuiet == Spec => TimesOutOnlyWhenQuiet
  <1>1. Inv /\ [Next]_vars => [PingTick /\ link' = "closed" => quiet = 2]_vars
    <2> SUFFICES ASSUME Inv, PingTick, link' = "closed"
                 PROVE  quiet = 2
      OBVIOUS
    <2>1. link = "connected" /\ ~recentlyReceivedMessage /\ waitingForPong
      BY DEF PingTick
    <2> QED
      BY <2>1 DEF Inv, FlagsTellQuiet
  <1> QED
    BY <1>1, InvIsInvariant, PTL DEF Spec, TimesOutOnlyWhenQuiet
=============================================================================
