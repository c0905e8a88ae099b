----------------------------- MODULE MCMessaging -----------------------------
(***************************************************************************)
(* TLC instance of the parts of the messaging bridge that share no state:  *)
(* the trees of turns, the outgoing limiter, pending voice notes, saving   *)
(* to disk, the pool of CLI sessions and the messages of a chat.  A        *)
(* behaviour is one of one part, the others rest in an initial state, in   *)
(* which nothing of theirs has to happen: a run explores the sum of the    *)
(* parts, not their product.                                               *)
(***************************************************************************)
EXTENDS MessageTrees, MessageLimiter, PendingVoices, SessionPersistence, ManagedSessions,
        ChatMessages

VARIABLE part

messagingVars ==
    << part, vars, limiterVars, voiceVars, persistenceVars, sessionVars, chatVars >>

MessagingInit ==
    /\ part \in {"trees", "limiter", "voices", "persistence", "sessions", "chat"}
    /\ Init /\ LimiterInit /\ VoicesInit /\ PersistenceInit /\ SessionsInit
    /\ ChatInit

MessagingNext ==
    /\ UNCHANGED part
    /\ \/ /\ part = "trees" /\ Next
          /\ UNCHANGED << limiterVars, voiceVars, persistenceVars, sessionVars, chatVars >>
       \/ /\ part = "limiter" /\ LimiterNext
          /\ UNCHANGED << vars, voiceVars, persistenceVars, sessionVars, chatVars >>
       \/ /\ part = "voices" /\ VoicesNext
          /\ UNCHANGED << vars, limiterVars, persistenceVars, sessionVars, chatVars >>
       \/ /\ part = "persistence" /\ PersistenceNext
          /\ UNCHANGED << vars, limiterVars, voiceVars, sessionVars, chatVars >>
       \/ /\ part = "sessions" /\ SessionsNext
          /\ UNCHANGED << vars, limiterVars, voiceVars, persistenceVars, chatVars >>
       \/ /\ part = "chat" /\ ChatNext
          /\ UNCHANGED << vars, limiterVars, voiceVars, persistenceVars, sessionVars >>

MessagingSpec ==
    /\ MessagingInit /\ [][MessagingNext]_messagingVars
    /\ TreesFairness /\ LimiterFairness /\ VoicesFairness
    /\ PersistenceFairness /\ SessionsFairness

\* Every variable of every part stays in its range.
MessagingTypeOK ==
    /\ TypeOK /\ LimiterTypeOK /\ VoicesTypeOK
    /\ PersistenceTypeOK /\ SessionsTypeOK /\ ChatTypeOK

\* What was asked for comes to its end: the queues of the trees move, every
\* call of the limiter is answered, voice notes and cancelled nodes end.
WorkEnds == QueueMoves /\ EveryCallAnswered /\ VoicesEnd /\ CancelledNodesEnd
==============================================================================
