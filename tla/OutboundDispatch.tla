--------------------------- MODULE OutboundDispatch ---------------------------
(***************************************************************************)
(* The outbound half of the gateway, channels/manager.py: the gateway's tasks  *)
(* put messages on the bus, and one dispatcher task takes them in order,       *)
(* merges the deltas of a stream, suppresses repeated answers to one origin    *)
(* and sends each message with retries, while pages of the WebUI enable and    *)
(* disable channels under it.                                                  *)
(*                                                                          *)
(* A channel's name is registered for one instance at a time; the dispatcher *)
(* looks the instance up once per message and keeps it through all retries.  *)
(* What a message says is its text, and no text is NoText.                   *)
(***************************************************************************)
EXTENDS Naturals, SequencesExt, FiniteSets

CONSTANTS
    Msgs,           \* the messages that may be sent
    Scripts,        \* the orders in which the tasks of the gateway publish them
    Channels,
    Pages,          \* WebUI connections; each has one request at a time
    Kind,           \* reply, delta, end, progress
    ChannelOf, StreamOf, TextOf,
    Answers,        \* the message id a reply answers, or NoOrigin
    Origin,         \* the origin_message_id of a late answer, or NoOrigin
    NoText, NoOrigin,
    Shown,          \* channels that show progress
    MaxAttempts,    \* send_max_retries, at least 1
    CacheSize,      \* ORIGIN_REPLY_FINGERPRINTS_MAX_SIZE
    MaxInstances    \* bound on channel instances built

ASSUME ConstantsAssumption ==
    /\ \A s \in Scripts : s \in Seq(Msgs) /\ IsInjective(s)
    /\ Kind \in [Msgs -> {"reply", "delta", "end", "progress"}]
    /\ ChannelOf \in [Msgs -> Channels] /\ Shown \subseteq Channels
    /\ MaxAttempts \in Nat \ {0} /\ CacheSize \in Nat \ {0} /\ MaxInstances \in Nat

VARIABLES
    script, next,   \* what is published, and how many messages of it were
    outbound,       \* the bus
    pending,        \* the message coalescing handed back
    current,        \* the message being sent, by the messages merged in it
    via, attempt,   \* the instance that sends it, and the attempts made
    resting,        \* the dispatcher sleeps before a retry
    dispatcher,     \* running, stopped
    live,           \* the instance registered under each channel's name, or 0
    running,        \* instances that were started and not stopped
    built,          \* instances built so far
    job,            \* the request of each page
    fingerprints,   \* per origin the last text, least recently used first
    \* history, which only properties read:
    seen,           \* replies in the order in which they were dispatched
    delivered,      \* what went out last, by the messages merged in it
    fate            \* what became of each message

queues == <<script, next, outbound, pending>>
sending == <<current, via, attempt, resting>>
registry == <<live, running, built, job>>
history == <<seen, delivered, fate>>
vars == <<queues, sending, dispatcher, registry, fingerprints, history>>

Instances == 1..MaxInstances
Fates == {"none", "delivered", "suppressed", "hidden", "unknown", "failed", "lost"}
NoRequest == [do |-> "none", channel |-> "none"]
Idle == current = <<>>
Sealed(fates, parts, f) == [m \in Msgs |-> IF m \in ToSet(parts) THEN f ELSE fates[m]]

\* Every channel is configured and running, its instances built at start.
Init ==
    /\ script \in Scripts /\ next = 0
    /\ outbound = <<>> /\ pending = <<>>
    /\ current = <<>> /\ via = 0 /\ attempt = 0 /\ resting = FALSE
    /\ dispatcher = "running"
    /\ live = CHOOSE f \in [Channels -> 1..Cardinality(Channels)] :
                    \A c, d \in Channels : f[c] = f[d] => c = d
    /\ running = 1..Cardinality(Channels) /\ built = Cardinality(Channels)
    /\ job = [w \in Pages |-> NoRequest]
    /\ fingerprints = <<>>
    /\ seen = <<>> /\ delivered = <<>>
    /\ fate = [m \in Msgs |-> "none"]

-----------------------------------------------------------------------------
Publish ==
    /\ next < Len(script)
    /\ next' = next + 1
    /\ outbound' = Append(outbound, script[next'])
    /\ UNCHANGED <<script, pending, sending, dispatcher, registry, fingerprints, history>>

-----------------------------------------------------------------------------
(* Coalescing *)

Merges(first, m) ==
    /\ StreamOf[m] = StreamOf[first]
    /\ Kind[m] = "delta" \/ (Kind[m] = "end" /\ TextOf[m] # NoText)

\* How many messages at the head of q are merged into the delta before them.
Merged(first, q) ==
    LET Fits(n) == /\ \A k \in 1..n : Merges(first, q[k])
                   /\ \A k \in 1..(n - 1) : Kind[q[k]] # "end"
    IN  CHOOSE n \in 0..Len(q) : Fits(n) /\ \A o \in (n + 1)..Len(q) : ~Fits(o)

HandBackToBus(rest) == outbound' = Append(Tail(rest), Head(rest)) /\ pending' = <<>>
HandBackNothing(rest) == outbound' = Tail(rest) /\ pending' = <<>>

\* The first message that does not fit was taken off the bus, which has no way to
\* put it back in front: the dispatcher keeps it and takes it next.
HandBack(rest) == outbound' = Tail(rest) /\ pending' = <<Head(rest)>>

\* The merged message and what it leaves behind; an end stops the merging.
Coalesce(first, q, parts) ==
    LET n == Merged(first, q)
        rest == SubSeq(q, n + 1, Len(q))
    IN  /\ parts = <<first>> \o SubSeq(q, 1, n)
        /\ IF rest = <<>> \/ Kind[Last(parts)] = "end"
             THEN outbound' = rest /\ pending' = <<>>
             ELSE HandBack(rest)

-----------------------------------------------------------------------------
(* Duplicate suppression *)

KeyOfChannel(m, origin) == ChannelOf[m]

\* One chat per channel: the key is the channel, its chat and the message answered.
Key(m, origin) == <<ChannelOf[m], origin>>

Remembers(cache, key, text) == [key |-> key, text |-> text] \in ToSet(cache)
Without(cache, key) ==
    IF \E p \in DOMAIN cache : cache[p].key = key
      THEN RemoveAt(cache, CHOOSE p \in DOMAIN cache : cache[p].key = key)
      ELSE cache

\* The entry moves to the end of the map; the oldest one makes room for it.
Remember(cache, key, text) ==
    LET all == Append(Without(cache, key), [key |-> key, text |-> text])
    IN  IF Len(all) > CacheSize THEN Tail(all) ELSE all

\* Only what is neither progress nor part of a stream, and says something.
Fingerprinted(m) == Kind[m] = "reply" /\ TextOf[m] # NoText

Suppressed(m) ==
    /\ Fingerprinted(m) /\ Origin[m] # NoOrigin
    /\ Remembers(fingerprints, Key(m, Origin[m]), TextOf[m])

\* The cache after m was looked up, before m is sent.
Remembered(m) ==
    LET late == IF Origin[m] = NoOrigin THEN fingerprints
                ELSE Remember(fingerprints, Key(m, Origin[m]), TextOf[m])
    IN  IF ~Fingerprinted(m) THEN fingerprints
        ELSE IF Answers[m] = NoOrigin \/ Suppressed(m) THEN late
        ELSE Remember(late, Key(m, Answers[m]), TextOf[m])

-----------------------------------------------------------------------------
(* The dispatcher *)

\* From taking a message to the first await of its sending, without a break.
Takes(first, q) ==
    \E n \in 1..(Len(q) + 1) :
        LET parts == <<first>> \o SubSeq(q, 1, n - 1) IN
        /\ IF Kind[first] = "delta" THEN Coalesce(first, q, parts)
           ELSE n = 1 /\ outbound' = q /\ pending' = <<>>
        /\ LET c == ChannelOf[first]
               skips == Kind[first] = "progress" /\ (c \notin Shown \/ live[c] = 0)
               sends == ~skips /\ live[c] # 0 /\ ~Suppressed(first)
           IN  /\ fate' = IF skips THEN Sealed(fate, parts, "hidden")
                          ELSE IF live[c] = 0 THEN Sealed(fate, parts, "unknown")
                          ELSE IF ~sends THEN Sealed(fate, parts, "suppressed")
                          ELSE fate
               /\ IF ~skips /\ live[c] # 0
                    THEN /\ fingerprints' = Remembered(first)
                         /\ seen' = IF Fingerprinted(first) THEN Append(seen, first) ELSE seen
                    ELSE UNCHANGED <<fingerprints, seen>>
               /\ IF sends THEN current' = parts /\ via' = live[c] /\ attempt' = 1
                  ELSE UNCHANGED <<current, via, attempt>>

Take ==
    /\ dispatcher = "running" /\ Idle
    /\ \/ pending # <<>> /\ Takes(Head(pending), outbound)
       \/ pending = <<>> /\ outbound # <<>> /\ Takes(Head(outbound), Tail(outbound))
    /\ UNCHANGED <<script, next, resting, dispatcher, registry, delivered>>

SendDone(f) ==
    /\ fate' = Sealed(fate, current, f)
    /\ current' = <<>> /\ via' = 0 /\ attempt' = 0

\* A channel that was stopped raises: that is its contract with the manager.
SendSucceeds ==
    /\ ~Idle /\ ~resting /\ via \in running
    /\ delivered' = current
    /\ SendDone("delivered")
    /\ UNCHANGED <<queues, resting, dispatcher, registry, fingerprints, seen>>

Exhausted == attempt >= MaxAttempts

\* The send raised, before or after the message was out; an error the channel
\* calls final, or the last attempt, gives the message up.
SendFails ==
    /\ ~Idle /\ ~resting
    /\ \/ via \in running /\ delivered' = current
       \/ UNCHANGED delivered
    /\ \/ SendDone("failed") /\ UNCHANGED resting
       \/ /\ ~Exhausted
          /\ resting' = TRUE
          /\ UNCHANGED <<current, via, attempt, fate>>
    /\ UNCHANGED <<queues, dispatcher, registry, fingerprints, seen>>

RetryUncounted ==
    /\ resting
    /\ resting' = FALSE
    /\ UNCHANGED <<queues, current, via, attempt, dispatcher, registry, fingerprints,
                   history>>

Retry ==
    /\ resting
    /\ resting' = FALSE
    /\ attempt' = attempt + 1
    /\ UNCHANGED <<queues, current, via, dispatcher, registry, fingerprints, history>>

-----------------------------------------------------------------------------
(* Channels enabled and disabled by the WebUI *)

\* A registered instance is stopped first, and stopping awaits.
Request(w, c, what) ==
    /\ dispatcher = "running" /\ job[w] = NoRequest
    /\ live[c] # 0
    /\ job' = [job EXCEPT ![w] = [do |-> what, channel |-> c]]
    /\ running' = running \ {live[c]}
    /\ UNCHANGED <<queues, sending, dispatcher, live, built, fingerprints, history>>

Register(c) ==
    /\ built < MaxInstances
    /\ built' = built + 1
    /\ live' = [live EXCEPT ![c] = built + 1]
    /\ running' = running \cup {built + 1}

EnableAnew(w, c) ==
    /\ dispatcher = "running" /\ job[w] = NoRequest
    /\ live[c] = 0
    /\ Register(c)
    /\ UNCHANGED <<queues, sending, dispatcher, job, fingerprints, history>>

\* The name is taken off the registry, whichever instance it names by now.
Finish(w) ==
    /\ job[w] # NoRequest
    /\ job' = [job EXCEPT ![w] = NoRequest]
    /\ \/ /\ job[w].do = "disable"
          /\ live' = [live EXCEPT ![job[w].channel] = 0]
          /\ UNCHANGED <<running, built>>
       \/ job[w].do = "enable" /\ Register(job[w].channel)
    /\ UNCHANGED <<queues, sending, dispatcher, fingerprints, history>>

\* stop_all: the dispatcher is cancelled with what it holds, then the channels.
StopAll ==
    /\ dispatcher = "running"
    /\ dispatcher' = "stopped"
    /\ fate' = Sealed(fate, current \o pending, "lost")
    /\ current' = <<>> /\ via' = 0 /\ attempt' = 0 /\ resting' = FALSE
    /\ pending' = <<>>
    /\ running' = running \ {live[c] : c \in Channels}
    /\ job' = [w \in Pages |-> NoRequest]
    /\ UNCHANGED <<script, next, outbound, live, built, fingerprints, seen, delivered>>

-----------------------------------------------------------------------------
PageStep ==
    \E w \in Pages :
        \/ \E c \in Channels : \/ Request(w, c, "disable") \/ Request(w, c, "enable")
                               \/ EnableAnew(w, c)
        \/ Finish(w)

Next ==
    \/ Publish \/ Take \/ SendSucceeds \/ SendFails \/ Retry
    \/ PageStep \/ StopAll

Spec == Init /\ [][Next]_vars

\* The event loop: a message that is there is taken, a send returns or raises,
\* a sleep ends.
Fairness == WF_vars(Take) /\ WF_vars(SendSucceeds \/ SendFails) /\ WF_vars(Retry)
FairSpec == Spec /\ Fairness

-----------------------------------------------------------------------------
(* Properties *)

Place(m) == CHOOSE k \in DOMAIN script : script[k] = m

\* What reaches the channels reaches them in the order in which it was published:
\* neither the merging of deltas, nor the message handed back, nor a retry lets a
\* message overtake another; only a retried one repeats.
InOrder ==
    [][delivered' # delivered =>
          \A m \in ToSet(delivered), n \in ToSet(delivered') : Place(m) < Place(n)]_vars

\* A published message is in one place, or has met its fate: coalescing neither
\* drops nor doubles what it takes off the bus.
Accounted ==
    LET waiting == outbound \o pending \o current IN
    /\ IsInjective(waiting)
    /\ ToSet(waiting) = {m \in ToSet(SubSeq(script, 1, next)) : fate[m] = "none"}

\* The messages under which m was noted when it was dispatched; a late answer that
\* was suppressed is not noted under the message it answers itself.
Origins(m) ==
    IF fate[m] = "suppressed" THEN {Origin[m]} ELSE {Origin[m], Answers[m]}

\* A reply is suppressed only when the last one dispatched to its origin
\* said the same, whether or not that one got through its retries:
\* the same words in another turn, or after other words, are delivered.
SuppressedRepeats ==
    \A j \in DOMAIN seen : fate[seen[j]] = "suppressed" =>
        \E i \in 1..(j - 1) :
            /\ ChannelOf[seen[i]] = ChannelOf[seen[j]]
            /\ Origin[seen[j]] \in Origins(seen[i])
            /\ TextOf[seen[i]] = TextOf[seen[j]]
            /\ \A k \in (i + 1)..(j - 1) :
                  \/ ChannelOf[seen[k]] # ChannelOf[seen[j]]
                  \/ Origin[seen[j]] \notin Origins(seen[k])
                  \/ TextOf[seen[k]] = TextOf[seen[j]]

\* Every message on the bus is delivered or given up for a reason, however one
\* channel fails and whichever is replaced meanwhile, until the manager is stopped.
\* A script is finite, so that it is all published from some time on.
Settled ==
    []<>(dispatcher = "stopped" \/ \A k \in 1..next : fate[script[k]] # "none")
=============================================================================
