----------------------- MODULE CredentialStore_proofs -----------------------
(***************************************************************************)
(* Theorems about CredentialStore, for any relays, address lists and       *)
(* numbers of tokens, lane passes, queued operations and restarts: a token *)
(* stays beside the relay that issued it (TokenOfOrigin), the opener dials *)
(* with what the store holds (OpenerFollowsStore), a file that differs     *)
(* from the live credential is owed or reported (DivergenceKnown), a late  *)
(* answer replaces nothing it was not computed from (NoLostUpdate), and    *)
(* the saved addresses stay few (EndpointsStayBounded).                    *)
(*                                                                         *)
(* The merged address list is a fold over two lists.  What holds of it is  *)
(* shown by induction on the index, for which a set of numbers stands in   *)
(* for the predicate (Induction, FoldKeeps).                               *)
(***************************************************************************)
EXTENDS CredentialStore, WellFoundedInduction, TLAPS

-----------------------------------------------------------------------------
(* The shapes of what is kept *)

Attempts == [id : Nat, rev : Nat, origin : Origins \cup {None}, token : Tokens \cup {None}]

RefreshOps == [kind : {"refresh"}, gen : Nat, token : Tokens]
ReadyOps == [kind : {"ready"}, lane : {"publish"}, att : Attempts, origin : Origins, token : Tokens]
DisableOps == [kind : {"disable"}, lane : {"publish"}, att : Attempts]
DialOps == [kind : {"dial"}, lane : {"addr"}, ep : Listings]
FlushOps == [kind : {"flush"}, lane : {"flush", "close"}]
Ops == RefreshOps \cup ReadyOps \cup DisableOps \cup DialOps \cup FlushOps

\* A credential, whatever its addresses.
Shape(c) == c \in [origin : Origins \cup {None}, token : Tokens \cup {None}, ep : {c.ep}]

ShapeInv ==
    /\ Shape(live) /\ Shape(disk) /\ Shape(opener.cred)
    /\ opener \in [inc : {opener.inc}, retired : BOOLEAN, mode : {"transport", "disabled"},
                   cred : {opener.cred}, rev : Nat]
    /\ gen \in Nat /\ attempt \in Nat /\ minted \in 1..MaxTokens /\ restarts \in Nat
    /\ shutdown \in BOOLEAN /\ issue \in {None, "Failed", "Uncertain"}
    /\ queue \in Seq(Ops)
    /\ job.ph = "get" => job.att \in Attempts
    /\ hooks \subseteq [gen : Nat, origin : Origins]
    /\ running = Free \/
         /\ running \in [op : Ops, cred : {running.cred}, base : {running.base},
                         ph : {"install", "write", "finish"}, wrote : BOOLEAN, ok : BOOLEAN]
         /\ Shape(running.cred)

\* A token of a relay.
Matched(c) == c.token # None => c.origin = c.token.origin

\* What a refresh of generation g brings belongs to the relay of that generation.
OfGeneration(g, o) == g <= gen /\ (g = gen => o = live.origin)

OpSound(op) ==
    /\ op.kind = "refresh" => OfGeneration(op.gen, op.token.origin)
    /\ op.kind = "ready" => op.token.origin = op.origin

TokenInv ==
    /\ Matched(live) /\ Matched(disk) /\ Matched(opener.cred)
    /\ running # Free => Matched(running.cred)
    /\ \A h \in hooks : OfGeneration(h.gen, h.origin)
    /\ \A i \in DOMAIN queue : OpSound(queue[i])

\* The claimed operation is the head of the chain, and no other has touched the live
\* credential since.
ClaimInv ==
    running # Free =>
        /\ queue # <<>> /\ running.op = Head(queue)
        /\ running.ph = "install" => running.op.kind = "disable"
        /\ running.op.kind \in {"refresh", "disable", "flush"} => running.cred = live
        /\ running.op.kind \in {"ready", "dial"} => running.base = live
        /\ running.op.kind = "dial" => Relay(running.cred) = Relay(live)
        /\ running.op.kind = "disable" => live.origin = None
        /\ running.op.kind = "ready" =>
              /\ running.cred.ep = live.ep
              /\ running.op.att.rev = gen
              /\ Relay(live) = [origin |-> running.op.att.origin, token |-> running.op.att.token]
        /\ running.ok => disk = running.cred /\ running.ph = "finish"

\* The opener, unless a disable is about to replace it.
FollowInv ==
    opener.retired = FALSE /\ ~(running # Free /\ running.ph = "install") =>
        /\ opener.rev = gen
        /\ opener.cred.origin = live.origin
        /\ opener.cred.ep = live.ep
        /\ opener.mode = "transport" \/ live.origin = None

\* The store still owes the write, and its last flush is still to come.
Owed == (pending = gen \/ clear = gen) /\ ~ (session = "closed" \/ (session = "closing" /\ Done("close")))

DebtInv ==
    /\ shutdown = (session # "open")
    /\ running = Free \/ running.op.kind \in {"dial", "flush"} =>
          Relay(disk) = Relay(live) \/ issue # None \/ Owed
    /\ running # Free /\ running.op.kind = "disable" /\ running.ph = "install" => clear = gen
    /\ running # Free /\ running.op.kind # "flush" /\ session # "open" =>
          session = "closing" /\ ~ Done("close")

StoreInv == ShapeInv /\ TokenInv /\ ClaimInv /\ FollowInv /\ DebtInv

-----------------------------------------------------------------------------
(* The operations of the chain *)

\* The operations that are put into the chain.
LEMMA OpsMade ==
    /\ \A g \in Nat, t \in Tokens : [kind |-> "refresh", gen |-> g, token |-> t] \in Ops
    /\ \A a \in Attempts, o \in Origins, t \in Tokens :
          [kind |-> "ready", lane |-> "publish", att |-> a, origin |-> o, token |-> t] \in Ops
    /\ \A a \in Attempts : [kind |-> "disable", lane |-> "publish", att |-> a] \in Ops
    /\ \A l \in Listings : [kind |-> "dial", lane |-> "addr", ep |-> l] \in Ops
    /\ [kind |-> "flush", lane |-> "flush"] \in Ops
    /\ [kind |-> "flush", lane |-> "close"] \in Ops
  BY DEF Ops, RefreshOps, ReadyOps, DisableOps, DialOps, FlushOps

\* What is in an operation.
LEMMA OpsTyped ==
    ASSUME NEW op \in Ops
    PROVE  /\ op.kind \in {"refresh", "ready", "disable", "dial", "flush"}
           /\ op.kind = "refresh" => op.gen \in Nat /\ op.token \in Tokens
           /\ op.kind = "ready" =>
                 op.att \in Attempts /\ op.origin \in Origins /\ op.token \in Tokens
           /\ op.kind = "disable" => op.att \in Attempts
           /\ op.kind = "dial" => op.ep \in Listings
  BY DEF Ops, RefreshOps, ReadyOps, DisableOps, DialOps, FlushOps

\* Only the flush of a shutdown is waited for by the shutdown.
LEMMA CloseIsFlush ==
    /\ \A op \in Ops : OfLane(op, "close") => op.kind = "flush"
    /\ OfLane([kind |-> "flush", lane |-> "close"], "close")
  <1>1. ASSUME NEW op \in RefreshOps PROVE ~ OfLane(op, "close")
    <2>1. op = [kind |-> op.kind, gen |-> op.gen, token |-> op.token]
      BY DEF RefreshOps
    <2>2. DOMAIN op = {"kind", "gen", "token"}
      BY <2>1
    <2>. QED BY <2>2 DEF OfLane
  <1>2. ASSUME NEW op \in ReadyOps \cup DisableOps \cup DialOps PROVE ~ OfLane(op, "close")
    BY DEF OfLane, ReadyOps, DisableOps, DialOps
  <1>3. ASSUME NEW op \in FlushOps PROVE op.kind = "flush"
    BY DEF FlushOps
  <1>4. OfLane([kind |-> "flush", lane |-> "close"], "close")
    BY DEF OfLane
  <1>. QED BY <1>1, <1>2, <1>3, <1>4 DEF Ops

\* The chain, when its head leaves it and when an operation joins it.
LEMMA ChainMoves ==
    ASSUME queue \in Seq(Ops)
    PROVE  /\ queue # <<>> => /\ Tail(queue) \in Seq(Ops) /\ Head(queue) \in Ops
                              /\ Head(queue) = queue[1] /\ 1 \in DOMAIN queue
                              /\ \A i \in DOMAIN Tail(queue) :
                                     i + 1 \in DOMAIN queue /\ Tail(queue)[i] = queue[i + 1]
                              /\ \A i \in DOMAIN queue :
                                     i = 1 \/ (i - 1 \in DOMAIN Tail(queue)
                                               /\ Tail(queue)[i - 1] = queue[i])
           /\ \A op \in Ops :
                 /\ Append(queue, op) \in Seq(Ops) /\ Append(queue, op) # <<>>
                 /\ queue # <<>> => Head(Append(queue, op)) = Head(queue)
                 /\ \A i \in DOMAIN Append(queue, op) :
                        (i \in DOMAIN queue /\ Append(queue, op)[i] = queue[i])
                           \/ Append(queue, op)[i] = op
                 /\ \A i \in DOMAIN queue :
                        i \in DOMAIN Append(queue, op) /\ Append(queue, op)[i] = queue[i]
                 /\ \E i \in DOMAIN Append(queue, op) : Append(queue, op)[i] = op
  <1>1. ASSUME queue # <<>>
        PROVE  /\ Tail(queue) \in Seq(Ops) /\ Head(queue) \in Ops
               /\ Head(queue) = queue[1] /\ 1 \in DOMAIN queue
    BY <1>1
  <1>2. ASSUME queue # <<>>
        PROVE  /\ \A i \in DOMAIN Tail(queue) :
                      i + 1 \in DOMAIN queue /\ Tail(queue)[i] = queue[i + 1]
               /\ \A i \in DOMAIN queue :
                      i = 1 \/ (i - 1 \in DOMAIN Tail(queue) /\ Tail(queue)[i - 1] = queue[i])
    BY <1>2
  <1>3. ASSUME NEW op \in Ops
        PROVE  /\ Append(queue, op) \in Seq(Ops) /\ Append(queue, op) # <<>>
               /\ queue # <<>> => Head(Append(queue, op)) = Head(queue)
    <2>1. /\ Append(queue, op) \in Seq(Ops) /\ Len(queue) \in Nat
          /\ Len(Append(queue, op)) = Len(queue) + 1
          /\ \A i \in 1..Len(queue) : Append(queue, op)[i] = queue[i]
      BY <1>3
    <2>2. Append(queue, op) # <<>>
      BY <2>1
    <2>3. queue # <<>> => 1 \in 1..Len(queue)
      OBVIOUS
    <2>4. queue # <<>> => Head(queue) = queue[1]
      OBVIOUS
    <2>5. Head(Append(queue, op)) = Append(queue, op)[1]
      BY <2>1, <2>2
    <2>. QED BY <2>1, <2>2, <2>3, <2>4, <2>5
  <1>4. ASSUME NEW op \in Ops
        PROVE  /\ \A i \in DOMAIN Append(queue, op) :
                      (i \in DOMAIN queue /\ Append(queue, op)[i] = queue[i])
                         \/ Append(queue, op)[i] = op
               /\ \A i \in DOMAIN queue :
                      i \in DOMAIN Append(queue, op) /\ Append(queue, op)[i] = queue[i]
               /\ \E i \in DOMAIN Append(queue, op) : Append(queue, op)[i] = op
    <2>1. /\ Len(queue) \in Nat /\ DOMAIN queue = 1..Len(queue)
          /\ DOMAIN Append(queue, op) = 1..(Len(queue) + 1)
          /\ Append(queue, op)[Len(queue) + 1] = op
          /\ \A i \in 1..Len(queue) : Append(queue, op)[i] = queue[i]
      BY <1>4
    <2>. QED BY <2>1
  <1>. QED BY <1>1, <1>2, <1>3, <1>4

\* The head leaves the chain: the shutdown's flush stays unless it was the head.
LEMMA Leaves ==
    ASSUME queue \in Seq(Ops), queue # <<>>, queue' = Tail(queue)
    PROVE  /\ queue' \in Seq(Ops)
           /\ \A i \in DOMAIN queue' : \E j \in DOMAIN queue : queue'[i] = queue[j]
           /\ Head(queue).kind # "flush" /\ Done("close")' => Done("close")
  <1>1. Head(queue).kind # "flush" => ~ OfLane(queue[1], "close")
    BY ChainMoves, CloseIsFlush
  <1>2. ASSUME Head(queue).kind # "flush", Done("close")', NEW i \in DOMAIN queue
        PROVE  ~ OfLane(queue[i], "close")
    <2>1. CASE i = 1
      BY <1>1, <1>2, <2>1
    <2>2. CASE i # 1
      <3>1. i - 1 \in DOMAIN queue' /\ queue'[i - 1] = queue[i]
        BY <2>2, ChainMoves
      <3>. QED BY <1>2, <3>1 DEF Done
    <2>. QED BY <2>1, <2>2
  <1>. QED BY <1>2, ChainMoves DEF Done

\* An operation joins the chain at its end.
LEMMA Joins ==
    ASSUME queue \in Seq(Ops), NEW op \in Ops, queue' = Append(queue, op)
    PROVE  /\ queue' \in Seq(Ops) /\ queue' # <<>>
           /\ queue # <<>> => Head(queue') = Head(queue)
           /\ \A i \in DOMAIN queue' :
                 queue'[i] = op \/ \E j \in DOMAIN queue : queue'[i] = queue[j]
           /\ Done("close")' => Done("close")
           /\ op = [kind |-> "flush", lane |-> "close"] => ~ Done("close")'
  <1>1. Done("close")' => Done("close")
    BY ChainMoves DEF Done
  <1>2. op = [kind |-> "flush", lane |-> "close"] => ~ Done("close")'
    BY ChainMoves, CloseIsFlush DEF Done
  <1>. QED BY <1>1, <1>2, ChainMoves

-----------------------------------------------------------------------------
(* Steps that leave the credentials alone *)

\* The chain as it is, or with a sound operation joined.
Joined == queue' = queue \/ \E op \in Ops : OpSound(op) /\ queue' = Append(queue, op)

\* The session goes on, is shut down with its flush in the chain, or closes behind it.
SessionMoves ==
    \/ UNCHANGED <<session, shutdown>>
    \/ /\ session = "open" /\ session' = "closing" /\ shutdown' = TRUE
       /\ queue' = Append(queue, [kind |-> "flush", lane |-> "close"])
    \/ /\ session = "closing" /\ Done("close") /\ session' = "closed" /\ queue' = queue
       /\ shutdown' = shutdown

\* What the lane, the hooks and the session do between the steps of the chain.
LEMMA Beside ==
    ASSUME StoreInv, UNCHANGED <<live, gen, pending, clear, issue, disk, hooks, running>>,
           restarts' = restarts, opener' = opener \/ opener' = Retired(opener),
           attempt' \in Nat, minted' \in 1..MaxTokens,
           job'.ph = "get" => job'.att \in Attempts, Joined, SessionMoves
    PROVE  StoreInv'
  <1>0. ShapeInv /\ TokenInv /\ ClaimInv /\ FollowInv /\ DebtInv /\ queue \in Seq(Ops)
    BY DEF StoreInv, ShapeInv
  <1>1. /\ queue' \in Seq(Ops) /\ (queue # <<>> => queue' # <<>> /\ Head(queue') = Head(queue))
        /\ \A i \in DOMAIN queue' : OpSound(queue'[i])
        /\ Done("close")' => Done("close")
    <2>1. CASE queue' = queue
      BY <1>0, <2>1 DEF TokenInv, Done
    <2>2. ASSUME NEW op \in Ops, OpSound(op), queue' = Append(queue, op)
          PROVE  /\ queue' \in Seq(Ops) /\ (queue # <<>> => queue' # <<>> /\ Head(queue') = Head(queue))
                 /\ \A i \in DOMAIN queue' : OpSound(queue'[i])
                 /\ Done("close")' => Done("close")
      BY <1>0, <2>2, Joins DEF TokenInv
    <2>. QED BY <2>1, <2>2 DEF Joined
  <1>2. opener'.cred = opener.cred /\ opener'.rev = opener.rev /\ opener'.mode = opener.mode
    BY <1>0 DEF ShapeInv, Retired
  <1>3. ShapeInv'
    <2>1. opener' \in [inc : {opener'.inc}, retired : BOOLEAN, mode : {"transport", "disabled"},
                       cred : {opener'.cred}, rev : Nat]
      BY <1>0 DEF ShapeInv, Retired
    <2>2. shutdown' \in BOOLEAN
      BY <1>0 DEF ShapeInv, SessionMoves
    <2>. QED BY <1>0, <1>1, <1>2, <2>1, <2>2 DEF ShapeInv, Shape
  <1>4. TokenInv'
    BY <1>0, <1>1, <1>2 DEF TokenInv, Matched, OpSound, OfGeneration
  <1>5. ClaimInv'
    BY <1>0, <1>1 DEF ClaimInv
  <1>6. FollowInv'
    BY <1>0, <1>2 DEF FollowInv, ShapeInv, Retired
  <1>7. DebtInv'
    <2>1. shutdown' = (session' # "open")
      BY <1>0 DEF DebtInv, SessionMoves
    <2>2. \/ UNCHANGED session
          \/ session = "open" /\ session' = "closing" /\ ~ Done("close")'
          \/ session = "closing" /\ Done("close") /\ session' = "closed"
      BY <1>0, Joins, OpsMade DEF SessionMoves
    <2>3. Owed => Owed'
      BY <1>1, <2>2 DEF Owed
    <2>4. session' # "open" /\ ~ (session' = "closing" /\ ~ Done("close")')
            => session # "open" /\ ~ (session = "closing" /\ ~ Done("close"))
      BY <1>1, <2>2
    <2>. QED BY <1>0, <2>1, <2>3, <2>4 DEF DebtInv, Relay
  <1>. QED BY <1>3, <1>4, <1>5, <1>6, <1>7 DEF StoreInv

\* The steps of the access lane, of the hooks and of the session's end.
LEMMA BesideSteps ==
    ASSUME StoreInv,
           Lane \/ (\E h \in hooks : TokenHook(h)) \/ SessionShutdown \/ SessionClosed
    PROVE  StoreInv'
  <1>0. /\ ShapeInv /\ gen \in Nat /\ attempt \in Nat /\ minted \in 1..MaxTokens /\ Shape(live)
        /\ (job.ph = "get" => job.att \in Attempts)
    BY DEF StoreInv, ShapeInv
  <1>. USE BoundsAssumption DEF store, LaneTo, Idle
  <1>1. \A op \in Ops : op.kind \notin {"refresh", "ready"} => OpSound(op)
    BY DEF OpSound
  <1>2. CASE SpawnLane \/ RelayJobEnd \/ DeadlinePasses \/ RelayJobTimeout \/ AddressJobEnd
    <2>1. /\ UNCHANGED <<live, gen, pending, clear, issue, disk, hooks, running, restarts,
                         opener, attempt, minted, queue, session, shutdown>>
          /\ job'.ph = "get" => job' = job
      BY <1>2 DEF SpawnLane, RelayJobEnd, DeadlinePasses, RelayJobTimeout, AddressJobEnd
    <2>. QED BY <1>0, <2>1, Beside DEF Joined, SessionMoves
  <1>3. CASE RelayJobStart
    <2>1. /\ UNCHANGED <<live, gen, pending, clear, issue, disk, hooks, running, restarts,
                         opener, attempt, minted, session, shutdown>>
          /\ job'.ph # "get" /\ queue' = Append(queue, [kind |-> "flush", lane |-> "flush"])
      BY <1>3 DEF RelayJobStart, Enqueue
    <2>2. Joined
      BY <2>1, <1>1, OpsMade DEF Joined
    <2>. QED BY <1>0, <2>1, <2>2, Beside DEF SessionMoves
  <1>4. CASE CaptureAccessAttempt
    <2>1. /\ UNCHANGED <<live, gen, pending, clear, issue, disk, hooks, running, restarts,
                         opener, minted, queue, session, shutdown>>
          /\ attempt' = attempt + 1
          /\ job' = [ph |-> "get", att |-> [id |-> attempt + 1, rev |-> gen,
                                            origin |-> live.origin, token |-> live.token]]
      BY <1>4 DEF CaptureAccessAttempt
    <2>2. job'.att \in Attempts
      BY <1>0, <2>1 DEF Attempts, Shape
    <2>3. attempt' \in Nat
      BY <1>0, <2>1
    <2>. QED BY <1>0, <2>1, <2>2, <2>3, Beside DEF Joined, SessionMoves
  <1>5. ASSUME NEW o \in Origins, AnswerReady(o) PROVE StoreInv'
    <2>1. /\ UNCHANGED <<live, gen, pending, clear, issue, disk, hooks, running, restarts,
                         opener, attempt, session, shutdown>>
          /\ job.ph = "get" /\ job'.ph # "get"
          /\ \/ /\ minted < MaxTokens /\ minted' = minted + 1
                /\ queue' = Append(queue, [kind |-> "ready", lane |-> "publish", att |-> job.att,
                                origin |-> o, token |-> [origin |-> o, n |-> minted + 1]])
             \/ minted' = minted /\ queue' = queue
      BY <1>5 DEF AnswerReady, Enqueue
    <2>2. minted' \in 1..MaxTokens
      BY <1>0, <2>1
    <2>3. Joined
      <3>. DEFINE t == [origin |-> o, n |-> minted + 1]
                  op == [kind |-> "ready", lane |-> "publish", att |-> job.att, origin |-> o,
                         token |-> t]
      <3>1. minted < MaxTokens => t \in Tokens
        BY <1>0 DEF Tokens
      <3>2. t.origin = o
        OBVIOUS
      <3>. HIDE DEF t
      <3>3. minted < MaxTokens => op \in Ops
        BY <1>0, <2>1, <3>1, OpsMade
      <3>4. OpSound(op)
        BY <3>2 DEF OpSound
      <3>. QED BY <2>1, <3>3, <3>4 DEF Joined, t
    <2>. QED BY <1>0, <2>1, <2>2, <2>3, Beside DEF SessionMoves
  <1>6. CASE AnswerNotConfigured
    <2>1. /\ UNCHANGED <<live, gen, pending, clear, issue, disk, hooks, running, restarts,
                         opener, attempt, minted, session, shutdown>>
          /\ job.ph = "get" /\ job'.ph # "get"
          /\ queue' = Append(queue, [kind |-> "disable", lane |-> "publish", att |-> job.att])
      BY <1>6 DEF AnswerNotConfigured, Enqueue
    <2>2. Joined
      BY <1>0, <2>1, <1>1, OpsMade DEF Joined
    <2>. QED BY <1>0, <2>1, <2>2, Beside DEF SessionMoves
  <1>7. ASSUME NEW l \in Listings, AnswerAddresses(l) PROVE StoreInv'
    <2>1. /\ UNCHANGED <<live, gen, pending, clear, issue, disk, hooks, running, restarts,
                         opener, attempt, minted, session, shutdown>>
          /\ job'.ph # "get"
          /\ queue' = Append(queue, [kind |-> "dial", lane |-> "addr", ep |-> l])
      BY <1>7 DEF AnswerAddresses, Enqueue
    <2>2. Joined
      BY <2>1, <1>1, OpsMade DEF Joined
    <2>. QED BY <1>0, <2>1, <2>2, Beside DEF SessionMoves
  <1>8. ASSUME NEW h \in hooks, TokenHook(h) PROVE StoreInv'
    <2>. DEFINE t == [origin |-> h.origin, n |-> minted + 1]
    <2>1. /\ UNCHANGED <<live, gen, pending, clear, issue, disk, hooks, running, restarts,
                         opener, attempt, session, shutdown, job>>
          /\ minted < MaxTokens /\ minted' = minted + 1
          /\ queue' = Append(queue, [kind |-> "refresh", gen |-> h.gen, token |-> t])
      BY <1>8 DEF TokenHook
    <2>2. h.gen \in Nat /\ h.origin \in Origins /\ OfGeneration(h.gen, h.origin)
      BY <1>0 DEF ShapeInv, StoreInv, TokenInv
    <2>3. t \in Tokens /\ t.origin = h.origin
      BY <1>0, <2>1, <2>2 DEF Tokens
    <2>4. minted' \in 1..MaxTokens
      BY <1>0, <2>1
    <2>5. Joined
      <3>. HIDE DEF t
      <3>1. [kind |-> "refresh", gen |-> h.gen, token |-> t] \in Ops
        BY <2>2, <2>3, OpsMade
      <3>2. OpSound([kind |-> "refresh", gen |-> h.gen, token |-> t])
        BY <2>2, <2>3 DEF OpSound
      <3>. QED BY <2>1, <3>1, <3>2 DEF Joined
    <2>. QED BY <1>0, <2>1, <2>4, <2>5, Beside DEF SessionMoves
  <1>9. CASE SessionShutdown
    <2>1. /\ UNCHANGED <<live, gen, pending, clear, issue, disk, hooks, running, restarts,
                         attempt, minted, job>>
          /\ opener' = Retired(opener) /\ shutdown' = TRUE
          /\ session = "open" /\ session' = "closing"
          /\ queue' = Append(queue, [kind |-> "flush", lane |-> "close"])
      BY <1>9 DEF SessionShutdown, Enqueue
    <2>2. Joined
      BY <2>1, <1>1, OpsMade DEF Joined
    <2>. QED BY <1>0, <2>1, <2>2, Beside DEF SessionMoves
  <1>10. CASE SessionClosed
    BY <1>0, <1>10, Beside DEF SessionClosed, Joined, SessionMoves
  <1>. QED BY <1>2, <1>3, <1>4, <1>5, <1>6, <1>7, <1>8, <1>9, <1>10 DEF Lane

-----------------------------------------------------------------------------
(* Claims *)

\* The head of the chain is claimed by its kind.
LEMMA ClaimsByKind ==
    ASSUME ClaimHead, NEW op \in Ops, op = Head(queue)
    PROVE  \/ op.kind = "refresh" /\ ClaimRefresh(op)
           \/ op.kind = "ready" /\ ClaimReady(op)
           \/ op.kind = "dial" /\ ClaimDial(op)
           \/ op.kind = "disable" /\ ClaimDisable(op)
           \/ op.kind = "flush" /\ ClaimFlush(op)
  <1>1. op.kind \in {"refresh", "ready", "disable", "dial", "flush"}
    BY OpsTyped
  <1>2. CASE op.kind = "refresh"
    BY <1>2 DEF ClaimHead
  <1>3. CASE op.kind = "ready"
    BY <1>3 DEF ClaimHead
  <1>4. CASE op.kind = "dial"
    BY <1>4 DEF ClaimHead
  <1>5. CASE op.kind = "disable"
    BY <1>5 DEF ClaimHead
  <1>6. CASE op.kind = "flush"
    BY <1>6 DEF ClaimHead
  <1>. QED BY <1>1, <1>2, <1>3, <1>4, <1>5, <1>6

\* An operation without effect leaves the chain: what is owed stays owed, unless it was
\* a flush that found nothing to do.
LEMMA DropStep ==
    ASSUME StoreInv, running = Free, queue # <<>>, Drop,
           Head(queue).kind = "flush" => ~ HasPending
    PROVE  StoreInv'
  <1>0. ShapeInv /\ TokenInv /\ ClaimInv /\ FollowInv /\ DebtInv /\ queue \in Seq(Ops)
    BY DEF StoreInv, ShapeInv
  <1>1. /\ UNCHANGED <<live, gen, pending, clear, shutdown, attempt, issue, disk, opener, hooks,
                       running, job, session, minted, restarts>>
        /\ queue' = Tail(queue)
    BY DEF Drop, store
  <1>2. /\ queue' \in Seq(Ops)
        /\ \A i \in DOMAIN queue' : \E j \in DOMAIN queue : queue'[i] = queue[j]
        /\ Head(queue).kind # "flush" /\ Done("close")' => Done("close")
    BY <1>0, <1>1, Leaves
  <1>3. ShapeInv'
    BY <1>0, <1>1, <1>2 DEF ShapeInv, Shape
  <1>4. TokenInv'
    <2>1. \A i \in DOMAIN queue' : OpSound(queue'[i])
      BY <1>0, <1>2 DEF TokenInv
    <2>. QED BY <1>0, <1>1, <2>1 DEF TokenInv, Matched, OpSound, OfGeneration
  <1>5. ClaimInv' /\ FollowInv'
    BY <1>0, <1>1 DEF ClaimInv, FollowInv
  <1>6. Owed => Owed'
    BY <1>1, <1>2 DEF Owed, HasPending
  <1>7. DebtInv'
    BY <1>0, <1>1, <1>6 DEF DebtInv, Relay
  <1>. QED BY <1>3, <1>4, <1>5, <1>7 DEF StoreInv

\* An operation is claimed, for a credential of the right shape.
LEMMA ClaimShape ==
    ASSUME ShapeInv, NEW op \in Ops, NEW c, Shape(c), NEW b, NEW ph \in {"install", "write"},
           running' = [op |-> op, cred |-> c, base |-> b, ph |-> ph, wrote |-> FALSE, ok |-> FALSE]
    PROVE  /\ running' # Free /\ running'.op = op /\ running'.cred = c /\ running'.base = b
           /\ running'.ph = ph /\ running'.ok = FALSE
           /\ running' \in [op : Ops, cred : {running'.cred}, base : {running'.base},
                            ph : {"install", "write", "finish"}, wrote : BOOLEAN, ok : BOOLEAN]
  <1>1. running'.ph = ph /\ Free.ph = "none" /\ ph # "none"
    BY DEF Free
  <1>. QED BY <1>1

\* A claim that leaves the live credential as it is until the write is done.
LEMMA ClaimBeside ==
    ASSUME StoreInv, running = Free, queue # <<>>, NEW op \in Ops, op = Head(queue),
           NEW c, Shape(c), Matched(c), Claim(op, c),
           UNCHANGED <<store, disk, opener, hooks, queue, job, session, minted, restarts>>,
           op.kind \in {"ready", "dial", "flush"}, op.kind # "flush" => shutdown = FALSE,
           op.kind = "flush" => c = live, op.kind = "dial" => Relay(c) = Relay(live),
           op.kind = "ready" =>
               /\ c.ep = live.ep /\ op.att.rev = gen
               /\ Relay(live) = [origin |-> op.att.origin, token |-> op.att.token]
    PROVE  StoreInv'
  <1>0. ShapeInv /\ TokenInv /\ FollowInv /\ DebtInv
    BY DEF StoreInv
  <1>1. /\ running' # Free /\ running'.op = op /\ running'.cred = c /\ running'.base = live
        /\ running'.ph = "write" /\ running'.ok = FALSE
        /\ running' \in [op : Ops, cred : {running'.cred}, base : {running'.base},
                         ph : {"install", "write", "finish"}, wrote : BOOLEAN, ok : BOOLEAN]
    BY <1>0, ClaimShape DEF Claim
  <1>2. UNCHANGED <<live, gen, pending, clear, shutdown, attempt, issue>>
    BY DEF store
  <1>3. ShapeInv'
    BY <1>0, <1>1, <1>2 DEF ShapeInv, Shape
  <1>4. TokenInv'
    BY <1>0, <1>1, <1>2 DEF TokenInv, Matched, OpSound, OfGeneration
  <1>5. ClaimInv'
    BY <1>1, <1>2 DEF ClaimInv, Relay
  <1>6. FollowInv'
    BY <1>0, <1>1, <1>2 DEF FollowInv
  <1>7. DebtInv'
    BY <1>0, <1>1, <1>2 DEF DebtInv, Relay, Owed, Done
  <1>. QED BY <1>3, <1>4, <1>5, <1>6, <1>7 DEF StoreInv

\* Each operation, when it is claimed, either has lost its point and is dropped, or
\* changes the live credential from the one it was accepted for.
LEMMA ClaimStep == StoreInv /\ ClaimHead => StoreInv'
  <1>. SUFFICES ASSUME StoreInv, ClaimHead PROVE StoreInv'
    OBVIOUS
  <1>. DEFINE op == Head(queue)
  <1>0. ShapeInv /\ TokenInv /\ ClaimInv /\ FollowInv /\ DebtInv /\ queue \in Seq(Ops)
    BY DEF StoreInv, ShapeInv
  <1>1. running = Free /\ queue # <<>>
    BY DEF ClaimHead
  <1>2. op \in Ops /\ OpSound(op)
    BY <1>0, <1>1, ChainMoves DEF TokenInv
  <1>3. \/ op.kind = "refresh" /\ ClaimRefresh(op)
        \/ op.kind = "ready" /\ ClaimReady(op)
        \/ op.kind = "dial" /\ ClaimDial(op)
        \/ op.kind = "disable" /\ ClaimDisable(op)
        \/ op.kind = "flush" /\ ClaimFlush(op)
    BY <1>2, ClaimsByKind
  <1>4. op = Head(queue)
    OBVIOUS
  <1>5. Drop /\ (op.kind = "flush" => ~ HasPending) => StoreInv'
    BY <1>1, DropStep
  <1>. HIDE DEF op
  <1>6. Shape(live) /\ Matched(live) /\ live = [origin |-> live.origin, token |-> live.token, ep |-> live.ep]
    BY <1>0 DEF ShapeInv, Shape, TokenInv
  <1>7. CASE op.kind = "refresh" /\ ClaimRefresh(op)
    <2>1. CASE Drop
      BY <1>5, <1>7, <2>1
    <2>2. CASE ~ Drop
      <3>. DEFINE c == [live EXCEPT !.token = op.token]
      <3>1. /\ live' = c /\ pending' = gen
            /\ running' = [op |-> op, cred |-> c, base |-> live, ph |-> "write",
                           wrote |-> FALSE, ok |-> FALSE]
            /\ UNCHANGED <<gen, clear, shutdown, attempt, issue, disk, opener, hooks, queue, job,
                           session, minted, restarts>>
            /\ shutdown = FALSE /\ op.gen = gen
        BY <1>0, <1>7, <2>2 DEF ClaimRefresh, Claim, RefreshIsCurrent, ShapeInv
      <3>2. op.token \in Tokens /\ op.token.origin = live.origin
        BY <1>2, <1>7, <3>1, OpsTyped DEF OpSound, OfGeneration
      <3>3. c.origin = live.origin /\ c.ep = live.ep /\ c.token = op.token /\ Shape(c)
        BY <1>6, <3>2 DEF Shape
      <3>4. Matched(c)
        BY <3>2, <3>3 DEF Matched
      <3>. HIDE DEF c
      <3>5. /\ running' # Free /\ running'.op = op /\ running'.cred = c
            /\ running'.ph = "write" /\ running'.ok = FALSE
            /\ running' \in [op : Ops, cred : {running'.cred}, base : {running'.base},
                             ph : {"install", "write", "finish"}, wrote : BOOLEAN, ok : BOOLEAN]
        BY <1>0, <1>2, <3>1, <3>3, ClaimShape
      <3>6. ShapeInv'
        BY <1>0, <3>1, <3>3, <3>5 DEF ShapeInv, Shape
      <3>7. TokenInv'
        BY <1>0, <3>1, <3>3, <3>4, <3>5 DEF TokenInv, Matched, OpSound, OfGeneration
      <3>8. ClaimInv'
        BY <1>1, <1>4, <1>7, <3>1, <3>5 DEF ClaimInv
      <3>9. FollowInv'
        BY <1>0, <1>1, <3>1, <3>3, <3>5 DEF FollowInv
      <3>10. DebtInv'
        BY <1>0, <1>7, <3>1, <3>5 DEF DebtInv
      <3>. QED BY <3>6, <3>7, <3>8, <3>9, <3>10 DEF StoreInv
    <2>. QED BY <2>1, <2>2
  <1>8. CASE op.kind = "ready" /\ ClaimReady(op)
    <2>1. CASE Drop
      BY <1>5, <1>8, <2>1
    <2>2. CASE ~ Drop
      <3>. DEFINE c == [live EXCEPT !.origin = op.origin, !.token = op.token]
      <3>1. /\ AttemptIsCurrent(op.att) /\ Claim(op, c)
            /\ UNCHANGED <<store, disk, opener, hooks, queue, job, session, minted, restarts>>
        BY <1>8, <2>2 DEF ClaimReady
      <3>2. /\ shutdown = FALSE /\ op.att.rev = gen
            /\ Relay(live) = [origin |-> op.att.origin, token |-> op.att.token]
        BY <1>0, <3>1 DEF AttemptIsCurrent, Relay, ShapeInv
      <3>3. op.origin \in Origins /\ op.token \in Tokens /\ op.token.origin = op.origin
        BY <1>2, <1>8, OpsTyped DEF OpSound
      <3>4. Shape(c) /\ Matched(c) /\ c.ep = live.ep
        BY <1>6, <3>3 DEF Shape, Matched
      <3>. HIDE DEF c
      <3>. QED BY <1>1, <1>2, <1>4, <1>8, <3>1, <3>2, <3>4, ClaimBeside
    <2>. QED BY <2>1, <2>2
  <1>9. CASE op.kind = "dial" /\ ClaimDial(op)
    <2>. DEFINE merged == MergeDialEndpoints(op.ep, live.ep)
                c == [live EXCEPT !.ep = merged]
    <2>1. CASE Drop
      BY <1>5, <1>9, <2>1
    <2>2. CASE ~ Drop
      <3>1. /\ shutdown = FALSE /\ Claim(op, c)
            /\ UNCHANGED <<store, disk, opener, hooks, queue, job, session, minted, restarts>>
        BY <1>0, <1>9, <2>2 DEF ClaimDial, ShapeInv
      <3>. HIDE DEF merged
      <3>2. Shape(c) /\ Matched(c) /\ Relay(c) = Relay(live)
        BY <1>6 DEF Shape, Matched, Relay
      <3>. HIDE DEF c
      <3>. QED BY <1>1, <1>2, <1>4, <1>9, <3>1, <3>2, ClaimBeside
    <2>. QED BY <2>1, <2>2
  <1>10. CASE op.kind = "disable" /\ ClaimDisable(op)
    <2>1. CASE Drop
      BY <1>5, <1>10, <2>1
    <2>2. CASE ~ Drop
      <3>. DEFINE c == [live EXCEPT !.origin = None, !.token = None]
      <3>1. /\ live' = c /\ gen' = gen + 1 /\ clear' = gen + 1
            /\ running' = [op |-> op, cred |-> c, base |-> live, ph |-> "install",
                           wrote |-> FALSE, ok |-> FALSE]
            /\ UNCHANGED <<shutdown, attempt, issue, disk, opener, hooks, queue, job, session,
                           minted, restarts>>
            /\ shutdown = FALSE
        BY <1>0, <1>10, <2>2 DEF ClaimDisable, AttemptIsCurrent, ShapeInv
      <3>2. Shape(c) /\ c.token = None /\ c.origin = None
        BY <1>6 DEF Shape
      <3>3. PICK g \in Nat : gen' = g /\ g = gen + 1 /\ gen \in Nat
        BY <1>0, <3>1 DEF ShapeInv
      <3>. HIDE DEF c
      <3>4. /\ running' # Free /\ running'.op = op /\ running'.cred = c
            /\ running'.ph = "install" /\ running'.ok = FALSE
            /\ running' \in [op : Ops, cred : {running'.cred}, base : {running'.base},
                             ph : {"install", "write", "finish"}, wrote : BOOLEAN, ok : BOOLEAN]
        BY <1>0, <1>2, <3>1, <3>2, ClaimShape
      <3>5. ShapeInv'
        BY <1>0, <3>1, <3>2, <3>3, <3>4 DEF ShapeInv, Shape
      <3>6. TokenInv'
        <4>1. \A k \in Nat : \A o : OfGeneration(k, o) => OfGeneration(k, o)'
          BY <3>3 DEF OfGeneration
        <4>2. \A h \in hooks : h.gen \in Nat
          BY <1>0 DEF ShapeInv
        <4>3. queue' = queue
          BY <3>1
        <4>4. ASSUME NEW i \in DOMAIN queue PROVE OpSound(queue[i])'
          <5>1. queue[i] \in Ops /\ OpSound(queue[i])
            BY <1>0 DEF TokenInv
          <5>2. queue[i].kind = "refresh" => queue[i].gen \in Nat
            BY <5>1, OpsTyped
          <5>. QED BY <4>1, <4>3, <5>1, <5>2 DEF OpSound
        <4>. QED BY <1>0, <3>1, <3>2, <3>4, <4>1, <4>2, <4>3, <4>4 DEF TokenInv, Matched
      <3>7. ClaimInv'
        BY <1>1, <1>4, <1>10, <3>1, <3>2, <3>4 DEF ClaimInv
      <3>8. FollowInv'
        BY <3>4 DEF FollowInv
      <3>9. DebtInv'
        BY <1>0, <1>10, <3>1, <3>3, <3>4 DEF DebtInv
      <3>. QED BY <3>5, <3>6, <3>7, <3>8, <3>9 DEF StoreInv
    <2>. QED BY <2>1, <2>2
  <1>11. CASE op.kind = "flush" /\ ClaimFlush(op)
    <2>1. CASE ~ HasPending
      BY <1>5, <1>11, <2>1 DEF ClaimFlush
    <2>2. CASE HasPending
      <3>1. /\ Claim(op, live)
            /\ UNCHANGED <<store, disk, opener, hooks, queue, job, session, minted, restarts>>
        BY <1>11, <2>2 DEF ClaimFlush
      <3>. QED BY <1>1, <1>2, <1>4, <1>6, <1>11, <3>1, ClaimBeside
    <2>. QED BY <2>1, <2>2
  <1>. QED BY <1>3, <1>7, <1>8, <1>9, <1>10, <1>11

-----------------------------------------------------------------------------
(* Writes *)

\* A disable puts its opener in place before it writes, or stops there and leaves the
\* write owed.
LEMMA DisableInstallStep == StoreInv /\ DisableInstall => StoreInv'
  <1>. SUFFICES ASSUME StoreInv, DisableInstall PROVE StoreInv'
    OBVIOUS
  <1>0. ShapeInv /\ TokenInv /\ ClaimInv /\ FollowInv /\ DebtInv /\ queue \in Seq(Ops)
    BY DEF StoreInv, ShapeInv
  <1>1. /\ UNCHANGED <<live, gen, pending, clear, shutdown, attempt, issue, disk, hooks, job,
                       session, minted, restarts>>
        /\ running # Free /\ running.ph = "install"
    BY DEF DisableInstall, store
  <1>2. /\ queue # <<>> /\ running.op = Head(queue) /\ running.op.kind = "disable"
        /\ running.cred = live /\ live.origin = None /\ clear = gen
    BY <1>0, <1>1 DEF ClaimInv, DebtInv
  <1>3. /\ Shape(live) /\ Matched(live) /\ Shape(opener.cred) /\ Matched(opener.cred) /\ gen \in Nat
        /\ opener \in [inc : {opener.inc}, retired : BOOLEAN, mode : {"transport", "disabled"},
                       cred : {opener.cred}, rev : Nat]
    BY <1>0 DEF ShapeInv, TokenInv
  <1>4. ASSUME opener' \in [inc : {opener'.inc}, retired : BOOLEAN, mode : {"transport", "disabled"},
                            cred : {opener'.cred}, rev : Nat],
               opener'.cred \in {live, opener.cred},
               opener'.retired = FALSE => opener'.cred = live /\ opener'.rev = gen,
               \/ running' = [running EXCEPT !.ph = "write"] /\ queue' = queue
               \/ running' = Free /\ queue' = Tail(queue)
        PROVE  StoreInv'
    <2>1. CASE running' = [running EXCEPT !.ph = "write"] /\ queue' = queue
      <3>1. running \in [op : Ops, cred : {running.cred}, base : {running.base},
                         ph : {"install", "write", "finish"}, wrote : BOOLEAN, ok : BOOLEAN]
        BY <1>0, <1>1 DEF ShapeInv
      <3>2. /\ running'.op = running.op /\ running'.cred = running.cred /\ running'.base = running.base
            /\ running'.ph = "write" /\ running'.wrote = running.wrote /\ running'.ok = running.ok
            /\ running' # Free
            /\ running' \in [op : Ops, cred : {running'.cred}, base : {running'.base},
                             ph : {"install", "write", "finish"}, wrote : BOOLEAN, ok : BOOLEAN]
        BY <2>1, <3>1 DEF Free
      <3>3. running.ok = FALSE
        BY <1>0, <1>1, <3>1 DEF ClaimInv
      <3>4. ShapeInv'
        BY <1>0, <1>1, <1>2, <1>3, <1>4, <2>1, <3>2 DEF ShapeInv, Shape
      <3>5. TokenInv'
        BY <1>0, <1>1, <1>2, <1>3, <1>4, <2>1, <3>2 DEF TokenInv, Matched, OpSound, OfGeneration
      <3>6. ClaimInv'
        BY <1>1, <1>2, <2>1, <3>2, <3>3 DEF ClaimInv
      <3>7. FollowInv'
        BY <1>1, <1>2, <1>4 DEF FollowInv
      <3>8. DebtInv'
        BY <1>0, <1>1, <1>2, <2>1, <3>2 DEF DebtInv, Done
      <3>. QED BY <3>4, <3>5, <3>6, <3>7, <3>8 DEF StoreInv
    <2>2. CASE running' = Free /\ queue' = Tail(queue)
      <3>1. /\ queue' \in Seq(Ops)
            /\ \A i \in DOMAIN queue' : \E j \in DOMAIN queue : queue'[i] = queue[j]
            /\ Done("close")' => Done("close")
        BY <1>0, <1>2, <2>2, Leaves
      <3>2. ShapeInv'
        BY <1>0, <1>1, <1>3, <1>4, <2>2, <3>1 DEF ShapeInv, Shape
      <3>3. TokenInv'
        <4>1. \A i \in DOMAIN queue' : OpSound(queue'[i])
          BY <1>0, <3>1 DEF TokenInv
        <4>. QED BY <1>0, <1>1, <1>3, <1>4, <2>2, <4>1 DEF TokenInv, Matched, OpSound, OfGeneration
      <3>4. ClaimInv'
        BY <2>2 DEF ClaimInv
      <3>5. FollowInv'
        BY <1>1, <1>2, <1>4 DEF FollowInv
      <3>6. Owed'
        BY <1>0, <1>1, <1>2, <3>1 DEF DebtInv, Owed
      <3>7. DebtInv'
        BY <1>0, <1>1, <2>2, <3>6 DEF DebtInv
      <3>. QED BY <3>2, <3>3, <3>4, <3>5, <3>7 DEF StoreInv
    <2>. QED BY <1>4, <2>1, <2>2
  <1>. DEFINE off == InstallDisabled(opener, live, gen)
              on == InstallTransport(off, live, gen)
  <1>5. /\ off \in [inc : {off.inc}, retired : BOOLEAN, mode : {"transport", "disabled"},
                    cred : {off.cred}, rev : Nat]
        /\ off.cred \in {live, opener.cred} /\ off.retired = opener.retired
        /\ off.retired = FALSE => off.cred = live /\ off.rev = gen
    <2>1. off = Installed(opener, "disabled", live, gen)
      BY DEF InstallDisabled
    <2>. HIDE DEF off
    <2>. QED BY <1>3, <2>1 DEF Installed
  <1>. HIDE DEF off
  <1>6. /\ on \in [inc : {on.inc}, retired : BOOLEAN, mode : {"transport", "disabled"},
                   cred : {on.cred}, rev : Nat]
        /\ on.cred \in {live, off.cred} /\ on.retired = off.retired
        /\ on.retired = FALSE => on.cred = live /\ on.rev = gen
    <2>1. on = Installed(off, "transport", live, gen)
      BY DEF InstallTransport
    <2>. HIDE DEF on
    <2>. QED BY <1>3, <1>5, <2>1 DEF Installed
  <1>. HIDE DEF on
  <1>7. CASE opener' = DisabledOpener(running.cred, gen) /\ running' = [running EXCEPT !.ph = "write"]
             /\ queue' = queue
    <2>1. opener' \in {off, on}
      BY <1>2, <1>7 DEF DisabledOpener, off, on
    <2>. QED BY <1>4, <1>5, <1>6, <1>7, <2>1
  <1>8. CASE opener' = InstallDisabled(opener, running.cred, gen) /\ running' = Free
             /\ queue' = Tail(queue)
    <2>1. opener' = off
      BY <1>2, <1>8 DEF off
    <2>. QED BY <1>4, <1>5, <1>8, <2>1
  <1>. QED BY <1>7, <1>8 DEF DisableInstall

\* Whatever the file system does, the file afterwards is the old one or the credential
\* the operation claimed.
LEMMA WriteStep == StoreInv /\ Write => StoreInv'
  <1>. SUFFICES ASSUME StoreInv, Write PROVE StoreInv'
    OBVIOUS
  <1>0. ShapeInv /\ TokenInv /\ ClaimInv /\ FollowInv /\ DebtInv
    BY DEF StoreInv
  <1>1. /\ UNCHANGED <<live, gen, pending, clear, shutdown, attempt, issue, opener, hooks, queue,
                       job, session, minted, restarts>>
        /\ running # Free /\ running.ph = "write"
    BY DEF Write, store
  <1>2. PICK ok \in BOOLEAN, landed \in BOOLEAN :
          /\ ok => landed
          /\ disk' = IF landed THEN running.cred ELSE disk
          /\ running' = [running EXCEPT !.ph = "finish", !.ok = ok, !.wrote = landed]
    BY DEF Write
  <1>3. /\ running \in [op : Ops, cred : {running.cred}, base : {running.base},
                        ph : {"install", "write", "finish"}, wrote : BOOLEAN, ok : BOOLEAN]
        /\ Shape(running.cred)
    BY <1>0, <1>1 DEF ShapeInv
  <1>4. /\ running'.op = running.op /\ running'.cred = running.cred /\ running'.base = running.base
        /\ running'.ph = "finish" /\ running'.ok = ok /\ running' # Free
        /\ running' \in [op : Ops, cred : {running'.cred}, base : {running'.base},
                         ph : {"install", "write", "finish"}, wrote : BOOLEAN, ok : BOOLEAN]
    BY <1>2, <1>3 DEF Free
  <1>5. disk' \in {disk, running.cred} /\ (ok => disk' = running.cred)
    BY <1>2
  <1>6. ShapeInv'
    BY <1>0, <1>1, <1>3, <1>4, <1>5 DEF ShapeInv, Shape
  <1>7. TokenInv'
    BY <1>0, <1>1, <1>4, <1>5 DEF TokenInv, Matched, OpSound, OfGeneration
  <1>8. ClaimInv'
    BY <1>0, <1>1, <1>4, <1>5 DEF ClaimInv, Relay
  <1>9. FollowInv'
    BY <1>0, <1>1, <1>4 DEF FollowInv
  <1>10. DebtInv'
    <2>1. running.op.kind \in {"dial", "flush"} => Relay(running.cred) = Relay(live)
      BY <1>0, <1>1 DEF ClaimInv
    <2>2. Relay(live)' = Relay(live) /\ (disk' = disk => Relay(disk)' = Relay(disk))
          /\ (disk' = running.cred => Relay(disk)' = Relay(running.cred))
      BY <1>1 DEF Relay
    <2>. QED BY <1>0, <1>1, <1>4, <1>5, <2>1, <2>2 DEF DebtInv, Owed, Done
  <1>. QED BY <1>6, <1>7, <1>8, <1>9, <1>10 DEF StoreInv

-----------------------------------------------------------------------------
(* Ends of operations *)

\* An operation ends.  Its credential is the live one or becomes it; the relay access of
\* the file is the live one, or the failure is recorded, or the write is still owed.
LEMMA Ends ==
    ASSUME StoreInv, running # Free, running.ph # "install", queue # <<>>,
           running.op = Head(queue), running' = Free, queue' = Tail(queue),
           UNCHANGED <<shutdown, attempt, disk, job, session, minted, restarts>>,
           Shape(live)', Matched(live)', gen' \in Nat, gen <= gen',
           issue' \in {None, "Failed", "Uncertain"},
           gen' = gen => live'.origin = live.origin,
           hooks' = hooks \/ hooks' = hooks \cup Hook(gen', live'),
           \/ opener' = opener /\ gen' = gen /\ live' = live
           \/ opener' = InstallTransport(opener, live', gen'),
           \/ Relay(disk)' = Relay(live)'
           \/ issue' # None
           \/ /\ running.op.kind = "dial" /\ UNCHANGED <<gen, pending, clear, issue>>
              /\ Relay(live)' = Relay(live)
    PROVE  StoreInv'
  <1>0. ShapeInv /\ TokenInv /\ ClaimInv /\ FollowInv /\ DebtInv /\ queue \in Seq(Ops)
    BY DEF StoreInv, ShapeInv
  <1>1. /\ queue' \in Seq(Ops)
        /\ \A i \in DOMAIN queue' : \E j \in DOMAIN queue : queue'[i] = queue[j]
        /\ running.op.kind = "dial" /\ Done("close")' => Done("close")
    BY <1>0, Leaves
  <1>2. PICK g \in Nat : gen' = g /\ gen \in Nat /\ gen <= g
    BY <1>0 DEF ShapeInv
  <1>3. /\ Shape(opener.cred) /\ Matched(opener.cred)
        /\ opener \in [inc : {opener.inc}, retired : BOOLEAN, mode : {"transport", "disabled"},
                       cred : {opener.cred}, rev : Nat]
    BY <1>0 DEF ShapeInv, TokenInv
  <1>4. /\ opener' \in [inc : {opener'.inc}, retired : BOOLEAN, mode : {"transport", "disabled"},
                        cred : {opener'.cred}, rev : Nat]
        /\ opener'.cred \in {live', opener.cred} /\ opener'.retired = opener.retired
        /\ \/ opener' = opener /\ gen' = gen /\ live' = live
           \/ opener'.retired = FALSE =>
                opener'.cred = live' /\ opener'.rev = gen' /\ opener'.mode = "transport"
    <2>1. CASE opener' = opener /\ gen' = gen /\ live' = live
      BY <1>3, <2>1
    <2>2. CASE opener' = InstallTransport(opener, live', gen')
      BY <1>2, <1>3, <2>2 DEF InstallTransport, Installed
    <2>. QED BY <2>1, <2>2
  <1>5. \A h \in hooks' : h \in hooks \/ h = [gen |-> gen', origin |-> live'.origin]
    BY DEF Hook
  <1>6. hooks' \subseteq [gen : Nat, origin : Origins]
    <2>1. Hook(gen', live') \subseteq [gen : Nat, origin : Origins]
      BY <1>2 DEF Hook, Shape
    <2>. QED BY <1>0, <2>1 DEF ShapeInv
  <1>7. ShapeInv'
    <2>1. Shape(opener.cred)'
      BY <1>3, <1>4 DEF Shape
    <2>2. Shape(disk)'
      BY <1>0 DEF ShapeInv, Shape
    <2>. QED BY <1>0, <1>1, <1>4, <1>6, <2>1, <2>2 DEF ShapeInv
  <1>8. TokenInv'
    <2>1. \A k \in Nat : \A o : OfGeneration(k, o) => OfGeneration(k, o)'
      BY <1>2 DEF OfGeneration
    <2>2. \A h \in hooks' : OfGeneration(h.gen, h.origin)'
      <3>1. \A h \in hooks : h.gen \in Nat /\ OfGeneration(h.gen, h.origin)
        BY <1>0 DEF ShapeInv, TokenInv
      <3>2. OfGeneration(gen, live.origin)'
        BY <1>2 DEF OfGeneration
      <3>. QED BY <1>5, <2>1, <3>1, <3>2
    <2>3. ASSUME NEW i \in DOMAIN queue' PROVE OpSound(queue[i])'
      <3>1. PICK j \in DOMAIN queue : queue'[i] = queue[j]
        BY <1>1
      <3>2. queue[j] \in Ops /\ OpSound(queue[j])
        BY <1>0 DEF TokenInv
      <3>3. queue[j].kind = "refresh" => queue[j].gen \in Nat
        BY <3>2, OpsTyped
      <3>. QED BY <2>1, <3>1, <3>2, <3>3 DEF OpSound
    <2>4. Matched(opener.cred)' /\ Matched(disk)'
      BY <1>0, <1>3, <1>4 DEF TokenInv, Matched
    <2>. QED BY <2>2, <2>3, <2>4 DEF TokenInv
  <1>9. ClaimInv'
    BY DEF ClaimInv
  <1>10. FollowInv'
    BY <1>0, <1>3, <1>4 DEF FollowInv
  <1>11. DebtInv'
    <2>1. running.op.kind = "dial" /\ UNCHANGED <<gen, pending, clear>> /\ Owed => Owed'
      BY <1>1 DEF Owed
    <2>2. disk' = disk /\ Relay(disk)' = Relay(disk)
      BY DEF Relay
    <2>. QED BY <1>0, <2>1, <2>2 DEF DebtInv
  <1>. QED BY <1>7, <1>8, <1>9, <1>10, <1>11 DEF StoreInv

\* Every kind of operation ends so.
LEMMA FinishStep == StoreInv /\ Finish => StoreInv'
  <1>. SUFFICES ASSUME StoreInv, Finish PROVE StoreInv'
    OBVIOUS
  <1>0. ShapeInv /\ TokenInv /\ ClaimInv
    BY DEF StoreInv
  <1>1. /\ running # Free /\ running.ph = "finish" /\ running' = Free /\ queue' = Tail(queue)
        /\ UNCHANGED <<disk, job, session, minted, restarts>>
    BY DEF Finish
  <1>2. /\ queue # <<>> /\ running.op = Head(queue) /\ running.op \in Ops
        /\ running.ok \in BOOLEAN /\ Shape(running.cred) /\ Matched(running.cred)
        /\ running.ok => disk = running.cred
    BY <1>0, <1>1 DEF ShapeInv, TokenInv, ClaimInv
  <1>3. /\ Shape(live) /\ Matched(live) /\ gen \in Nat /\ issue \in {None, "Failed", "Uncertain"}
    BY <1>0 DEF ShapeInv, TokenInv
  <1>4. "Failed" # None /\ "Uncertain" # None
    BY BoundsAssumption
  <1>5. ASSUME UNCHANGED <<live, gen, shutdown, attempt, opener, hooks>>,
               issue' \in {None, "Failed", "Uncertain"},
               disk = live \/ issue' # None
        PROVE  StoreInv'
    <2>1. Shape(live)' /\ Matched(live)' /\ Relay(live)' = Relay(live)
      BY <1>3, <1>5 DEF Shape, Matched, Relay
    <2>2. disk = live => Relay(disk)' = Relay(live)'
      BY <1>1, <1>5 DEF Relay
    <2>. QED BY <1>1, <1>2, <1>3, <1>5, <2>1, <2>2, Ends
  <1>6. \/ running.op.kind = "refresh" /\ FinishRefresh
        \/ running.op.kind = "ready" /\ FinishReady
        \/ running.op.kind = "dial" /\ FinishDial
        \/ running.op.kind = "disable" /\ FinishDisable
        \/ running.op.kind = "flush" /\ FinishFlush
    <2>1. running.op.kind \in {"refresh", "ready", "disable", "dial", "flush"}
      BY <1>2, OpsTyped
    <2>2. CASE running.op.kind = "refresh"
      BY <2>2 DEF Finish
    <2>3. CASE running.op.kind = "ready"
      BY <2>3 DEF Finish
    <2>4. CASE running.op.kind = "dial"
      BY <2>4 DEF Finish
    <2>5. CASE running.op.kind = "disable"
      BY <2>5 DEF Finish
    <2>6. CASE running.op.kind = "flush"
      BY <2>6 DEF Finish
    <2>. QED BY <2>1, <2>2, <2>3, <2>4, <2>5, <2>6
  <1>7. running.op.kind \in {"refresh", "disable", "flush"} => running.cred = live
    BY <1>0, <1>1 DEF ClaimInv
  <1>8. CASE running.op.kind = "refresh" /\ FinishRefresh
    BY <1>2, <1>4, <1>5, <1>7, <1>8 DEF FinishRefresh
  <1>9. CASE running.op.kind = "disable" /\ FinishDisable
    BY <1>2, <1>3, <1>4, <1>5, <1>7, <1>9 DEF FinishDisable
  <1>10. CASE running.op.kind = "flush" /\ FinishFlush
    BY <1>2, <1>3, <1>4, <1>5, <1>7, <1>10 DEF FinishFlush
  <1>11. CASE running.op.kind = "ready" /\ FinishReady
    <2>1. CASE ~ running.ok /\ issue' = "Failed"
               /\ UNCHANGED <<live, gen, pending, clear, shutdown, attempt, opener, hooks>>
      BY <1>4, <1>5, <2>1
    <2>2. CASE ReadBack /\ live' = running.cred /\ gen' = gen + 1
               /\ issue' = (IF running.ok THEN None ELSE "Uncertain")
               /\ opener' = InstallTransport(opener, running.cred, gen + 1)
               /\ hooks' = hooks \cup Hook(gen + 1, running.cred)
               /\ UNCHANGED <<shutdown, attempt>>
      <3>1. disk = running.cred
        BY <1>2, <2>2 DEF ReadBack
      <3>2. Relay(disk)' = Relay(live)'
        BY <1>1, <2>2, <3>1 DEF Relay
      <3>3. Shape(live)' /\ Matched(live)'
        BY <1>2, <2>2 DEF Shape, Matched
      <3>4. gen' \in Nat /\ gen <= gen' /\ gen' # gen
        BY <1>3, <2>2
      <3>5. issue' \in {None, "Failed", "Uncertain"}
        BY <2>2
      <3>6. hooks' = hooks \cup Hook(gen', live') /\ opener' = InstallTransport(opener, live', gen')
        BY <2>2
      <3>. QED BY <1>1, <1>2, <2>2, <3>2, <3>3, <3>4, <3>5, <3>6, Ends
    <2>. QED BY <1>11, <2>1, <2>2 DEF FinishReady
  <1>12. CASE running.op.kind = "dial" /\ FinishDial
    <2>0. Relay(running.cred) = Relay(live)
      BY <1>0, <1>1, <1>12 DEF ClaimInv
    <2>1. CASE ~ running.ok /\ UNCHANGED <<store, opener, hooks>>
      <3>1. UNCHANGED <<live, gen, pending, clear, shutdown, attempt, issue, opener, hooks>>
        BY <2>1 DEF store
      <3>2. Shape(live)' /\ Matched(live)' /\ Relay(live)' = Relay(live)
        BY <1>3, <3>1 DEF Shape, Matched, Relay
      <3>. QED BY <1>1, <1>2, <1>3, <1>12, <3>1, <3>2, Ends
    <2>2. CASE ReadBack /\ live' = running.cred
               /\ opener' = InstallTransport(opener, running.cred, gen)
               /\ hooks' = hooks \cup Hook(gen, running.cred)
               /\ UNCHANGED <<gen, pending, clear, shutdown, attempt, issue>>
      <3>1. Shape(live)' /\ Matched(live)' /\ Relay(live)' = Relay(live)
        BY <1>2, <2>0, <2>2 DEF Shape, Matched, Relay
      <3>2. live'.origin = live.origin
        BY <3>1 DEF Relay
      <3>3. hooks' = hooks \cup Hook(gen', live') /\ opener' = InstallTransport(opener, live', gen')
        BY <2>2
      <3>. QED BY <1>1, <1>2, <1>3, <1>12, <2>2, <3>1, <3>2, <3>3, Ends
    <2>. QED BY <1>12, <2>1, <2>2 DEF FinishDial
  <1>. QED BY <1>6, <1>8, <1>9, <1>10, <1>11, <1>12

-----------------------------------------------------------------------------
(* Sessions *)

\* The first session.
LEMMA StoreInit == Init => StoreInv
  <1>. SUFFICES ASSUME Init PROVE StoreInv
    OBVIOUS
  <1>1. PICK o \in Origins \cup {None}, e \in StartEndpoints :
          disk = [origin |-> o, ep |-> e,
                  token |-> IF o = None THEN None ELSE [origin |-> o, n |-> 1]]
    BY DEF Init
  <1>2. [origin |-> o, n |-> 1] \in Tokens \/ o = None
    BY BoundsAssumption DEF Tokens
  <1>3. Shape(disk) /\ Matched(disk)
    <2>1. CASE o = None
      BY <1>1, <2>1 DEF Shape, Matched
    <2>2. CASE o # None
      BY <1>1, <1>2, <2>2 DEF Shape, Matched
    <2>. QED BY <2>1, <2>2
  <1>4. /\ live = disk /\ gen = 0 /\ pending = None /\ clear = None /\ shutdown = FALSE
        /\ attempt = 0 /\ issue = None /\ opener = FreshOpener(disk) /\ hooks = Hook(0, disk)
        /\ queue = <<>> /\ running = Free /\ job = Idle /\ session = "open" /\ minted = 1
        /\ restarts = 0
    BY DEF Init
  <1>5. /\ opener.cred = disk /\ opener.rev = 0 /\ opener.mode = "transport"
        /\ opener \in [inc : {opener.inc}, retired : BOOLEAN, mode : {"transport", "disabled"},
                       cred : {opener.cred}, rev : Nat]
    BY <1>4 DEF FreshOpener
  <1>6. ShapeInv
    <2>1. 1 \in 1..MaxTokens /\ queue \in Seq(Ops) /\ job.ph = "idle"
      BY <1>4, BoundsAssumption DEF Idle
    <2>2. Hook(0, disk) \subseteq [gen : Nat, origin : Origins]
      BY <1>3 DEF Hook, Shape
    <2>. QED BY <1>3, <1>4, <1>5, <2>1, <2>2 DEF ShapeInv
  <1>7. TokenInv
    BY <1>3, <1>4, <1>5 DEF TokenInv, Hook, OfGeneration
  <1>8. ClaimInv
    BY <1>4 DEF ClaimInv
  <1>9. FollowInv
    BY <1>4, <1>5 DEF FollowInv
  <1>10. DebtInv
    BY <1>4 DEF DebtInv, Relay
  <1>. QED BY <1>6, <1>7, <1>8, <1>9, <1>10 DEF StoreInv

\* A session that a later process starts from the file.
LEMMA RestartStep == StoreInv /\ Restart => StoreInv'
  <1>. SUFFICES ASSUME StoreInv, Restart PROVE StoreInv'
    OBVIOUS
  <1>3. /\ Shape(disk) /\ Matched(disk) /\ minted \in 1..MaxTokens /\ restarts \in Nat
    BY DEF StoreInv, ShapeInv, TokenInv
  <1>4. /\ disk' = disk /\ live' = disk /\ gen' = 0 /\ pending' = None /\ clear' = None
        /\ shutdown' = FALSE /\ attempt' = 0 /\ issue' = None /\ opener' = FreshOpener(disk)
        /\ hooks' = Hook(0, disk) /\ queue' = <<>> /\ running' = Free /\ job' = Idle
        /\ session' = "open" /\ minted' = minted /\ restarts' = restarts + 1
    BY DEF Restart
  <1>5. /\ opener'.cred = disk /\ opener'.rev = 0 /\ opener'.mode = "transport"
        /\ opener' \in [inc : {opener'.inc}, retired : BOOLEAN, mode : {"transport", "disabled"},
                        cred : {opener'.cred}, rev : Nat]
    BY <1>4 DEF FreshOpener
  <1>6. ShapeInv'
    <2>1. restarts' \in Nat
      BY <1>3, <1>4
    <2>2. Hook(0, disk) \subseteq [gen : Nat, origin : Origins]
      BY <1>3 DEF Hook, Shape
    <2>3. queue' \in Seq(Ops) /\ job'.ph = "idle"
      BY <1>4 DEF Idle
    <2>4. Shape(live)' /\ Shape(disk)' /\ Shape(opener.cred)'
      BY <1>3, <1>4, <1>5 DEF Shape
    <2>. QED BY <1>3, <1>4, <1>5, <2>1, <2>2, <2>3, <2>4 DEF ShapeInv
  <1>7. TokenInv'
    BY <1>3, <1>4, <1>5 DEF TokenInv, Hook, OfGeneration, Matched
  <1>8. ClaimInv'
    BY <1>4 DEF ClaimInv
  <1>9. FollowInv'
    BY <1>4, <1>5 DEF FollowInv
  <1>10. DebtInv'
    BY <1>4 DEF DebtInv, Relay
  <1>. QED BY <1>6, <1>7, <1>8, <1>9, <1>10 DEF StoreInv

\* The invariant is inductive.
LEMMA StoreStep == StoreInv /\ [Next]_vars => StoreInv'
  <1>. SUFFICES ASSUME StoreInv, [Next]_vars PROVE StoreInv'
    OBVIOUS
  <1>1. CASE Chain
    BY <1>1, ClaimStep, DisableInstallStep, WriteStep, FinishStep DEF Chain
  <1>2. CASE Lane \/ (\E h \in hooks : TokenHook(h)) \/ SessionShutdown \/ SessionClosed
    BY <1>2, BesideSteps
  <1>3. CASE Restart
    BY <1>3, RestartStep
  <1>4. CASE UNCHANGED vars
    BY <1>4 DEF vars, store, StoreInv, ShapeInv, Shape, TokenInv, Matched, OfGeneration, OpSound,
       ClaimInv, FollowInv, DebtInv, Owed, Done, Relay
  <1>. QED BY <1>1, <1>2, <1>3, <1>4 DEF Next

-----------------------------------------------------------------------------
(* Folds of sequences *)

\* A set of numbers has a smallest one.
LEMMA Smallest ==
    ASSUME NEW T, T \subseteq Nat, T # {}
    PROVE  \E x \in T : \A y \in T : x <= y
  <1>. DEFINE R == {ss \in Nat \X Nat : ss[1] < ss[2]}
  <1>0. IsWellFoundedOn(R, Nat)
    BY NatLessThanWellFounded DEF OpToRel
  <1>1. PICK x \in T : \A y \in T : ~ (<<y, x>> \in R)
    <2>. HIDE DEF R
    <2>. QED BY <1>0, WFMin
  <1>2. \A y \in T : ~ (y < x)
    BY <1>1
  <1>. QED BY <1>2

\* Induction on numbers, over a set instead of a predicate.
LEMMA Induction ==
    ASSUME NEW T, T \subseteq Nat, 0 \in T, \A n \in T : n + 1 \in T
    PROVE  T = Nat
  <1>1. SUFFICES ASSUME Nat \ T # {} PROVE FALSE
    OBVIOUS
  <1>2. PICK x \in Nat \ T : \A y \in Nat \ T : x <= y
    BY <1>1, Smallest
  <1>3. x - 1 \in Nat /\ x - 1 \in T
    BY <1>2
  <1>. QED BY <1>2, <1>3

\* A set of numbers below a bound has a largest one, which Max names.
LEMMA Largest ==
    ASSUME NEW S, S \subseteq Nat, S # {}, NEW b \in Nat, \A y \in S : y <= b
    PROVE  Max(S) \in S /\ \A y \in S : Max(S) >= y
  <1>. DEFINE T == {m \in Nat : \A y \in S : y <= m}
  <1>1. PICK m \in T : \A k \in T : m <= k
    <2>1. b \in T
      OBVIOUS
    <2>. HIDE DEF T
    <2>2. T \subseteq Nat
      BY DEF T
    <2>. QED BY <2>1, <2>2, Smallest
  <1>2. m \in S
    <2>1. SUFFICES ASSUME m \notin S PROVE FALSE
      OBVIOUS
    <2>2. PICK y \in S : TRUE
      OBVIOUS
    <2>3. \A z \in S : z <= m - 1
      BY <2>1
    <2>4. m - 1 \in T
      BY <2>2, <2>3
    <2>. QED BY <1>1, <2>4
  <1>3. \E x \in S : \A y \in S : x >= y
    BY <1>2
  <1>. QED BY <1>3 DEF Max

\* The largest index of a set of indices, and of all of them.
LEMMA LastIndex ==
    ASSUME NEW n \in Nat
    PROVE  /\ \A s \in SUBSET (1..n) : s # {} =>
                 Max(s) \in s /\ s \ {Max(s)} \subseteq 1..(n - 1)
           /\ n # 0 => Max(1..n) = n /\ (1..n) \ {n} = 1..(n - 1)
  <1>1. ASSUME NEW s \in SUBSET (1..n), s # {}
        PROVE  Max(s) \in s /\ \A y \in s : Max(s) >= y
    <2>1. s \subseteq Nat /\ \A y \in s : y <= n
      OBVIOUS
    <2>. QED BY <1>1, <2>1, Largest
  <1>2. ASSUME NEW s \in SUBSET (1..n), s # {}
        PROVE  s \ {Max(s)} \subseteq 1..(n - 1)
    <2>1. PICK m : m = Max(s) /\ m \in s /\ \A y \in s : m >= y
      BY <1>1, <1>2
    <2>2. ASSUME NEW x \in s, x # m PROVE x \in 1..(n - 1)
      <3>1. x \in 1..n /\ m \in 1..n /\ m >= x
        BY <2>1
      <3>. QED BY <2>2, <3>1
    <2>. QED BY <2>1, <2>2
  <1>3. n # 0 => Max(1..n) = n
    <2>1. n # 0 => 1..n # {} /\ n \in 1..n
      OBVIOUS
    <2>2. PICK m : m = Max(1..n)
      OBVIOUS
    <2>. QED BY <1>1, <2>1, <2>2
  <1>. QED BY <1>1, <1>2, <1>3

\* The values of a fold by D over the indices 1..n, taken from the last one down.
FoldsBy(f, n, base, D) ==
    \A s \in SUBSET (1..n) :
       f[s] = IF s = {} THEN base ELSE D[<<f[s \ {Max(s)}], Max(s)>>]

\* A fold by steps within a set is defined.
LEMMA FoldDefined ==
    ASSUME NEW n \in Nat, NEW A, NEW base \in A, NEW D \in [A \X Nat -> A]
    PROVE  \E f \in [SUBSET (1..n) -> A] : FoldsBy(f, n, base, D)
  <1>. DEFINE T == {k \in Nat : \E f \in [SUBSET (1..k) -> A] : FoldsBy(f, k, base, D)}
  <1>1. 0 \in T
    <2>. DEFINE f == [s \in SUBSET (1..0) |-> base]
    <2>1. f \in [SUBSET (1..0) -> A] /\ \A s \in SUBSET (1..0) : f[s] = base /\ s = {}
      OBVIOUS
    <2>. HIDE DEF f
    <2>. QED BY <2>1 DEF FoldsBy
  <1>2. ASSUME NEW k \in T PROVE k + 1 \in T
    <2>1. PICK f \in [SUBSET (1..k) -> A] : FoldsBy(f, k, base, D)
      BY <1>2
    <2>. DEFINE g == [s \in SUBSET (1..(k + 1)) |->
                         IF s = {} THEN base ELSE D[<<f[s \ {Max(s)}], Max(s)>>]]
    <2>2. ASSUME NEW s \in SUBSET (1..(k + 1)), s # {}
          PROVE  s \ {Max(s)} \in SUBSET (1..k) /\ Max(s) \in Nat
      <3>1. k + 1 \in Nat /\ (k + 1) - 1 = k
        BY <1>2
      <3>2. Max(s) \in s /\ s \ {Max(s)} \subseteq 1..((k + 1) - 1)
        BY <2>2, <3>1, LastIndex
      <3>3. 1..((k + 1) - 1) = 1..k
        BY <3>1
      <3>4. s \ {Max(s)} \in SUBSET (1..k)
        BY <3>2, <3>3
      <3>5. Max(s) \in 1..(k + 1)
        BY <3>2
      <3>. QED BY <3>4, <3>5
    <2>3. g \in [SUBSET (1..(k + 1)) -> A]
      BY <2>2
    <2>4. \A s \in SUBSET (1..(k + 1)) :
             g[s] = IF s = {} THEN base ELSE D[<<f[s \ {Max(s)}], Max(s)>>]
      OBVIOUS
    <2>. HIDE DEF g
    <2>5. ASSUME NEW s \in SUBSET (1..k) PROVE g[s] = f[s]
      <3>1. s \in SUBSET (1..(k + 1))
        BY <2>5
      <3>. QED BY <2>1, <2>4, <3>1 DEF FoldsBy
    <2>6. FoldsBy(g, k + 1, base, D)
      BY <2>2, <2>4, <2>5 DEF FoldsBy
    <2>7. k + 1 \in Nat
      BY <1>2
    <2>. QED BY <2>3, <2>6, <2>7
  <1>. HIDE DEF T
  <1>3. T = Nat
    <2>1. T \subseteq Nat
      BY DEF T
    <2>. QED BY <1>1, <1>2, <2>1, Induction
  <1>. QED BY <1>3 DEF T

\* The same of a function that need only go by D where it stays within A.
FoldsIn(h, n, base, A, D) ==
    /\ h[{}] = base
    /\ \A s \in SUBSET (1..n) : s # {} /\ h[s \ {Max(s)}] \in A =>
          h[s] = D[<<h[s \ {Max(s)}], Max(s)>>]

\* What each step of D, from the index k to the next, keeps of the values so far.
Keeps(G, n, A, D) ==
    \A k \in 0..(n - 1), v \in A : <<k, v>> \in G => <<k + 1, D[<<v, k + 1>>]>> \in G

\* What holds of the base and is kept by each step holds of the fold over all indices.
LEMMA FoldKeeps ==
    ASSUME NEW n \in Nat, NEW A, NEW base \in A, NEW D \in [A \X Nat -> A], NEW h,
           FoldsIn(h, n, base, A, D), NEW G, <<0, base>> \in G, Keeps(G, n, A, D)
    PROVE  h[1..n] \in A /\ <<n, h[1..n]>> \in G
  <1>. DEFINE T == {k \in Nat : k <= n => h[1..k] \in A /\ <<k, h[1..k]>> \in G}
  <1>1. 0 \in T
    <2>1. 1..0 = {}
      OBVIOUS
    <2>. QED BY <2>1 DEF FoldsIn
  <1>2. ASSUME NEW k \in T PROVE k + 1 \in T
    <2>1. k \in Nat /\ k + 1 \in Nat
      BY <1>2
    <2>2. SUFFICES ASSUME k + 1 <= n
                   PROVE  h[1..(k + 1)] \in A /\ <<k + 1, h[1..(k + 1)]>> \in G
      BY <2>1
    <2>3. h[1..k] \in A /\ <<k, h[1..k]>> \in G /\ k \in 0..(n - 1)
      BY <1>2, <2>1, <2>2
    <2>4. Max(1..(k + 1)) = k + 1 /\ (1..(k + 1)) \ {k + 1} = 1..k
      <3>1. k + 1 # 0 /\ (k + 1) - 1 = k
        BY <2>1
      <3>. QED BY <2>1, <3>1, LastIndex
    <2>5. 1..(k + 1) \in SUBSET (1..n) /\ 1..(k + 1) # {}
      <3>1. k + 1 \in 1..(k + 1)
        BY <2>1
      <3>2. ASSUME NEW i \in 1..(k + 1) PROVE i \in 1..n
        BY <2>1, <2>2
      <3>. QED BY <3>1, <3>2
    <2>6. h[1..(k + 1)] = D[<<h[1..k], k + 1>>]
      <3>. DEFINE s == 1..(k + 1)
      <3>1. s \in SUBSET (1..n) /\ s # {} /\ Max(s) = k + 1 /\ s \ {Max(s)} = 1..k
        BY <2>4, <2>5
      <3>. HIDE DEF s
      <3>2. h[s] = D[<<h[1..k], k + 1>>]
        BY <2>3, <3>1 DEF FoldsIn
      <3>. QED BY <3>2 DEF s
    <2>. QED BY <2>1, <2>3, <2>6 DEF Keeps
  <1>. HIDE DEF T
  <1>3. T = Nat
    <2>1. T \subseteq Nat
      BY DEF T
    <2>. QED BY <1>1, <1>2, <2>1, Induction
  <1>. QED BY <1>3 DEF T

\* The listed addresses, once each.
LEMMA ListedFold ==
    ASSUME NEW E, NEW l \in Seq(E)
    PROVE  /\ FoldLeft(PushListed, <<>>, l) \in Seq(E)
           /\ Len(FoldLeft(PushListed, <<>>, l)) <= Len(l)
  <1>. DEFINE n == Len(l)
              A == Seq(E)
              F(f) == [s \in SUBSET (DOMAIN l) |->
                         IF s = {} THEN <<>> ELSE PushListed(f[s \ {Max(s)}], l[Max(s)])]
              h == CHOOSE f : f = F(f)
              D == [p \in A \X Nat |-> IF p[2] \in 1..n THEN PushListed(p[1], l[p[2]]) ELSE p[1]]
  <1>1. n \in Nat /\ DOMAIN l = 1..n /\ <<>> \in A /\ \A i \in 1..n : l[i] \in E
    OBVIOUS
  <1>2. \A v \in A, i \in 1..n : /\ PushListed(v, l[i]) \in A
                                 /\ Len(PushListed(v, l[i])) <= Len(v) + 1
    <2>1. ASSUME NEW v \in A, NEW e \in E
          PROVE  PushListed(v, e) \in A /\ Len(PushListed(v, e)) <= Len(v) + 1
      BY DEF PushListed
    <2>. QED BY <1>1, <2>1
  <1>3. D \in [A \X Nat -> A]
    BY <1>1, <1>2
  <1>4. \A v \in A, i \in 1..n : D[<<v, i>>] = PushListed(v, l[i])
    BY <1>1
  <1>5. FoldLeft(PushListed, <<>>, l) = h[DOMAIN l]
    BY DEF FoldLeft, MapThenFoldSet
  <1>. HIDE DEF A, D, n
  <1>6. h = F(h)
    <2>1. PICK f \in [SUBSET (1..n) -> A] : FoldsBy(f, n, <<>>, D)
      BY <1>1, <1>3, FoldDefined
    <2>2. ASSUME NEW s \in SUBSET (1..n), s # {}
          PROVE  f[s] = PushListed(f[s \ {Max(s)}], l[Max(s)])
      <3>1. s \ {Max(s)} \in SUBSET (1..n) /\ Max(s) \in 1..n
        BY <1>1, <2>2, LastIndex
      <3>. QED BY <1>4, <2>1, <2>2, <3>1 DEF FoldsBy
    <2>3. f = F(f)
      BY <1>1, <2>1, <2>2 DEF FoldsBy
    <2>. QED BY <2>3
  <1>. HIDE DEF h
  <1>7. FoldsIn(h, n, <<>>, A, D)
    <2>1. \A s \in SUBSET (1..n) : s # {} => Max(s) \in 1..n
      BY <1>1, LastIndex
    <2>. QED BY <1>1, <1>4, <1>6, <2>1 DEF FoldsIn
  <1>. DEFINE G == {p \in Nat \X A : Len(p[2]) <= p[1]}
  <1>8. <<0, <<>> >> \in G
    BY <1>1
  <1>9. Keeps(G, n, A, D)
    <2>. SUFFICES ASSUME NEW k \in 0..(n - 1), NEW v \in A, <<k, v>> \in G
                  PROVE  <<k + 1, D[<<v, k + 1>>]>> \in G
      BY DEF Keeps
    <2>1. k \in Nat /\ k + 1 \in 1..n /\ Len(v) <= k /\ Len(v) \in Nat
      BY <1>1 DEF A
    <2>2. PICK w \in A : w = D[<<v, k + 1>>] /\ Len(w) <= Len(v) + 1
      BY <1>2, <1>4, <2>1
    <2>3. Len(w) \in Nat
      BY DEF A
    <2>. QED BY <2>1, <2>2, <2>3
  <1>10. h[1..n] \in A /\ <<n, h[1..n]>> \in G
    <2>. HIDE DEF G
    <2>. QED BY <1>1, <1>3, <1>7, <1>8, <1>9, FoldKeeps
  <1>. QED BY <1>1, <1>5, <1>10 DEF A, n

\* Of the stored addresses at most two are added.
LEMMA StoredFold ==
    ASSUME NEW E, NEW l \in Seq(E), NEW first \in Seq(E)
    PROVE  LET acc == FoldLeft(PushStored, [merged |-> first, added |-> 0], l)
           IN acc.merged \in Seq(E) /\ Len(acc.merged) <= Len(first) + 2
  <1>. DEFINE n == Len(l)
              A == [merged : Seq(E), added : 0..2]
              base == [merged |-> first, added |-> 0]
              F(f) == [s \in SUBSET (DOMAIN l) |->
                         IF s = {} THEN base ELSE PushStored(f[s \ {Max(s)}], l[Max(s)])]
              h == CHOOSE f : f = F(f)
              D == [p \in A \X Nat |-> IF p[2] \in 1..n THEN PushStored(p[1], l[p[2]]) ELSE p[1]]
  <1>1. n \in Nat /\ DOMAIN l = 1..n /\ base \in A /\ \A i \in 1..n : l[i] \in E
    OBVIOUS
  <1>. DEFINE Short(v) == Len(v.merged) <= Len(first) + v.added
  <1>2. \A v \in A, i \in 1..n : /\ PushStored(v, l[i]) \in A
                                 /\ Short(v) => Short(PushStored(v, l[i]))
    <2>1. ASSUME NEW v \in A, NEW e \in E
          PROVE  PushStored(v, e) \in A /\ (Short(v) => Short(PushStored(v, e)))
      <3>1. CASE PushStored(v, e) = v
        BY <3>1
      <3>2. CASE PushStored(v, e) # v
        <4>1. /\ v.added # 2
              /\ PushStored(v, e) = [merged |-> Append(v.merged, e), added |-> v.added + 1]
          BY <3>2 DEF PushStored
        <4>2. v.merged \in Seq(E) /\ v.added \in 0..2
          OBVIOUS
        <4>3. PICK w : w = PushStored(v, e)
          OBVIOUS
        <4>4. w.merged = Append(v.merged, e) /\ w.added = v.added + 1 /\ w \in A
          BY <4>1, <4>2, <4>3
        <4>5. Len(w.merged) = Len(v.merged) + 1 /\ Len(v.merged) \in Nat /\ Len(first) \in Nat
          BY <4>2, <4>4
        <4>6. Short(v) => Short(w)
          BY <4>2, <4>4, <4>5
        <4>. QED BY <4>3, <4>4, <4>6
      <3>. QED BY <3>1, <3>2
    <2>. QED BY <1>1, <2>1
  <1>3. D \in [A \X Nat -> A]
    BY <1>1, <1>2
  <1>4. \A v \in A, i \in 1..n : D[<<v, i>>] = PushStored(v, l[i])
    BY <1>1
  <1>5. FoldLeft(PushStored, base, l) = h[DOMAIN l]
    BY DEF FoldLeft, MapThenFoldSet
  <1>. HIDE DEF A, D, n, base, Short
  <1>6. h = F(h)
    <2>1. PICK f \in [SUBSET (1..n) -> A] : FoldsBy(f, n, base, D)
      BY <1>1, <1>3, FoldDefined
    <2>2. ASSUME NEW s \in SUBSET (1..n), s # {}
          PROVE  f[s] = PushStored(f[s \ {Max(s)}], l[Max(s)])
      <3>1. s \ {Max(s)} \in SUBSET (1..n) /\ Max(s) \in 1..n
        BY <1>1, <2>2, LastIndex
      <3>. QED BY <1>4, <2>1, <2>2, <3>1 DEF FoldsBy
    <2>3. f = F(f)
      BY <1>1, <2>1, <2>2 DEF FoldsBy
    <2>. QED BY <2>3
  <1>. HIDE DEF h
  <1>7. FoldsIn(h, n, base, A, D)
    <2>1. \A s \in SUBSET (1..n) : s # {} => Max(s) \in 1..n
      BY <1>1, LastIndex
    <2>. QED BY <1>1, <1>4, <1>6, <2>1 DEF FoldsIn
  <1>. DEFINE G == {p \in Nat \X A : Short(p[2])}
  <1>8. <<0, base>> \in G
    <2>1. Short(base)
      BY DEF Short, base
    <2>. QED BY <1>1, <2>1
  <1>9. Keeps(G, n, A, D)
    <2>. SUFFICES ASSUME NEW k \in 0..(n - 1), NEW v \in A, <<k, v>> \in G
                  PROVE  <<k + 1, D[<<v, k + 1>>]>> \in G
      BY DEF Keeps
    <2>1. k + 1 \in Nat /\ k + 1 \in 1..n /\ Short(v)
      BY <1>1
    <2>2. D[<<v, k + 1>>] \in A /\ Short(D[<<v, k + 1>>])
      BY <1>2, <1>4, <2>1
    <2>. QED BY <2>1, <2>2
  <1>10. h[1..n] \in A /\ <<n, h[1..n]>> \in G
    <2>. HIDE DEF G
    <2>. QED BY <1>1, <1>3, <1>7, <1>8, <1>9, FoldKeeps
  <1>11. PICK acc \in A : acc = FoldLeft(PushStored, base, l) /\ Short(acc)
    BY <1>1, <1>5, <1>10
  <1>12. acc.merged \in Seq(E) /\ acc.added \in 0..2 /\ Len(acc.merged) \in Nat
         /\ Len(acc.merged) <= Len(first) + acc.added /\ Len(first) \in Nat
    BY <1>11 DEF A, Short
  <1>13. Len(acc.merged) <= Len(first) + 2
    BY <1>12
  <1>. QED BY <1>11, <1>12, <1>13 DEF base

\* A merged list has addresses of both lists only, and at most two more than the listed
\* one.
LEMMA Merges ==
    ASSUME NEW E, NEW listed \in Seq(E), NEW stored \in Seq(E)
    PROVE  /\ MergeDialEndpoints(listed, stored) \in Seq(E)
           /\ Len(MergeDialEndpoints(listed, stored)) <= Len(listed) + 2
  <1>1. PICK first \in Seq(E) : first = FoldLeft(PushListed, <<>>, listed)
                                /\ Len(first) <= Len(listed)
    BY ListedFold
  <1>2. MergeDialEndpoints(listed, stored)
          = FoldLeft(PushStored, [merged |-> first, added |-> 0], stored).merged
    BY <1>1 DEF MergeDialEndpoints
  <1>3. PICK m \in Seq(E) : m = MergeDialEndpoints(listed, stored) /\ Len(m) <= Len(first) + 2
    BY <1>2, StoredFold
  <1>4. Len(m) \in Nat /\ Len(first) \in Nat /\ Len(listed) \in Nat
    OBVIOUS
  <1>. QED BY <1>1, <1>3, <1>4

-----------------------------------------------------------------------------
(* Address lists *)

\* What EndpointsStayBounded allows.
ListBound == Max({Longest(StartEndpoints), Longest(Listings) + 2})

\* The longest of finitely many lists is as long as one of them, and none is longer.
LEMMA LongestBounds ==
    ASSUME NEW lists, lists # {}, IsFiniteSet(lists), \A l \in lists : l \in Seq(Range(l))
    PROVE  Longest(lists) \in Nat /\ \A l \in lists : Len(l) \in Nat /\ Len(l) <= Longest(lists)
  <1>. DEFINE lens == {Len(l) : l \in lists}
  <1>0. \A l \in lists : Len(l) \in Nat
    OBVIOUS
  <1>1. PICK s \in Seq(lists) : \A l \in lists : \E n \in 1..Len(s) : s[n] = l
    BY DEF IsFiniteSet
  <1>. DEFINE T == {k \in Nat : k <= Len(s) => \E b \in Nat : \A i \in 1..k : Len(s[i]) <= b}
  <1>2. 0 \in T
    OBVIOUS
  <1>3. ASSUME NEW k \in T PROVE k + 1 \in T
    <2>1. k \in Nat /\ k + 1 \in Nat
      OBVIOUS
    <2>2. SUFFICES ASSUME k + 1 <= Len(s)
                   PROVE  \E b \in Nat : \A i \in 1..(k + 1) : Len(s[i]) <= b
      BY <2>1
    <2>3. k <= Len(s) /\ Len(s) \in Nat
      BY <2>1, <2>2
    <2>4. PICK b \in Nat : \A i \in 1..k : Len(s[i]) <= b
      BY <1>3, <2>3
    <2>5. PICK m \in Nat : m = Len(s[k + 1])
      <3>1. k + 1 \in 1..Len(s)
        BY <2>1, <2>2, <2>3
      <3>. QED BY <1>0, <1>1, <3>1
    <2>6. \A i \in 1..(k + 1) : i \in 1..k \/ i = k + 1
      BY <2>1
    <2>7. \A i \in 1..k : Len(s[i]) \in Nat
      <3>1. \A i \in 1..k : i \in 1..Len(s)
        BY <2>1, <2>3
      <3>. QED BY <1>0, <1>1, <3>1
    <2>8. \A i \in 1..(k + 1) : Len(s[i]) <= b + m
      <3>1. \A i \in 1..k : Len(s[i]) <= b + m
        BY <2>4, <2>7
      <3>2. Len(s[k + 1]) <= b + m
        BY <2>5
      <3>. QED BY <2>6, <3>1, <3>2, Zenon
    <2>9. b + m \in Nat
      OBVIOUS
    <2>. QED BY <2>8, <2>9
  <1>4. T = Nat
    <2>1. T \subseteq Nat
      OBVIOUS
    <2>. HIDE DEF T
    <2>. QED BY <1>2, <1>3, <2>1, Induction
  <1>5. PICK b \in Nat : \A i \in 1..Len(s) : Len(s[i]) <= b
    <2>1. Len(s) \in Nat /\ Len(s) \in T
      <3>. HIDE DEF T
      <3>. QED BY <1>4
    <2>2. Len(s) <= Len(s)
      BY <2>1
    <2>. QED BY <2>1, <2>2
  <1>6. \A l \in lists : Len(l) <= b
    BY <1>1, <1>5
  <1>7. lens \subseteq Nat /\ lens # {} /\ \A y \in lens : y <= b
    BY <1>0, <1>6
  <1>8. Longest(lists) = Max(lens)
    BY DEF Longest
  <1>9. \A l \in lists : Len(l) \in lens
    OBVIOUS
  <1>. HIDE DEF lens
  <1>10. Max(lens) \in lens /\ \A y \in lens : Max(lens) >= y
    BY <1>7, Largest
  <1>. QED BY <1>0, <1>7, <1>8, <1>9, <1>10

\* Every list that is saved or answered is within the bound, an answered one with two to
\* spare.
LEMMA ListsBounded ==
    /\ ListBound \in Nat
    /\ \A l \in StartEndpoints : l \in Seq(Endpoints) /\ Len(l) <= ListBound
    /\ \A l \in Listings : l \in Seq(Endpoints) /\ Len(l) + 2 <= ListBound
  <1>1. /\ Longest(StartEndpoints) \in Nat
        /\ \A l \in StartEndpoints : Len(l) \in Nat /\ Len(l) <= Longest(StartEndpoints)
    BY ListsAssumption, LongestBounds
  <1>2. /\ Longest(Listings) \in Nat
        /\ \A l \in Listings : Len(l) \in Nat /\ Len(l) <= Longest(Listings)
    BY ListsAssumption, LongestBounds
  <1>3. PICK x \in Nat, y \in Nat : x = Longest(StartEndpoints) /\ y = Longest(Listings)
    BY <1>1, <1>2
  <1>4. ListBound \in Nat /\ x <= ListBound /\ y + 2 <= ListBound
    <2>1. {x, y + 2} \subseteq Nat /\ \A z \in {x, y + 2} : z <= x + y + 2
      OBVIOUS
    <2>2. Max({x, y + 2}) \in {x, y + 2} /\ \A z \in {x, y + 2} : Max({x, y + 2}) >= z
      BY <2>1, Largest
    <2>3. PICK m : m = Max({x, y + 2})
      OBVIOUS
    <2>. QED BY <1>3, <2>2, <2>3 DEF ListBound
  <1>5. \A l \in Listings \cup StartEndpoints : l \in Seq(Endpoints)
    <2>1. ASSUME NEW l \in Listings \cup StartEndpoints PROVE Range(l) \subseteq Endpoints
      BY DEF Endpoints
    <2>2. \A l \in Listings \cup StartEndpoints : l \in Seq(Range(l))
      BY ListsAssumption
    <2>3. ASSUME NEW l \in Listings \cup StartEndpoints PROVE l \in Seq(Endpoints)
      BY <2>1, <2>2
    <2>. QED BY <2>3
  <1>. QED BY <1>1, <1>2, <1>3, <1>4, <1>5

\* Addresses are ones that were saved or answered, and not too many.
Listed(c) == c.ep \in Seq(Endpoints) /\ Len(c.ep) <= ListBound

ListInv ==
    /\ Listed(live) /\ Listed(disk) /\ Listed(opener.cred)
    /\ running # Free => Listed(running.cred)

\* What is owed, and what the opener was installed for, is of a generation so far.
RevInv ==
    /\ pending \in 0..gen \cup {None} /\ clear \in 0..gen \cup {None}
    /\ opener.rev \in 0..gen
    /\ session \in {"open", "closing", "closed"}

\* A pass of the lane makes one access attempt at most.
LaneInv ==
    /\ lanes \in 0..MaxLanes /\ attempt \in Nat
    /\ job.ph \in {"idle", "spawned", "flush", "get", "wait", "addr", "addrwait"}
    /\ attempt <= lanes
    /\ job.ph \in {"spawned", "flush"} => attempt < lanes

\* Merged lists are as short as the journal's, and every other step carries over a list
\* that is already kept.
LEMMA ListStep == StoreInv /\ ListInv /\ [Next]_vars => ListInv'
  <1>. SUFFICES ASSUME StoreInv, ListInv, [Next]_vars PROVE ListInv'
    OBVIOUS
  <1>0. /\ Listed(live) /\ Listed(disk) /\ Listed(opener.cred)
        /\ running # Free => Listed(running.cred)
    BY DEF ListInv
  <1>1. CASE ClaimHead
    <2>1. running = Free /\ queue # <<>> /\ queue \in Seq(Ops) /\ Shape(live)
      BY <1>1 DEF ClaimHead, StoreInv, ShapeInv
    <2>. DEFINE op == Head(queue)
    <2>2. op \in Ops
      BY <2>1
    <2>3. \/ op.kind = "refresh" /\ ClaimRefresh(op)
          \/ op.kind = "ready" /\ ClaimReady(op)
          \/ op.kind = "dial" /\ ClaimDial(op)
          \/ op.kind = "disable" /\ ClaimDisable(op)
          \/ op.kind = "flush" /\ ClaimFlush(op)
      BY <1>1, <2>2, ClaimsByKind
    <2>4. op.kind \in {"refresh", "ready", "disable", "dial", "flush"}
          /\ (op.kind = "dial" => op.ep \in Listings)
      BY <2>2, OpsTyped
    <2>7. disk' = disk /\ opener' = opener
      <3>. HIDE DEF op
      <3>. QED BY <2>3 DEF ClaimRefresh, ClaimReady, ClaimDial, ClaimDisable, ClaimFlush, Drop
    <2>5. CASE Drop
      BY <1>0, <2>5 DEF ListInv, Listed, Drop, store
    <2>6. CASE ~ Drop
      <3>. HIDE DEF op
      <3>1. CASE op.kind = "refresh"
        <4>1. live' = [live EXCEPT !.token = op.token] /\ running'.cred = live'
          BY <2>3, <2>6, <3>1 DEF ClaimRefresh, Claim
        <4>2. live'.ep = live.ep
          BY <2>1, <4>1 DEF Shape
        <4>. QED BY <1>0, <2>7, <4>1, <4>2 DEF ListInv, Listed
      <3>2. CASE op.kind = "ready"
        <4>1. /\ live' = live
              /\ running'.cred = [live EXCEPT !.origin = op.origin, !.token = op.token]
          BY <2>3, <2>6, <3>2 DEF ClaimReady, Claim, store
        <4>2. running'.cred.ep = live.ep
          BY <2>1, <4>1 DEF Shape
        <4>. QED BY <1>0, <2>7, <4>1, <4>2 DEF ListInv, Listed
      <3>3. CASE op.kind = "dial"
        <4>. DEFINE m == MergeDialEndpoints(op.ep, live.ep)
        <4>1. live' = live /\ running'.cred = [live EXCEPT !.ep = m]
          BY <2>3, <2>6, <3>3 DEF ClaimDial, Claim, store
        <4>2. op.ep \in Seq(Endpoints) /\ Len(op.ep) + 2 <= ListBound /\ ListBound \in Nat
          BY <2>4, <3>3, ListsBounded
        <4>3. m \in Seq(Endpoints) /\ Len(m) <= Len(op.ep) + 2
          BY <1>0, <4>2, Merges DEF Listed
        <4>. HIDE DEF m
        <4>4. Len(m) \in Nat /\ Len(op.ep) \in Nat
          BY <4>2, <4>3
        <4>5. Len(m) <= ListBound
          BY <4>2, <4>3, <4>4
        <4>6. running'.cred.ep = m
          BY <2>1, <4>1 DEF Shape
        <4>. QED BY <1>0, <2>7, <4>1, <4>3, <4>5, <4>6 DEF ListInv, Listed
      <3>4. CASE op.kind = "disable"
        <4>1. live' = [live EXCEPT !.origin = None, !.token = None] /\ running'.cred = live'
          BY <2>3, <2>6, <3>4 DEF ClaimDisable, Claim
        <4>2. live'.ep = live.ep
          BY <2>1, <4>1 DEF Shape
        <4>. QED BY <1>0, <2>7, <4>1, <4>2 DEF ListInv, Listed
      <3>5. CASE op.kind = "flush"
        <4>1. live' = live /\ running'.cred = live
          BY <2>3, <2>6, <3>5 DEF ClaimFlush, Claim, store
        <4>. QED BY <1>0, <2>7, <4>1 DEF ListInv, Listed
      <3>. QED BY <2>4, <3>1, <3>2, <3>3, <3>4, <3>5
    <2>. QED BY <2>5, <2>6
  <1>2. CASE DisableInstall
    <2>1. /\ running # Free /\ live' = live /\ disk' = disk
          /\ opener' \in {DisabledOpener(running.cred, gen), InstallDisabled(opener, running.cred, gen)}
          /\ running' = [running EXCEPT !.ph = "write"] \/ running' = Free
      BY <1>2 DEF DisableInstall, store
    <2>2. opener'.cred \in {running.cred, opener.cred}
      BY <2>1 DEF DisabledOpener, InstallDisabled, InstallTransport, Installed, StoreInv, ShapeInv
    <2>3. running' # Free => running'.cred = running.cred
      BY <2>1 DEF StoreInv, ShapeInv
    <2>. QED BY <1>0, <2>1, <2>2, <2>3 DEF ListInv, Listed
  <1>3. CASE Write
    <2>1. /\ running # Free /\ live' = live /\ opener' = opener
          /\ disk' \in {disk, running.cred} /\ running'.cred = running.cred
      BY <1>3 DEF Write, store, StoreInv, ShapeInv
    <2>. QED BY <1>0, <2>1 DEF ListInv, Listed
  <1>4. CASE Finish
    <2>1. running # Free /\ running' = Free /\ disk' = disk
      BY <1>4 DEF Finish
    <2>2. running.op.kind \in {"refresh", "ready", "disable", "dial", "flush"}
      BY <2>1, OpsTyped DEF StoreInv, ShapeInv
    <2>3. \/ FinishRefresh \/ FinishReady \/ FinishDial \/ FinishDisable \/ FinishFlush
      BY <1>4, <2>2 DEF Finish
    <2>4. live' \in {live, running.cred} /\ opener'.cred \in {opener.cred, running.cred}
      BY <2>3 DEF FinishRefresh, FinishReady, FinishDial, FinishDisable, FinishFlush, store,
         InstallTransport, Installed, StoreInv, ShapeInv
    <2>. QED BY <1>0, <2>1, <2>4 DEF ListInv, Listed
  <1>5. CASE Restart
    <2>1. live' = disk /\ disk' = disk /\ opener'.cred = disk /\ running' = Free
      BY <1>5 DEF Restart, FreshOpener
    <2>. QED BY <1>0, <2>1 DEF ListInv, Listed
  <1>6. CASE Lane \/ (\E h \in hooks : TokenHook(h)) \/ SessionClosed \/ UNCHANGED vars
    <2>1. UNCHANGED <<live, disk, opener, running>>
      BY <1>6 DEF Lane, SpawnLane, RelayJobStart, CaptureAccessAttempt, AnswerReady,
         AnswerNotConfigured, RelayJobEnd, DeadlinePasses, RelayJobTimeout, AnswerAddresses,
         AddressJobEnd, TokenHook, SessionClosed, vars, store
    <2>. QED BY <1>0, <2>1 DEF ListInv, Listed
  <1>7. CASE SessionShutdown
    <2>1. UNCHANGED <<live, disk, running>> /\ opener'.cred = opener.cred
      BY <1>7 DEF SessionShutdown, Retired, StoreInv, ShapeInv
    <2>. QED BY <1>0, <2>1 DEF ListInv, Listed
  <1>. QED BY <1>1, <1>2, <1>3, <1>4, <1>5, <1>6, <1>7 DEF Next, Chain

\* Generations only grow within a session, and what is owed is of the newest one.
LEMMA RevStep == StoreInv /\ RevInv /\ [Next]_vars => RevInv'
  <1>. SUFFICES ASSUME StoreInv, RevInv, [Next]_vars PROVE RevInv'
    OBVIOUS
  <1>0. /\ gen \in Nat /\ opener.rev \in 0..gen
        /\ pending \in 0..gen \cup {None} /\ clear \in 0..gen \cup {None}
        /\ session \in {"open", "closing", "closed"}
        /\ opener \in [inc : {opener.inc}, retired : BOOLEAN, mode : {"transport", "disabled"},
                       cred : {opener.cred}, rev : Nat]
    BY DEF StoreInv, ShapeInv, RevInv
  <1>1. ASSUME NEW g \in Nat, gen <= g, gen' = g,
               pending' \in {pending, g, None}, clear' \in {clear, g, None},
               opener'.rev \in {opener.rev, gen, g},
               session' \in {"open", "closing", "closed"}
        PROVE  RevInv'
    <2>1. /\ pending' \in 0..g \cup {None} /\ clear' \in 0..g \cup {None}
          /\ opener'.rev \in 0..g
      BY <1>0, <1>1
    <2>. QED BY <1>1, <2>1 DEF RevInv
  <1>2. gen \in Nat /\ gen <= gen /\ gen + 1 \in Nat /\ gen <= gen + 1
    BY <1>0
  <1>3. CASE ClaimHead
    <2>1. queue # <<>> /\ queue \in Seq(Ops)
      BY <1>3 DEF ClaimHead, StoreInv, ShapeInv
    <2>. DEFINE op == Head(queue)
    <2>2. op \in Ops
      BY <2>1
    <2>3. ClaimRefresh(op) \/ ClaimReady(op) \/ ClaimDial(op) \/ ClaimDisable(op) \/ ClaimFlush(op)
      BY <1>3, <2>2, ClaimsByKind
    <2>. HIDE DEF op
    <2>4. CASE ClaimRefresh(op) \/ ClaimReady(op) \/ ClaimDial(op) \/ ClaimFlush(op)
      <3>1. /\ gen' = gen /\ pending' \in {pending, gen} /\ clear' = clear
            /\ opener' = opener /\ session' = session
        BY <2>4 DEF ClaimRefresh, ClaimReady, ClaimDial, ClaimFlush, Drop, Claim, store
      <3>. QED BY <1>0, <1>1, <1>2, <3>1
    <2>5. CASE ClaimDisable(op)
      <3>1. /\ \/ gen' = gen /\ pending' = pending /\ clear' = clear
               \/ gen' = gen + 1 /\ pending' = None /\ clear' = gen + 1
            /\ opener' = opener /\ session' = session
        BY <2>5 DEF ClaimDisable, Drop, store
      <3>. QED BY <1>0, <1>1, <1>2, <3>1
    <2>. QED BY <2>3, <2>4, <2>5
  <1>4. CASE DisableInstall
    <2>1. /\ UNCHANGED <<gen, pending, clear, session>>
          /\ opener' \in {DisabledOpener(running.cred, gen), InstallDisabled(opener, running.cred, gen)}
      BY <1>4 DEF DisableInstall, store
    <2>2. opener'.rev \in {opener.rev, gen}
      BY <1>0, <2>1 DEF DisabledOpener, InstallDisabled, InstallTransport, Installed
    <2>. QED BY <1>0, <1>1, <1>2, <2>1, <2>2
  <1>5. CASE Finish
    <2>1. running.op.kind \in {"refresh", "ready", "disable", "dial", "flush"}
      BY <1>5, OpsTyped DEF Finish, StoreInv, ShapeInv
    <2>2. \/ FinishRefresh \/ FinishReady \/ FinishDial \/ FinishDisable \/ FinishFlush
      BY <1>5, <2>1 DEF Finish
    <2>3. session' = session
      BY <1>5 DEF Finish
    <2>4. CASE FinishRefresh \/ FinishDial \/ FinishDisable \/ FinishFlush
      <3>1. gen' = gen /\ pending' \in {pending, None} /\ clear' \in {clear, None}
        BY <2>4 DEF FinishRefresh, FinishDial, FinishDisable, FinishFlush, store
      <3>2. opener'.rev \in {opener.rev, gen}
        BY <1>0, <2>4 DEF FinishRefresh, FinishDial, FinishDisable, FinishFlush,
           InstallTransport, Installed
      <3>. QED BY <1>0, <1>1, <1>2, <2>3, <3>1, <3>2
    <2>5. CASE FinishReady
      <3>1. CASE gen' = gen + 1 /\ clear' = None
                 /\ pending' = (IF running.ok THEN None ELSE gen + 1)
                 /\ opener' = InstallTransport(opener, running.cred, gen + 1)
        <4>1. opener'.rev \in {opener.rev, gen + 1}
          BY <1>0, <3>1 DEF InstallTransport, Installed
        <4>. QED BY <1>0, <1>1, <1>2, <2>3, <3>1, <4>1
      <3>2. CASE UNCHANGED <<live, gen, pending, clear, shutdown, attempt, opener, hooks>>
        BY <1>0, <1>1, <1>2, <2>3, <3>2
      <3>. QED BY <2>5, <3>1, <3>2 DEF FinishReady
    <2>. QED BY <2>2, <2>4, <2>5
  <1>6. CASE Restart
    <2>1. gen' = 0 /\ pending' = None /\ clear' = None /\ opener'.rev = 0 /\ session' = "open"
      BY <1>6 DEF Restart, FreshOpener
    <2>. QED BY <2>1 DEF RevInv
  <1>7. CASE Write \/ Lane \/ (\E h \in hooks : TokenHook(h)) \/ SessionShutdown \/ SessionClosed
             \/ UNCHANGED vars
    <2>1. /\ UNCHANGED <<gen, pending, clear>> /\ opener' \in {opener, Retired(opener)}
          /\ session' \in {session, "closing", "closed"}
      BY <1>7 DEF Write, Lane, SpawnLane, RelayJobStart, CaptureAccessAttempt, AnswerReady,
         AnswerNotConfigured, RelayJobEnd, DeadlinePasses, RelayJobTimeout, AnswerAddresses,
         AddressJobEnd, TokenHook, SessionShutdown, SessionClosed, vars, store
    <2>2. opener'.rev = opener.rev
      BY <1>0, <2>1 DEF Retired
    <2>. QED BY <1>0, <1>1, <1>2, <2>1, <2>2
  <1>. QED BY <1>3, <1>4, <1>5, <1>6, <1>7 DEF Next, Chain

\* Access attempts are counted by the passes that make them.
LEMMA LaneStep == StoreInv /\ LaneInv /\ [Next]_vars => LaneInv'
  <1>. SUFFICES ASSUME StoreInv, LaneInv, [Next]_vars PROVE LaneInv'
    OBVIOUS
  <1>0. /\ lanes \in 0..MaxLanes /\ attempt \in Nat /\ attempt <= lanes /\ MaxLanes \in Nat
        /\ job.ph \in {"idle", "spawned", "flush", "get", "wait", "addr", "addrwait"}
        /\ job.ph \in {"spawned", "flush"} => attempt < lanes
    BY BoundsAssumption DEF LaneInv
  <1>1. CASE SpawnLane
    <2>1. lanes < MaxLanes /\ lanes' = lanes + 1 /\ attempt' = attempt /\ job'.ph = "spawned"
      BY <1>1 DEF SpawnLane, LaneTo, store
    <2>2. PICK l \in 0..MaxLanes : lanes' = l /\ l = lanes + 1
      BY <1>0, <2>1
    <2>3. attempt < l
      BY <1>0, <2>2
    <2>. QED BY <1>0, <2>1, <2>2, <2>3 DEF LaneInv
  <1>2. CASE CaptureAccessAttempt
    <2>1. job.ph = "flush" /\ lanes' = lanes /\ attempt' = attempt + 1 /\ job'.ph = "get"
      BY <1>2 DEF CaptureAccessAttempt, LaneTo
    <2>2. PICK k \in Nat : attempt' = k /\ k = attempt + 1 /\ k <= lanes
      BY <1>0, <2>1
    <2>. QED BY <1>0, <2>1, <2>2 DEF LaneInv
  <1>3. CASE RelayJobStart
    <2>1. job.ph = "spawned" /\ lanes' = lanes /\ attempt' = attempt /\ job'.ph = "flush"
      BY <1>3 DEF RelayJobStart, LaneTo, store
    <2>. QED BY <1>0, <2>1 DEF LaneInv
  <1>4. CASE \/ \E o \in Origins : AnswerReady(o)
             \/ AnswerNotConfigured \/ RelayJobEnd \/ RelayJobTimeout
             \/ \E l \in Listings : AnswerAddresses(l)
             \/ AddressJobEnd
    <2>1. lanes' = lanes /\ attempt' = attempt /\ job'.ph \in {"wait", "addr", "addrwait", "idle"}
      <3>1. ASSUME NEW o \in Origins, AnswerReady(o)
            PROVE  lanes' = lanes /\ attempt' = attempt /\ job'.ph \in {"wait", "addr"}
        BY <3>1 DEF AnswerReady, LaneTo, store
      <3>2. ASSUME NEW l \in Listings, AnswerAddresses(l)
            PROVE  lanes' = lanes /\ attempt' = attempt /\ job'.ph = "addrwait"
        BY <3>2 DEF AnswerAddresses, LaneTo, store
      <3>3. CASE AnswerNotConfigured \/ RelayJobEnd \/ RelayJobTimeout \/ AddressJobEnd
        BY <3>3 DEF AnswerNotConfigured, RelayJobEnd, RelayJobTimeout, AddressJobEnd, LaneTo, store
      <3>. QED BY <1>4, <3>1, <3>2, <3>3
    <2>. QED BY <1>0, <2>1 DEF LaneInv
  <1>5. CASE Restart
    <2>1. lanes' = 0 /\ attempt' = 0 /\ job'.ph = "idle"
      BY <1>5 DEF Restart, Idle
    <2>. QED BY <1>0, <2>1 DEF LaneInv
  <1>6. CASE ClaimHead
    <2>1. queue # <<>> /\ queue \in Seq(Ops)
      BY <1>6 DEF ClaimHead, StoreInv, ShapeInv
    <2>. DEFINE op == Head(queue)
    <2>2. op \in Ops
      BY <2>1
    <2>3. ClaimRefresh(op) \/ ClaimReady(op) \/ ClaimDial(op) \/ ClaimDisable(op) \/ ClaimFlush(op)
      BY <1>6, <2>2, ClaimsByKind
    <2>. HIDE DEF op
    <2>4. lanes' = lanes /\ attempt' = attempt /\ job' = job
      BY <2>3 DEF ClaimRefresh, ClaimReady, ClaimDial, ClaimDisable, ClaimFlush, Drop, store
    <2>. QED BY <1>0, <2>4 DEF LaneInv
  <1>7. CASE Finish
    <2>1. running.op.kind \in {"refresh", "ready", "disable", "dial", "flush"}
      BY <1>7, OpsTyped DEF Finish, StoreInv, ShapeInv
    <2>2. lanes' = lanes /\ job' = job
      BY <1>7 DEF Finish
    <2>3. attempt' = attempt
      BY <1>7, <2>1 DEF Finish, FinishRefresh, FinishReady, FinishDial, FinishDisable,
         FinishFlush, store
    <2>. QED BY <1>0, <2>2, <2>3 DEF LaneInv
  <1>8. CASE DisableInstall \/ Write \/ DeadlinePasses \/ (\E h \in hooks : TokenHook(h))
             \/ SessionShutdown \/ SessionClosed \/ UNCHANGED vars
    <2>1. lanes' = lanes /\ attempt' = attempt /\ job' = job
      BY <1>8 DEF DisableInstall, Write, DeadlinePasses, TokenHook, SessionShutdown,
         SessionClosed, vars, store
    <2>. QED BY <1>0, <2>1 DEF LaneInv
  <1>. QED BY <1>1, <1>2, <1>3, <1>4, <1>5, <1>6, <1>7, <1>8 DEF Next, Chain, Lane

-----------------------------------------------------------------------------
(* Theorems *)

\* The shapes, the tokens, the claimed operation, the opener and the unsaved changes are
\* in every reachable state as the code of the owner chain assumes them; the addresses,
\* revisions and attempts are within their bounds.
LEMMA StoreCorrect == Spec => [](StoreInv /\ ListInv /\ RevInv /\ LaneInv)
  <1>1. Init => ListInv /\ RevInv /\ LaneInv
    <2>. SUFFICES ASSUME Init PROVE ListInv /\ RevInv /\ LaneInv
      OBVIOUS
    <2>1. PICK e \in StartEndpoints : disk.ep = e
      BY DEF Init
    <2>2. Listed(disk)
      BY <2>1, ListsBounded DEF Listed
    <2>3. live = disk /\ opener.cred = disk /\ running = Free
      BY DEF Init, FreshOpener
    <2>4. ListInv
      BY <2>2, <2>3 DEF ListInv
    <2>5. RevInv
      BY DEF Init, FreshOpener, RevInv
    <2>6. LaneInv
      <3>1. lanes = 0 /\ attempt = 0 /\ job.ph = "idle"
        BY DEF Init, Idle
      <3>. QED BY <3>1, BoundsAssumption DEF LaneInv
    <2>. QED BY <2>4, <2>5, <2>6
  <1>. QED BY <1>1, StoreInit, StoreStep, ListStep, RevStep, LaneStep, PTL DEF Spec

\* Every variable of the store, the opener and the lane keeps its type.
THEOREM TypeCorrect == Spec => []TypeOK
  <1>1. StoreInv /\ ListInv /\ RevInv /\ LaneInv => TypeOK
    <2>. SUFFICES ASSUME StoreInv, ListInv, RevInv, LaneInv PROVE TypeOK
      OBVIOUS
    <2>1. ASSUME NEW c, Shape(c), Listed(c) PROVE c \in Credentials
      BY <2>1 DEF Shape, Listed, Credentials
    <2>2. live \in Credentials /\ disk \in Credentials /\ opener.cred \in Credentials
      BY <2>1 DEF StoreInv, ShapeInv, ListInv
    <2>3. attempt \in 0..MaxLanes
      BY BoundsAssumption DEF LaneInv
    <2>. QED BY <2>2, <2>3 DEF TypeOK, StoreInv, ShapeInv, RevInv, LaneInv
  <1>. QED BY <1>1, StoreCorrect, PTL

\* However many address lists are merged, the saved one is as short as the pairing's or two
\* longer than the journal's (merge_dial_endpoints).
THEOREM EndpointsBounded == Spec => []EndpointsStayBounded
  <1>1. ListInv => EndpointsStayBounded
    BY DEF ListInv, Listed, ListBound, EndpointsStayBounded
  <1>. QED BY <1>1, StoreCorrect, PTL

\* A device token is only ever kept, saved or dialed with beside the relay that issued it
\* (TokenHook's lease of a generation, checked in submit_refresh).
THEOREM TokensStayHome == Spec => []TokenOfOrigin
  <1>1. StoreInv => TokenOfOrigin
    BY DEF StoreInv, TokenInv, Matched, TokenOfOrigin
  <1>. QED BY <1>1, StoreCorrect, PTL

\* Between two publications the opener dials with the revision, relay and addresses that
\* the store holds (submit_ready, submit_disable, submit_dial_endpoints).
THEOREM DialsFollowStore == Spec => []OpenerFollowsStore
  <1>1. StoreInv => OpenerFollowsStore
    BY DEF StoreInv, ShapeInv, FollowInv, OpenerFollowsStore
  <1>. QED BY <1>1, StoreCorrect, PTL

\* A file whose relay access is not the live one is reported or owed, through failed and
\* half-failed writes, restarts and the session's end (persist_credential, persist_pending).
THEOREM DivergenceIsKnown == Spec => []DivergenceKnown
  <1>1. StoreInv => DivergenceKnown
    BY DEF StoreInv, DebtInv, Owed, DivergenceKnown
  <1>. QED BY <1>1, StoreCorrect, PTL

\* A step that changes the live credential with an answer of the journal changes the one
\* the answer was computed from (access_attempt_is_current).
LEMMA NoUpdateLost ==
    ASSUME StoreInv, Next, live' # live, restarts' = restarts,
           NEW op \in {running, running'} \ {Free}, op.op.kind \in {"ready", "disable", "dial"}
    PROVE  ComputedFrom(op)
  <1>0. ShapeInv /\ ClaimInv
    BY DEF StoreInv
  <1>1. CASE ClaimHead
    <2>1. running = Free /\ op = running' /\ queue # <<>>
      BY <1>1 DEF ClaimHead
    <2>. DEFINE o == Head(queue)
    <2>2. o \in Ops
      BY <1>0, <2>1 DEF ShapeInv
    <2>4. \/ o.kind = "refresh" /\ ClaimRefresh(o)
          \/ o.kind = "disable" /\ ClaimDisable(o)
          \/ ClaimReady(o) \/ ClaimDial(o) \/ ClaimFlush(o)
      BY <1>1, <2>2, ClaimsByKind
    <2>. HIDE DEF o
    <2>5. CASE ClaimReady(o) \/ ClaimDial(o) \/ ClaimFlush(o)
      BY <2>5 DEF ClaimReady, ClaimDial, ClaimFlush, Drop, store
    <2>6. CASE o.kind = "refresh" /\ ClaimRefresh(o)
      <3>1. ~ Drop
        BY DEF Drop, store
      <3>2. running'.op = o
        BY <2>6, <3>1 DEF ClaimRefresh, Claim
      <3>. QED BY <2>1, <2>6, <3>2
    <2>7. CASE o.kind = "disable" /\ ClaimDisable(o)
      <3>1. ~ Drop
        BY DEF Drop, store
      <3>2. AttemptIsCurrent(o.att) /\ running'.op = o /\ running'.base = live
        BY <2>7, <3>1 DEF ClaimDisable
      <3>. QED BY <2>1, <2>7, <3>2 DEF ComputedFrom, AttemptIsCurrent, Relay
    <2>. QED BY <2>4, <2>5, <2>6, <2>7
  <1>2. CASE Finish
    <2>1. running # Free /\ op = running
      BY <1>2 DEF Finish
    <2>2. op.op.kind # "disable"
      BY <1>2, <2>1 DEF Finish, FinishDisable
    <2>3. /\ op.op.kind \in {"ready", "dial"} => op.base = live
          /\ op.op.kind = "ready" =>
                /\ op.op.att.rev = gen
                /\ Relay(live) = [origin |-> op.op.att.origin, token |-> op.op.att.token]
      BY <1>0, <2>1 DEF ClaimInv
    <2>. QED BY <2>2, <2>3 DEF ComputedFrom
  <1>3. CASE DisableInstall \/ Write \/ SessionShutdown \/ SessionClosed \/ \E h \in hooks : TokenHook(h)
    BY <1>3 DEF DisableInstall, Write, SessionShutdown, SessionClosed, TokenHook, store
  <1>4. CASE Lane
    BY <1>4 DEF Lane, SpawnLane, RelayJobStart, CaptureAccessAttempt, AnswerReady,
       AnswerNotConfigured, RelayJobEnd, DeadlinePasses, RelayJobTimeout, AnswerAddresses,
       AddressJobEnd, store
  <1>5. CASE Restart
    <2>1. restarts' = restarts + 1 /\ restarts \in Nat
      BY <1>0, <1>5 DEF Restart, ShapeInv
    <2>. QED BY <2>1
  <1>. QED BY <1>1, <1>2, <1>3, <1>4, <1>5 DEF Next, Chain

\* An accepted refresh, disable or address change is never overwritten by an answer that
\* was computed before it.
THEOREM NoUpdateIsLost == Spec => NoLostUpdate
  <1>1. /\ StoreInv /\ [Next]_vars
        => [live' # live /\ restarts' = restarts =>
              \A op \in {running, running'} \ {Free} :
                  op.op.kind \in {"ready", "disable", "dial"} => ComputedFrom(op)]_vars
    BY NoUpdateLost
  <1>. QED BY <1>1, StoreCorrect, PTL DEF Spec, NoLostUpdate

=============================================================================
