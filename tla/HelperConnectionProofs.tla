----------------------- MODULE HelperConnectionProofs -----------------------
(***************************************************************************)
(* Proofs about HelperConnection, for any number of listeners on a client,  *)
(* of connections to them and of Listen calls.                              *)
(*                                                                          *)
(* The invariant follows a listener through the client's table, the two     *)
(* RPCs and the helper's table. What makes it inductive is to say where a    *)
(* listener is that is in neither table: taken by Close, closed, or between  *)
(* the two steps of Cancel.                                                 *)
(***************************************************************************)
EXTENDS HelperConnection, TLAPS

\* The key a listener is registered under, before and after rekey.
Slot(f) == IF lpc[f] = "listening" THEN Actual[f] ELSE Requested[f]
Held(f) == forwards[Slot(f)] = f
InTable == {"added", "calling", "ok", "err", "listening"}

\* The client's table: who is in it, and where those went who are not.
TableInv ==
  \A f \in Forwards :
    /\ \A k \in Keys : forwards[k] = f =>
         lpc[f] \in InTable /\ k = Slot(f) /\ f \notin fclosed \cup closing /\ cancel[f] = "no"
    /\ lpc[f] \in InTable => Held(f) \/ f \in fclosed \cup closing \/ cancel[f] = "removed"
    /\ cancel[f] # "no" => lpc[f] = "listening"
    /\ cancel[f] \in {"closed", "calling", "done", "failed"} => f \in fclosed
    /\ f \in fclosed => closer # "open" \/ cancel[f] # "no" \/ lpc[f] = "failed"
    /\ f \in fclosed \cup closing => lpc[f] # "idle"

\* How far Close has come: who is registered behind its back never listens.
CloseInv ==
  /\ closer \in {"open", "done"} => closing = {}
  /\ closer \in {"down", "remote", "agent", "done"} => link = "down"
  /\ \A f \in Forwards :
       Held(f) /\ closer \in {"agent", "done"} \cup (IF f \in Agents THEN {} ELSE {"remote"})
         => lpc[f] \notin {"calling", "ok", "listening"}

\* How far a call has come on the two sides.
RpcInv ==
  \A f \in Forwards :
    /\ rpc[f] # "none" => lpc[f] \notin {"idle", "added"}
    /\ lpc[f] \in {"ok", "listening"} => rpc[f] = "ok"
    /\ hrpc[f] # "none" => rpc[f] # "none"
    /\ rpc[f] = "ok" => hrpc[f] = "done" /\ socket[f] # "none"
    /\ hrpc[f] \in {"bound", "started"} => socket[f] # "none"
    /\ hrpc[f] \in {"none", "begun"} => socket[f] = "none"
    /\ run[f] # "none" => hrpc[f] \in {"started", "done"} /\ socket[f] # "none"
    /\ f \in armed => run[f] # "none"
    /\ stop[f] # "none" => cancel[f] \in {"calling", "done", "failed"}

\* An open socket is registered, under its own key.
ListenersInv ==
  \A f \in Forwards :
    /\ \A k \in Keys : listeners[k] = f => k = Actual[f]
    /\ socket[f] = "open" => listeners[Actual[f]] = f

\* Somebody is there who will close an open socket; the agent's may have lost them.
Abandoned(f) ==
  f \in Agents /\ \E k \in Conns : owner[k] = f /\ tcp[k] = "closed" /\ stream[k] = "none"

KeeperInv ==
  \A f \in Forwards : socket[f] = "open" =>
    hrpc[f] = "bound" \/ run[f] \in {"accepts", "accepted"} \/ Abandoned(f)

\* A stop that was answered has closed the socket, unless the link is gone; Cancel may also
\* return without error because the client is closed.
StopInv ==
  \A f \in Forwards :
    /\ stop[f] = "ok" => socket[f] = "closed" \/ link = "down"
    /\ cancel[f] = "done" => socket[f] = "closed" \/ link = "down" \/ closer # "open"

\* A connection was accepted by a running loop, and has its stream from a proxy only.
ConnInv ==
  \A k \in Conns :
    /\ tcp[k] # "none" => owner[k] \in Forwards /\ run[owner[k]] # "none"
    /\ stream[k] # "none" => tcp[k] \in {"proxied", "closed"}

\* A stream goes to the listener its connection was accepted by.
StreamInv ==
  \A k \in Conns :
    /\ target[k] \in {None, owner[k]}
    /\ stream[k] \in {"none", "sent"} => target[k] = None
    /\ stream[k] \in {"dispatched", "queued"} => target[k] \in Forwards
    /\ stream[k] = "queued" => target[k] \notin fclosed
    /\ stream[k] = "reset" =>
         \/ closer # "open" \/ link = "down" \/ cancel[owner[k]] # "no"
         \/ lpc[owner[k]] \in {"err", "removed", "failed"}

\* After Serve returned nothing works, and nothing begins to.
WorkInv == hstate = "closed" => ~Working

IInv ==
  /\ TypeOK /\ TableInv /\ CloseInv /\ RpcInv /\ ListenersInv /\ KeeperInv /\ StopInv
  /\ ConnInv /\ StreamInv /\ WorkInv

-----------------------------------------------------------------------------
\* closeLocal: the listener's own queued streams are reset, and none is left.
Emptied(f) ==
  \A k \in Conns :
    /\ \/ stream'[k] = stream[k]
       \/ stream[k] = "queued" /\ stream'[k] = "reset" /\ owner[k] = f
    /\ stream'[k] = "queued" => target[k] # f

\* Closing a listener in the Pod: its own socket and its own entry.
Freed(f) ==
  /\ socket'[f] = "closed" /\ \A g \in Forwards \ {f} : socket'[g] = socket[g]
  /\ \A k \in Keys : listeners'[k] # f
  /\ \A g \in Forwards \ {f}, k \in Keys : listeners'[k] = g <=> listeners[k] = g

\* Two listeners have no key in common, asked for or given.
LEMMA KeysDiffer ==
  /\ None \notin Forwards
  /\ \A f \in Forwards : Requested[f] \in Keys /\ Actual[f] \in Keys
  /\ \A f \in Agents : f \in Forwards /\ Requested[f] = Actual[f]
  /\ \A f, g \in Forwards : f # g =>
       Requested[f] # Requested[g] /\ Requested[f] # Actual[g] /\ Actual[f] # Actual[g]
<1>1. \A f, g \in Forwards : f # g =>
        Requested[f] # Requested[g] /\ Requested[f] # Actual[g] /\ Actual[f] # Actual[g]
  BY ForwardsAssumption, Zenon
<1> QED  BY <1>1, ForwardsAssumption, Zenon

\* Closing a listener in the Pod does what Freed says.
LEMMA Released == ASSUME IInv, NEW f \in Forwards, Release(f) PROVE Freed(f)
<1>1. \A k \in Keys : listeners'[k] = IF listeners[k] = f THEN None ELSE listeners[k]
  BY Zenon DEF Release
<1>2. socket'[f] = "closed" /\ \A g \in Forwards \ {f} : socket'[g] = socket[g]
  BY Zenon DEF IInv, TypeOK, HelperTypes, Release
<1> QED  BY <1>1, <1>2, KeysDiffer DEF Freed

\* With a socket closed, and at most its own entry gone, the open ones are still registered.
LEMMA OthersRegistered ==
  ASSUME IInv, NEW f \in Forwards, socket'[f] = "closed",
         \A g \in Forwards \ {f} : socket'[g] = socket[g],
         Freed(f) \/ listeners' = listeners
  PROVE  ListenersInv'
<1>1. /\ \A g \in Forwards, k \in Keys : listeners'[k] = g => listeners[k] = g
      /\ \A g \in Forwards \ {f}, k \in Keys : listeners[k] = g => listeners'[k] = g
  BY Zenon DEF Freed
<1>2. ASSUME NEW g \in Forwards PROVE ListenersInv!(g)'
  <2>1. ListenersInv!(g) /\ Actual[g] \in Keys
    BY KeysDiffer, Zenon DEF IInv, ListenersInv
  <2>2. CASE g = f
    BY <1>1, <2>1, <2>2, Zenon
  <2>3. CASE g # f
    BY <1>1, <2>1, <2>3, Zenon
  <2> QED  BY <2>2, <2>3, Zenon
<1> QED  BY <1>2, Zenon DEF ListenersInv

\* closeLocal does what Emptied says.
LEMMA LocallyClosed ==
  ASSUME IInv, NEW f \in Forwards, CloseLocal(f)
  PROVE  Emptied(f) /\ fclosed' = fclosed \cup {f}
<1>1. ASSUME NEW k \in Conns
      PROVE  stream'[k] = IF stream[k] = "queued" /\ target[k] = f THEN "reset" ELSE stream[k]
  BY Zenon DEF CloseLocal
<1>2. ASSUME NEW k \in Conns, target[k] = f PROVE owner[k] = f
  BY <1>2, KeysDiffer, Zenon DEF IInv, StreamInv
<1>3. Emptied(f)
  BY <1>1, <1>2, Zenon DEF Emptied
<1> QED  BY <1>3, Zenon DEF CloseLocal

\* Each part of the invariant speaks of some of the variables only.
LEMMA Frames ==
  ASSUME IInv
  PROVE  /\ UNCHANGED <<forwards, lpc, fclosed, accept, cancel, closer, closing, cstate>>
              => ClientTypes'
         /\ UNCHANGED <<link, rpc, stop>> => WireTypes'
         /\ UNCHANGED <<hstate, hctx, fatal, hrpc, socket, listeners, run, armed>>
              => HelperTypes'
         /\ UNCHANGED <<tcp, owner, stream, target>> => ConnTypes'
         /\ UNCHANGED <<forwards, lpc, fclosed, cancel, closer, closing>> => TableInv'
         /\ UNCHANGED <<closer, closing, link, forwards, lpc>> => CloseInv'
         /\ UNCHANGED <<rpc, lpc, hrpc, socket, run, armed, stop, cancel>> => RpcInv'
         /\ UNCHANGED <<listeners, socket>> => ListenersInv'
         /\ UNCHANGED <<socket, hrpc, run, owner, tcp, stream>> => KeeperInv'
         /\ UNCHANGED <<stop, cancel, socket, link, closer>> => StopInv'
         /\ UNCHANGED <<tcp, owner, run, stream>> => ConnInv'
         /\ UNCHANGED <<stream, target, owner, fclosed, closer, link, cancel, lpc>>
              => StreamInv'
         /\ UNCHANGED <<hstate, hrpc, run, stop, tcp>> => WorkInv'
<1>1. UNCHANGED <<forwards, lpc, fclosed, accept, cancel, closer, closing, cstate>> => ClientTypes'
  BY Zenon DEF IInv, TypeOK, ClientTypes
<1>2. UNCHANGED <<link, rpc, stop>> => WireTypes'
  BY Zenon DEF IInv, TypeOK, WireTypes
<1>3. UNCHANGED <<hstate, hctx, fatal, hrpc, socket, listeners, run, armed>> => HelperTypes'
  BY Zenon DEF IInv, TypeOK, HelperTypes
<1>4. UNCHANGED <<tcp, owner, stream, target>> => ConnTypes'
  BY Zenon DEF IInv, TypeOK, ConnTypes
<1>5. UNCHANGED <<forwards, lpc, fclosed, cancel, closer, closing>> => TableInv'
  BY DEF IInv, TableInv, Slot, Held
<1>6. UNCHANGED <<closer, closing, link, forwards, lpc>> => CloseInv'
  BY Zenon DEF IInv, CloseInv, Slot, Held
<1>7. UNCHANGED <<rpc, lpc, hrpc, socket, run, armed, stop, cancel>> => RpcInv'
  BY Zenon DEF IInv, RpcInv
<1>8. UNCHANGED <<listeners, socket>> => ListenersInv'
  BY Zenon DEF IInv, ListenersInv
<1>9. UNCHANGED <<socket, hrpc, run, owner, tcp, stream>> => KeeperInv'
  BY DEF IInv, KeeperInv, Abandoned
<1>10. UNCHANGED <<stop, cancel, socket, link, closer>> => StopInv'
  BY Zenon DEF IInv, StopInv
<1>11. UNCHANGED <<tcp, owner, run, stream>> => ConnInv'
  BY Zenon DEF IInv, ConnInv
<1>12. UNCHANGED <<stream, target, owner, fclosed, closer, link, cancel, lpc>> => StreamInv'
  BY Zenon DEF IInv, StreamInv
<1>13. UNCHANGED <<hstate, hrpc, run, stop, tcp>> => WorkInv'
  BY Zenon DEF IInv, WorkInv, Working
<1> QED  BY <1>1, <1>2, <1>3, <1>4, <1>5, <1>6, <1>7, <1>8,
            <1>9, <1>10, <1>11, <1>12, <1>13, Zenon

\* handleStop closes the listener it was asked to close, whichever way it was found.
LEMMA StopReleases ==
  ASSUME IInv, NEW f \in Forwards, HandleStop(f)
  PROVE  /\ socket[f] # "none" /\ socket'[f] = "closed"
         /\ \A g \in Forwards \ {f} : socket'[g] = socket[g]
         /\ \A g \in Forwards, k \in Keys : listeners'[k] = g => listeners[k] = g
         /\ \A g \in Forwards \ {f}, k \in Keys : listeners[k] = g => listeners'[k] = g
<1>1. socket[f] \in {"none", "open", "closed"} /\ listeners[Actual[f]] \in Forwards \cup {None}
  BY KeysDiffer, Zenon DEF IInv, TypeOK, HelperTypes
<1>2. stop[f] = "running"
  BY Zenon DEF HandleStop
<1>3. socket[f] # "none"
  BY <1>2, Zenon DEF IInv, RpcInv, TableInv
<1>4. CASE listeners[Actual[f]] = None
  <2>1. socket[f] = "closed"
    BY <1>1, <1>3, <1>4, KeysDiffer, Zenon DEF IInv, ListenersInv
  <2>2. socket' = socket /\ listeners' = listeners
    BY <1>4, Zenon DEF HandleStop
  <2> QED  BY <1>3, <2>1, <2>2, Zenon
<1>5. CASE listeners[Actual[f]] # None
  <2>1. listeners[Actual[f]] = f
    BY <1>1, <1>5, KeysDiffer DEF IInv, ListenersInv
  <2>2. Release(f)
    BY <1>5, <2>1, Zenon DEF HandleStop, StopCloses
  <2> QED  BY <1>3, <2>2, Released, Zenon DEF Freed
<1> QED  BY <1>4, <1>5, Zenon

-----------------------------------------------------------------------------
\* The steps of Listen: a listener is registered under a key of its own, the
\* response says ok only after the helper has started, and rekey moves a listener that
\* is still registered and never brings back a closed one.
LEMMA ListenKeeps ==
  ASSUME IInv, NEW f \in Forwards,
         Add(f) \/ CallListen(f) \/ ListenReturns(f) \/ ListenCanceled(f) \/ Rekey(f) \/
         RemoveIfMatch(f)
  PROVE  IInv'
<1>1. UNCHANGED <<fclosed, cancel, closer, closing, cstate, link, stop, hstate, hctx, fatal,
                  hrpc, socket, listeners, run, armed, tcp, owner, stream, target>>
  BY Zenon DEF Add, CallListen, ListenReturns, ListenCanceled, Rekey, RemoveIfMatch, closeVars,
         connVars, helperSide, helperVars, listenVars, wire
<1>2. /\ lpc \in [Forwards -> {"idle", "added", "calling", "ok", "err", "removed", "listening",
                               "failed"}]
      /\ rpc \in [Forwards -> {"none", "sent", "ok", "err"}]
      /\ forwards \in [Keys -> Forwards \cup {None}]
      /\ accept \in [Forwards -> {"no", "checks", "waits", "returned"}]
  BY Zenon DEF IInv, TypeOK, ClientTypes, WireTypes
<1>3. \A g \in Forwards \ {f} : lpc'[g] = lpc[g] /\ rpc'[g] = rpc[g]
  BY <1>2, Zenon
     DEF Add, CallListen, ListenReturns, ListenCanceled, Rekey, RemoveIfMatch, wire
<1>4. \/ lpc[f] = "idle" /\ lpc'[f] \in {"added", "failed"} /\ rpc' = rpc
      \/ lpc[f] = "added" /\ lpc'[f] = "calling" /\ rpc'[f] = "sent" /\ link = "up"
      \/ lpc[f] = "added" /\ lpc'[f] = "err" /\ rpc' = rpc
      \/ lpc[f] = "calling" /\ lpc'[f] = "ok" /\ rpc[f] = "ok" /\ rpc' = rpc
      \/ lpc[f] = "calling" /\ lpc'[f] = "err" /\ rpc' = rpc
      \/ lpc[f] = "ok" /\ lpc'[f] \in {"listening", "removed"} /\ rpc' = rpc
      \/ lpc[f] = "err" /\ lpc'[f] = "removed" /\ rpc' = rpc
  BY <1>2, Zenon
     DEF Add, CallListen, ListenReturns, ListenCanceled, Rekey, RemoveIfMatch, wire
<1>5. forwards' \in [Keys -> Forwards \cup {None}]
  <2>1. CASE Add(f)
    BY <1>2, <2>1, KeysDiffer DEF Add
  <2>2. CASE RemoveIfMatch(f)
    BY <1>2, <2>2, KeysDiffer, Zenon DEF RemoveIfMatch
  <2>3. CASE Rekey(f)
    BY <1>2, <2>3, KeysDiffer DEF Rekey
  <2> QED  BY <1>2, <2>1, <2>2, <2>3, Zenon DEF CallListen, ListenReturns, ListenCanceled
<1>6. ClientTypes' /\ WireTypes'
  <2>1. /\ lpc' \in [Forwards -> {"idle", "added", "calling", "ok", "err", "removed",
                                  "listening", "failed"}]
        /\ rpc' \in [Forwards -> {"none", "sent", "ok", "err"}]
    BY <1>2, Zenon DEF Add, CallListen, ListenReturns, ListenCanceled, Rekey, RemoveIfMatch, wire
  <2>2. accept' \in [Forwards -> {"no", "checks", "waits", "returned"}]
    BY <1>2, Zenon DEF Add, CallListen, ListenReturns, ListenCanceled, Rekey, RemoveIfMatch
  <2> QED  BY <1>1, <1>5, <2>1, <2>2, Zenon DEF IInv, TypeOK, ClientTypes, WireTypes
<1>7. \A g \in Forwards : Slot(g) \in Keys /\ (g # f => Slot(g)' = Slot(g))
  BY <1>3, KeysDiffer, Zenon DEF Slot
<1>8. TableInv' /\ \A g \in Forwards \ {f} : Held(g)' => Held(g)
  <2>1. CASE Rekey(f)
    <3>1. lpc[f] = "ok" /\ cancel[f] = "no" /\ Slot(f) = Requested[f] /\ (f \in fclosed => closer # "open")
      BY <2>1, Zenon DEF IInv, TableInv, Rekey, Slot
    <3>2. CASE f \notin Agents /\ ~StillRegistered(f)
      <4>1. forwards' = forwards /\ lpc'[f] = "removed" /\ \A k \in Keys : forwards[k] # f
        BY <1>2, <2>1, <3>1, <3>2, Zenon DEF Rekey, IInv, TableInv, StillRegistered
      <4>2. \A g \in Forwards \ {f} : Held(g)' <=> Held(g)
        BY <1>7, <4>1, Zenon DEF Held
      <4> QED  BY <1>1, <1>3, <1>7, <3>1, <4>1, <4>2 DEF IInv, TableInv, InTable
    <3>3. CASE f \in Agents
      <4>1. forwards' = forwards /\ lpc'[f] = "listening"
        BY <1>2, <2>1, <3>3, Zenon DEF Rekey
      <4>2. \A g \in Forwards : Slot(g)' = Slot(g) /\ (Held(g)' <=> Held(g))
        BY <1>7, <3>1, <3>3, <4>1, KeysDiffer, Zenon DEF Held, Slot
      <4> QED  BY <1>1, <1>3, <3>1, <4>1, <4>2 DEF IInv, TableInv, InTable
    <3>4. CASE f \notin Agents /\ StillRegistered(f)
      <4>1. /\ forwards' = [forwards EXCEPT ![Requested[f]] = None, ![Actual[f]] = f]
            /\ lpc'[f] = "listening"
        BY <1>2, <2>1, <3>4, Zenon DEF Rekey
      <4>2. f \notin fclosed \cup closing /\ \A k \in Keys : forwards[k] = f => k = Requested[f]
        BY <3>1, <3>4, KeysDiffer, Zenon DEF IInv, TableInv, StillRegistered
      <4>3. forwards'[Actual[f]] = f /\ \A k \in Keys : forwards'[k] = f => k = Actual[f]
        BY <1>2, <4>1, <4>2, KeysDiffer
      <4>4. \A g \in Forwards \ {f} : forwards[Actual[f]] # g /\ forwards[Requested[f]] # g
        <5>1. \A g \in Forwards, k \in Keys : forwards[k] = g => k = Slot(g)
          BY Zenon DEF IInv, TableInv
        <5>2. \A g \in Forwards \ {f} : Slot(g) # Actual[f] /\ Slot(g) # Requested[f]
          BY KeysDiffer, Zenon DEF Slot
        <5> QED  BY <5>1, <5>2, KeysDiffer, Zenon
      <4>5. \A g \in Forwards \ {f}, k \in Keys : forwards'[k] = g <=> forwards[k] = g
        BY <1>2, <4>1, <4>4, KeysDiffer
      <4>6. \A g \in Forwards \ {f} : Held(g)' <=> Held(g)
        BY <1>7, <4>5, Zenon DEF Held
      <4>7. Slot(f)' = Actual[f] /\ Held(f)'
        BY <4>1, <4>3, Zenon DEF Slot, Held
      <4>8. TableInv!(f)'
        BY <1>1, <3>1, <4>1, <4>2, <4>3, <4>7, Zenon DEF InTable
      <4> QED  BY <1>1, <1>3, <1>7, <4>5, <4>6, <4>8 DEF IInv, TableInv
    <3> QED  BY <3>2, <3>3, <3>4, Zenon
  <2>2. CASE Add(f)
    <3>1. Requested[f] \in Keys /\ lpc[f] = "idle" /\ \A k \in Keys : forwards[k] # f
      BY <2>2, KeysDiffer, Zenon DEF Add, IInv, TableInv, InTable
    <3>2. /\ lpc'[f] = "added" => Held(f)'
          /\ \A k \in Keys : forwards'[k] = f => k = Requested[f] /\ lpc'[f] = "added"
      BY <1>2, <2>2, <3>1, Zenon DEF Add, Held, Slot
    <3>3. \A g \in Forwards \ {f}, k \in Keys : forwards'[k] = g <=> forwards[k] = g
      BY <1>2, <2>2, <3>1, KeysDiffer DEF Add
    <3>4. \A g \in Forwards \ {f} : Held(g)' <=> Held(g)
      BY <1>7, <3>3, Zenon DEF Held
    <3>5. f \notin fclosed \cup closing /\ cancel[f] = "no"
      BY <3>1, Zenon DEF IInv, TableInv
    <3>6. lpc'[f] \in {"added", "failed"}
      BY <1>4, <3>1, Zenon
    <3>7. Slot(f)' = Requested[f]
      BY <3>6, Zenon DEF Slot
    <3> QED  BY <1>1, <1>3, <1>7, <3>2, <3>3, <3>4, <3>5, <3>6, <3>7
             DEF IInv, TableInv, InTable
  <2>3. CASE CallListen(f) \/ ListenReturns(f) \/ ListenCanceled(f)
    <3>1. /\ forwards' = forwards
          /\ lpc[f] \in InTable \ {"listening"} /\ lpc'[f] \in InTable \ {"listening"}
      BY <1>2, <2>3, Zenon DEF CallListen, ListenReturns, ListenCanceled, InTable
    <3>2. \A g \in Forwards : Slot(g)' = Slot(g) /\ (Held(g)' <=> Held(g))
      BY <1>7, <3>1, Zenon DEF Held, Slot
    <3>3. cancel[f] = "no" /\ (f \in fclosed => closer # "open")
      BY <3>1, Zenon DEF IInv, TableInv, InTable
    <3> QED  BY <1>1, <1>3, <3>1, <3>2, <3>3 DEF IInv, TableInv, InTable
  <2>4. CASE RemoveIfMatch(f)
    <3>1. lpc[f] = "err" /\ lpc'[f] = "removed" /\ Slot(f) = Requested[f]
      BY <1>2, <2>4, Zenon DEF RemoveIfMatch, Slot
    <3>2. \A k \in Keys : forwards'[k] # f
      <4>1. \A k \in Keys : forwards[k] = f => k = Requested[f]
        BY <3>1, Zenon DEF IInv, TableInv
      <4> QED  BY <1>2, <2>4, <4>1, KeysDiffer DEF RemoveIfMatch, StillRegistered
    <3>3. \A g \in Forwards \ {f}, k \in Keys : forwards'[k] = g <=> forwards[k] = g
      BY <1>2, <2>4, KeysDiffer DEF RemoveIfMatch, StillRegistered
    <3>4. \A g \in Forwards \ {f} : Held(g)' <=> Held(g)
      BY <1>7, <3>3, Zenon DEF Held
    <3>5. cancel[f] = "no" /\ (f \in fclosed => closer # "open")
      BY <3>1, Zenon DEF IInv, TableInv
    <3> QED  BY <1>1, <1>3, <1>7, <3>1, <3>2, <3>3, <3>4, <3>5 DEF IInv, TableInv, InTable
  <2> QED  BY <2>1, <2>2, <2>3, <2>4, Zenon
<1>9. CloseInv'
  <2>1. ASSUME Held(f)', closer \in {"agent", "done"} \cup (IF f \in Agents THEN {} ELSE {"remote"})
        PROVE  lpc'[f] \notin {"calling", "ok", "listening"}
    <3>1. closer \in {"remote", "agent", "done"} /\ link = "down"
      BY <2>1, Zenon DEF IInv, CloseInv
    <3>2. lpc'[f] = "ok" => lpc[f] = "calling" /\ Held(f)
      BY <1>2, <1>4, <2>1, Zenon
         DEF Add, CallListen, ListenReturns, ListenCanceled, Rekey, RemoveIfMatch, Held, Slot
    <3>3. lpc'[f] = "listening" => lpc[f] = "ok" /\ Held(f)
      BY <1>2, <1>4, <2>1, KeysDiffer, Zenon
         DEF Add, CallListen, ListenReturns, ListenCanceled, Rekey, RemoveIfMatch, Held, Slot,
             StillRegistered
    <3> QED  BY <1>4, <2>1, <3>1, <3>2, <3>3, Zenon DEF IInv, CloseInv
  <2> QED  BY <1>1, <1>3, <1>8, <2>1 DEF IInv, CloseInv
<1>10. RpcInv'
  BY <1>1, <1>3, <1>4 DEF IInv, RpcInv
<1>11. StreamInv'
  <2>1. \A k \in Conns : stream[k] # "none" => owner[k] \in Forwards
    BY Zenon DEF IInv, ConnInv
  <2>2. \A g \in Forwards : lpc[g] \in {"err", "removed", "failed"}
                              => lpc'[g] \in {"err", "removed", "failed"}
    BY <1>3, <1>4, Zenon
  <2> QED  BY <1>1, <2>1, <2>2, Zenon DEF IInv, StreamInv
<1>12. HelperTypes' /\ ConnTypes' /\ ListenersInv' /\ KeeperInv' /\ StopInv' /\ ConnInv' /\
      WorkInv'
  BY <1>1, Frames, Zenon
<1> QED  BY <1>6, <1>8, <1>9, <1>10, <1>11, <1>12, Zenon DEF IInv, TypeOK

\* closeLocal, from Listen, Cancel or Close: the listener is in no table any more.
LEMMA LocalCloseKeeps ==
  ASSUME IInv, NEW f \in Forwards,
         ListenFails(f) \/ CancelCloses(f) \/ CloseTaken(f)
  PROVE  IInv'
<1>1. UNCHANGED <<forwards, closer, cstate, link, rpc, stop, hstate, hctx, fatal, hrpc,
                  socket, listeners, run, armed, tcp, owner, target>>
  BY Zenon DEF ListenFails, CancelCloses, CloseTaken, CloseLocal, closeVars, helperSide, helperVars,
         listenVars, wire
<1>2. ClientTypes'
  <2>1. CloseLocal(f)
    BY Zenon DEF ListenFails, CancelCloses, CloseTaken
  <2>2. fclosed' \subseteq Forwards /\ accept' \in [Forwards -> {"no", "checks", "waits", "returned"}]
    BY <2>1, Zenon DEF IInv, TypeOK, ClientTypes, CloseLocal
  <2> QED  BY <1>1, <2>2, Zenon DEF IInv, TypeOK, ClientTypes, ListenFails, CancelCloses, CloseTaken,
                             closeVars
<1>3. ConnTypes'
  BY <1>1, Zenon DEF IInv, TypeOK, ConnTypes, ListenFails, CancelCloses, CloseTaken, CloseLocal
<1>4. TableInv'
  <2>1. CASE CloseTaken(f)
    <3>1. /\ fclosed' = fclosed \cup {f} /\ closing' = closing \ {f} /\ f \in closing
          /\ lpc' = lpc /\ cancel' = cancel
      BY <2>1, Zenon DEF CloseTaken, CloseLocal
    <3>2. fclosed' \cup closing' = fclosed \cup closing
      BY <3>1, Zenon
    <3>3. closer # "open"
      BY <3>1, Zenon DEF IInv, CloseInv
    <3>4. \A g \in Forwards : Slot(g)' = Slot(g) /\ Held(g)' = Held(g)
      BY <1>1, <3>1, Zenon DEF Slot, Held
    <3>5. ASSUME NEW g \in Forwards PROVE TableInv!(g)'
      <4>1. TableInv!(g)
        BY Zenon DEF IInv, TableInv
      <4> QED  BY <1>1, <3>1, <3>2, <3>3, <3>4, <4>1, Zenon
    <3> QED  BY <3>5, Zenon DEF TableInv
  <2>2. CASE ListenFails(f)
    <3>1. /\ lpc[f] = "removed" /\ lpc'[f] = "failed"
          /\ \A g \in Forwards \ {f} : lpc'[g] = lpc[g]
          /\ cancel' = cancel /\ closing' = closing /\ fclosed' = fclosed \cup {f}
      BY <2>2, Zenon DEF IInv, TypeOK, ClientTypes, ListenFails, CloseLocal, closeVars
    <3>2. \A g \in Forwards \ {f} : Slot(g)' = Slot(g) /\ (Held(g)' <=> Held(g))
      BY <1>1, <3>1, Zenon DEF Slot, Held
    <3>3. cancel[f] = "no" /\ \A k \in Keys : forwards[k] # f
      BY <3>1, Zenon DEF IInv, TableInv, InTable
    <3>4. TableInv!(f)'
      BY <1>1, <3>1, <3>3, Zenon DEF InTable
    <3>5. ASSUME NEW g \in Forwards \ {f} PROVE TableInv!(g)'
      <4>1. TableInv!(g)
        BY Zenon DEF IInv, TableInv
      <4> QED  BY <1>1, <3>1, <3>2, <4>1, Zenon
    <3> QED  BY <3>4, <3>5, Zenon DEF TableInv
  <2>3. CASE CancelCloses(f)
    <3>1. /\ cancel[f] = "removed" /\ cancel'[f] = "closed"
          /\ \A g \in Forwards \ {f} : cancel'[g] = cancel[g]
          /\ lpc' = lpc /\ closing' = closing /\ fclosed' = fclosed \cup {f}
      BY <2>3, Zenon DEF IInv, TypeOK, ClientTypes, CancelCloses, CloseLocal, closeVars
    <3>2. \A g \in Forwards : Slot(g)' = Slot(g) /\ (Held(g)' <=> Held(g))
      BY <1>1, <3>1, Zenon DEF Slot, Held
    <3>3. lpc[f] = "listening" /\ \A k \in Keys : forwards[k] # f
      BY <3>1, Zenon DEF IInv, TableInv
    <3>4. TableInv!(f)'
      BY <1>1, <3>1, <3>3, Zenon
    <3>5. ASSUME NEW g \in Forwards \ {f} PROVE TableInv!(g)'
      <4>1. TableInv!(g)
        BY Zenon DEF IInv, TableInv
      <4> QED  BY <1>1, <3>1, <3>2, <4>1, Zenon
    <3> QED  BY <3>4, <3>5, Zenon DEF TableInv
  <2> QED  BY <2>1, <2>2, <2>3, Zenon
<1>5. CloseInv'
  <2>1. closing' \subseteq closing
    BY Zenon DEF ListenFails, CancelCloses, CloseTaken, closeVars
  <2>2. \A g \in Forwards : lpc'[g] # "failed" => lpc'[g] = lpc[g]
    BY Zenon DEF IInv, TypeOK, ClientTypes, ListenFails, CancelCloses, CloseTaken
  <2>3. ASSUME NEW g \in Forwards, Held(g)', lpc'[g] # "failed" PROVE Held(g) /\ lpc'[g] = lpc[g]
    BY <1>1, <2>2, <2>3, Zenon DEF Held, Slot
  <2> QED  BY <1>1, <2>1, <2>3, Zenon DEF IInv, CloseInv
<1>6. RpcInv'
  <2>1. /\ \A g \in Forwards : lpc'[g] = lpc[g] \/ (lpc[g] = "removed" /\ lpc'[g] = "failed")
        /\ \A g \in Forwards : cancel[g] # "removed" => cancel'[g] = cancel[g]
    BY Zenon DEF IInv, TypeOK, ClientTypes, ListenFails, CancelCloses, CloseTaken, closeVars
  <2>2. ASSUME NEW g \in Forwards PROVE RpcInv!(g)'
    <3>1. RpcInv!(g)
      BY Zenon DEF IInv, RpcInv
    <3> QED  BY <1>1, <2>1, <3>1, Zenon
  <2> QED  BY <2>2, Zenon DEF RpcInv
<1>7. KeeperInv'
  <2>1. CloseLocal(f)
    BY Zenon DEF ListenFails, CancelCloses, CloseTaken
  <2>2. Emptied(f)
    BY <2>1, LocallyClosed, Zenon
  <2>3. \A k \in Conns : stream[k] = "none" => stream'[k] = "none"
    BY <2>2, Zenon DEF Emptied
  <2>4. \A g \in Forwards : Abandoned(g) => Abandoned(g)'
    BY <1>1, <2>3, Zenon DEF Abandoned
  <2> QED  BY <1>1, <2>4, Zenon DEF IInv, KeeperInv
<1>8. StopInv'
  BY <1>1, Zenon DEF IInv, TypeOK, ClientTypes, StopInv, ListenFails, CancelCloses, CloseTaken,
         CloseLocal
<1>9. ConnInv'
  <2>1. CloseLocal(f)
    BY Zenon DEF ListenFails, CancelCloses, CloseTaken
  <2>2. Emptied(f)
    BY <2>1, LocallyClosed, Zenon
  <2> QED  BY <1>1, <2>2, Zenon DEF IInv, ConnInv, Emptied
<1>10. StreamInv'
  <2>1. CASE ListenFails(f)
    <3>1. CloseLocal(f) /\ lpc[f] = "removed"
      BY <2>1, Zenon DEF ListenFails
    <3>2. Emptied(f) /\ fclosed' = fclosed \cup {f}
      BY <3>1, LocallyClosed, Zenon
    <3>3. lpc'[f] = "failed" /\ \A g \in Forwards \ {f} : lpc'[g] = lpc[g]
      BY <2>1, Zenon DEF IInv, TypeOK, ClientTypes, ListenFails
    <3>4. \A k \in Conns : stream[k] # "none" => owner[k] \in Forwards
      BY Zenon DEF IInv, ConnInv
    <3>5. cancel' = cancel
      BY <2>1, Zenon DEF ListenFails, closeVars
    <3>6. ASSUME NEW k \in Conns PROVE StreamInv!(k)'
      <4>1. StreamInv!(k)
        BY Zenon DEF IInv, StreamInv
      <4>2. CASE stream'[k] = stream[k]
        BY <1>1, <3>1, <3>2, <3>3, <3>4, <3>5, <4>1, <4>2, Zenon DEF Emptied
      <4>3. CASE stream[k] = "queued" /\ stream'[k] = "reset" /\ owner[k] = f
        BY <1>1, <3>3, <4>1, <4>3, Zenon
      <4> QED  BY <3>2, <4>2, <4>3, Zenon DEF Emptied
    <3> QED  BY <3>6, Zenon DEF StreamInv
  <2>2. CASE CancelCloses(f)
    <3>1. CloseLocal(f) /\ cancel[f] = "removed"
      BY <2>2, Zenon DEF CancelCloses
    <3>2. Emptied(f) /\ fclosed' = fclosed \cup {f}
      BY <3>1, LocallyClosed, Zenon
    <3>3. cancel'[f] = "closed" /\ \A g \in Forwards \ {f} : cancel'[g] = cancel[g]
      BY <2>2, Zenon DEF IInv, TypeOK, ClientTypes, CancelCloses
    <3>4. \A k \in Conns : stream[k] # "none" => owner[k] \in Forwards
      BY Zenon DEF IInv, ConnInv
    <3>5. lpc' = lpc
      BY <2>2, Zenon DEF CancelCloses
    <3>6. ASSUME NEW k \in Conns PROVE StreamInv!(k)'
      <4>1. StreamInv!(k)
        BY Zenon DEF IInv, StreamInv
      <4>2. CASE stream'[k] = stream[k]
        BY <1>1, <3>1, <3>2, <3>3, <3>4, <3>5, <4>1, <4>2, Zenon DEF Emptied
      <4>3. CASE stream[k] = "queued" /\ stream'[k] = "reset" /\ owner[k] = f
        BY <1>1, <3>3, <4>1, <4>3, Zenon
      <4> QED  BY <3>2, <4>2, <4>3, Zenon DEF Emptied
    <3> QED  BY <3>6, Zenon DEF StreamInv
  <2>3. CASE CloseTaken(f)
    <3>1. CloseLocal(f) /\ f \in closing
      BY <2>3, Zenon DEF CloseTaken
    <3>2. Emptied(f) /\ fclosed' = fclosed \cup {f}
      BY <3>1, LocallyClosed, Zenon
    <3>3. closer # "open"
      BY <3>1, Zenon DEF IInv, CloseInv
    <3> QED  BY <1>1, <2>3, <3>2, <3>3, Zenon DEF IInv, StreamInv, Emptied, CloseTaken
  <2> QED  BY <2>1, <2>2, <2>3, Zenon
<1>11. WireTypes' /\ HelperTypes' /\ ListenersInv' /\ WorkInv'
  BY <1>1, Frames, Zenon
<1> QED  BY <1>2, <1>3, <1>4, <1>5, <1>6, <1>7, <1>8, <1>9, <1>10, <1>11, Zenon DEF IInv, TypeOK

\* dispatch finds the listener under one of its two keys, or it is gone; deliver
\* queues for an open listener only.
LEMMA DispatchingKeeps ==
  ASSUME IInv, NEW k \in Conns,
         Dispatch(k) \/ DispatchFails(k) \/ Deliver(k)
  PROVE  IInv'
<1>1. UNCHANGED <<forwards, lpc, fclosed, cancel, closer, closing, cstate, link, rpc, stop,
                  hstate, hctx, fatal, hrpc, socket, listeners, run, armed, tcp, owner>>
  BY Zenon DEF Dispatch, DispatchFails, Deliver, clientSide, clientVars, closeVars, helperSide,
         helperVars, listenVars, wire
<1>2. ClientTypes'
  <2>1. accept' \in [Forwards -> {"no", "checks", "waits", "returned"}]
    <3>1. accept \in [Forwards -> {"no", "checks", "waits", "returned"}]
      BY Zenon DEF IInv, TypeOK, ClientTypes
    <3>2. CASE Deliver(k)
      BY <3>1, <3>2, Zenon DEF Deliver
    <3> QED  BY <3>1, <3>2, Zenon DEF Dispatch, DispatchFails, clientSide, clientVars
  <2> QED  BY <1>1, <2>1, Zenon DEF IInv, TypeOK, ClientTypes
<1>3. ConnTypes'
  <2>1. CASE Dispatch(k)
    <3>1. Lookup(k) \in Forwards \cup {None}
      BY <2>1, KeysDiffer, Zenon DEF IInv, TypeOK, ClientTypes, ConnInv, Dispatch, Lookup
    <3> HIDE DEF Lookup
    <3> QED  BY <1>1, <2>1, <3>1, Zenon DEF IInv, TypeOK, ConnTypes, Dispatch
  <2>2. CASE DispatchFails(k) \/ Deliver(k)
    BY <1>1, <2>2, Zenon DEF IInv, TypeOK, ConnTypes, DispatchFails, Deliver, Queues
  <2> QED  BY <2>1, <2>2, Zenon
<1>4. KeeperInv'
  <2>1. \A j \in Conns : stream[j] = "none" => stream'[j] = "none"
    BY Zenon DEF IInv, TypeOK, ConnTypes, Dispatch, DispatchFails, Deliver
  <2>2. \A g \in Forwards : Abandoned(g) => Abandoned(g)'
    BY <1>1, <2>1, Zenon DEF Abandoned
  <2> QED  BY <1>1, <2>2, Zenon DEF IInv, KeeperInv
<1>5. ConnInv'
  BY <1>1, Zenon DEF IInv, TypeOK, ConnTypes, ConnInv, Dispatch, DispatchFails, Deliver, Lookup,
         Queues
<1>6. StreamInv'
  <2>1. CASE Dispatch(k)
    <3>1. PICK f \in Forwards : f = owner[k] /\ run[f] # "none"
      BY <2>1, Zenon DEF IInv, ConnInv, Dispatch
    <3>2. Lookup(k) \in {None, f}
      <4>1. \A g \in Forwards, j \in Keys : forwards[j] = g => j \in {Requested[g], Actual[g]}
        BY Zenon DEF IInv, TableInv, Slot
      <4>2. forwards[Actual[f]] \in {None, f} /\ forwards[Requested[f]] \in {None, f}
        <5>1. \A j \in Keys : forwards[j] \in Forwards \cup {None}
          BY Zenon DEF IInv, TypeOK, ClientTypes
        <5>2. \A g \in Forwards \ {f} : /\ Actual[f] \notin {Requested[g], Actual[g]}
                                      /\ Requested[f] \notin {Requested[g], Actual[g]}
          BY KeysDiffer, Zenon
        <5>3. \A g \in Forwards \ {f} : forwards[Actual[f]] # g /\ forwards[Requested[f]] # g
          BY <4>1, <5>2, KeysDiffer, Zenon
        <5> QED  BY <5>1, <5>3, KeysDiffer, Zenon
      <4> QED  BY <3>1, <4>2, Zenon DEF Lookup
    <3>3. ASSUME Lookup(k) = None
          PROVE  \/ closer # "open" \/ cancel[f] # "no"
                 \/ lpc[f] \in {"err", "removed", "failed"}
      <4>1. lpc[f] \notin {"idle", "added"}
        BY <3>1, Zenon DEF IInv, RpcInv
      <4>2. ~Held(f)
        BY <3>1, <3>3, KeysDiffer, Zenon DEF Lookup, Held, Slot
      <4>3. closer = "open" => closing = {}
        BY Zenon DEF IInv, CloseInv
      <4>4. lpc[f] \in InTable \cup {"idle", "removed", "failed"}
        BY Zenon DEF IInv, TypeOK, ClientTypes, InTable
      <4> QED  BY <4>1, <4>2, <4>3, <4>4, Zenon DEF IInv, TableInv
    <3>4. /\ target' = [target EXCEPT ![k] = Lookup(k)]
          /\ stream' = [stream EXCEPT ![k] = IF Lookup(k) = None THEN "reset" ELSE "dispatched"]
      BY <2>1, Zenon DEF Dispatch
    <3> HIDE DEF Lookup
    <3> QED  BY <1>1, <3>1, <3>2, <3>3, <3>4, KeysDiffer
               DEF IInv, TypeOK, ConnTypes, StreamInv
  <2>2. CASE Deliver(k)
    <3>1. target[k] \in Forwards /\ target[k] = owner[k]
      BY <2>2, KeysDiffer, Zenon DEF IInv, StreamInv, Deliver
    <3>2. \/ Queues(target[k]) /\ stream'[k] = "queued"
          \/ ~Queues(target[k]) /\ stream'[k] = "reset"
      BY <2>2, Zenon DEF IInv, TypeOK, ConnTypes, Deliver
    <3>3. ~Queues(target[k]) =>
            closer # "open" \/ cancel[owner[k]] # "no" \/ lpc[owner[k]] = "failed"
      BY <3>1, Zenon DEF IInv, TableInv, Queues
    <3>4. \A j \in Conns : j # k => stream'[j] = stream[j]
      BY <2>2, Zenon DEF IInv, TypeOK, ConnTypes, Deliver
    <3>5. /\ target' = target /\ owner' = owner /\ fclosed' = fclosed /\ closer' = closer
          /\ link' = link /\ cancel' = cancel /\ lpc' = lpc
      BY <1>1, <2>2, Zenon DEF Deliver
    <3> QED  BY <3>1, <3>2, <3>3, <3>4, <3>5 DEF IInv, StreamInv, Queues
  <2>3. CASE DispatchFails(k)
    BY <1>1, <2>3, Zenon DEF IInv, TypeOK, ConnTypes, StreamInv, DispatchFails
  <2> QED  BY <2>1, <2>2, <2>3, Zenon
<1>7. WireTypes' /\ HelperTypes' /\ TableInv' /\ CloseInv' /\ RpcInv' /\ ListenersInv' /\
      StopInv' /\ WorkInv'
  BY <1>1, Frames, Zenon
<1> QED  BY <1>2, <1>3, <1>4, <1>5, <1>6, <1>7, Zenon DEF IInv, TypeOK

\* Accept takes streams out of the queue.
LEMMA AcceptingKeeps ==
  ASSUME IInv, NEW f \in Forwards,
         AcceptStream(f) \/ AcceptChecks(f) \/ AcceptCanceled(f)
  PROVE  IInv'
<1>1. UNCHANGED <<forwards, lpc, fclosed, cancel, closer, closing, cstate, link, rpc, stop,
                  hstate, hctx, fatal, hrpc, socket, listeners, run, armed, tcp, owner,
                  target>>
  BY Zenon DEF AcceptStream, AcceptChecks, AcceptCanceled, clientSide, clientVars, closeVars,
         helperSide, helperVars, listenVars, wire, connVars
<1>2. ClientTypes'
  BY <1>1, Zenon DEF IInv, TypeOK, ClientTypes, AcceptStream, AcceptChecks, AcceptCanceled, Pending,
         clientSide, clientVars
<1>3. ConnTypes'
  BY <1>1, Zenon DEF IInv, TypeOK, ConnTypes, AcceptStream, AcceptChecks, AcceptCanceled, Pending,
         connVars
<1>4. KeeperInv'
  <2>1. \A k \in Conns : stream[k] = "none" => stream'[k] = "none"
    BY Zenon DEF IInv, TypeOK, ConnTypes, AcceptStream, AcceptChecks, AcceptCanceled, Pending,
           connVars
  <2>2. \A g \in Forwards : Abandoned(g) => Abandoned(g)'
    BY <1>1, <2>1, Zenon DEF Abandoned
  <2> QED  BY <1>1, <2>2, Zenon DEF IInv, KeeperInv
<1>5. ConnInv'
  BY <1>1, Zenon DEF IInv, TypeOK, ConnTypes, ConnInv, AcceptStream, AcceptChecks, AcceptCanceled,
         Pending, connVars
<1>6. StreamInv'
  <2>1. \A k \in Conns : stream'[k] = stream[k] \/ stream'[k] = "taken"
    BY Zenon DEF IInv, TypeOK, ConnTypes, AcceptStream, AcceptChecks, AcceptCanceled, connVars
  <2>2. ASSUME NEW k \in Conns PROVE StreamInv!(k)'
    <3>1. StreamInv!(k)
      BY Zenon DEF IInv, StreamInv
    <3> QED  BY <1>1, <2>1, <3>1, Zenon
  <2> QED  BY <2>2, Zenon DEF StreamInv
<1>7. WireTypes' /\ HelperTypes' /\ TableInv' /\ CloseInv' /\ RpcInv' /\ ListenersInv' /\
      StopInv' /\ WorkInv'
  BY <1>1, Frames, Zenon
<1> QED  BY <1>2, <1>3, <1>4, <1>5, <1>6, <1>7, Zenon DEF IInv, TypeOK

\* Cancel unregisters the listener first, and succeeds after a stop that closed the
\* socket, or on a dead link.
LEMMA CancellingKeeps ==
  ASSUME IInv, NEW f \in Forwards,
         Cancel(f) \/ CallStop(f) \/ CancelReturns(f) \/ CancelTimesOut(f)
  PROVE  IInv'
<1>1. UNCHANGED <<lpc, fclosed, accept, closer, closing, cstate, link, rpc, hstate, hctx,
                  fatal, hrpc, socket, listeners, run, armed, tcp, owner, stream, target>>
  BY Zenon DEF Cancel, CallStop, CancelReturns, CancelTimesOut, closeVars, connVars, helperSide,
         helperVars, listenVars, wire
<1>01. /\ \A b : CancelResults(b) \subseteq {"done", "failed"}
       /\ "done" \in CancelResults(FALSE) => closer # "open"
  BY DEF CancelResults
<1>02. cancel \in [Forwards -> {"no", "removed", "closed", "calling", "done", "failed"}]
  BY Zenon DEF IInv, TypeOK, ClientTypes
<1>03. PICK e \in {"removed", "calling", "done", "failed"} :
          cancel' = [cancel EXCEPT ![f] = e] /\ (Cancel(f) <=> e = "removed")
  <2>1. CASE Cancel(f)
    BY <2>1, Zenon DEF Cancel
  <2>2. CASE CallStop(f)
    BY <1>01, <2>2, Zenon DEF CallStop, Cancel
  <2>3. CASE CancelReturns(f) \/ CancelTimesOut(f)
    BY <1>01, <2>3, Zenon DEF CancelReturns, CancelTimesOut, Cancel
  <2> QED BY <2>1, <2>2, <2>3, Zenon
<1>0. /\ cancel \in [Forwards -> {"no", "removed", "closed", "calling", "done", "failed"}]
      /\ cancel' \in [Forwards -> {"no", "removed", "closed", "calling", "done", "failed"}]
      /\ cancel'[f] = e /\ \A g \in Forwards \ {f} : cancel'[g] = cancel[g]
  BY <1>02, <1>03, Zenon
<1>2. ClientTypes'
  <2>1. forwards' \in [Keys -> Forwards \cup {None}]
    BY DEF IInv, TypeOK, ClientTypes, Cancel, CallStop, CancelReturns, CancelTimesOut, Unregistered
  <2> QED  BY <1>0, <1>1, <2>1, Zenon DEF IInv, TypeOK, ClientTypes
<1>3. WireTypes'
  BY <1>1, Zenon DEF IInv, TypeOK, WireTypes, Cancel, CallStop, CancelReturns, CancelTimesOut,
         Unregistered, wire
<1>4. TableInv'
  <2>1. CASE Cancel(f)
    <3>1. /\ forwards' = Unregistered(f) /\ cancel' = [cancel EXCEPT ![f] = "removed"]
          /\ lpc[f] = "listening" /\ cancel[f] = "no"
      BY <2>1, Zenon DEF Cancel
    <3>2. \A k \in Keys : forwards'[k] # f
      BY <3>1, KeysDiffer, Zenon DEF Unregistered
    <3>3. \A g \in Forwards, k \in Keys : forwards'[k] = g => forwards[k] = g
      BY <3>1, KeysDiffer, Zenon DEF Unregistered
    <3>4. cancel'[f] = "removed" /\ \A g \in Forwards \ {f} : cancel'[g] = cancel[g]
      BY <3>1, Zenon DEF IInv, TypeOK, ClientTypes
    <3>5. \A g \in Forwards : Slot(g) \in Keys /\ Slot(g)' = Slot(g)
      BY <1>1, KeysDiffer, Zenon DEF Slot
    <3>6. \A g \in Forwards \ {f} : Held(g) => Held(g)'
      BY <3>1, <3>5, Zenon DEF Held, Unregistered
    <3> QED  BY <1>1, <3>1, <3>2, <3>3, <3>4, <3>5, <3>6 DEF IInv, TableInv
  <2>2. CASE CallStop(f) \/ CancelReturns(f) \/ CancelTimesOut(f)
    <3>1. /\ forwards' = forwards
          /\ cancel[f] \in {"closed", "calling"} /\ cancel'[f] \in {"calling", "done", "failed"}
      BY <1>0, <1>03, <2>2, Zenon DEF CallStop, CancelReturns, CancelTimesOut, Cancel
    <3>2. \A g \in Forwards : Slot(g)' = Slot(g) /\ (Held(g)' <=> Held(g))
      BY <1>1, <3>1, Zenon DEF Slot, Held
    <3>3. TableInv!(f)'
      BY <1>1, <3>1, <3>2, Zenon DEF IInv, TableInv
    <3>4. ASSUME NEW g \in Forwards \ {f} PROVE TableInv!(g)'
      <4>1. TableInv!(g)
        BY Zenon DEF IInv, TableInv
      <4> QED  BY <1>0, <1>1, <3>1, <3>2, <4>1, Zenon
    <3> QED  BY <3>3, <3>4, Zenon DEF TableInv
  <2> QED  BY <2>1, <2>2, Zenon
<1>5. CloseInv'
  <2>1. CASE Cancel(f)
    <3>1. \A g \in Forwards : Slot(g) \in Keys /\ Slot(g)' = Slot(g)
      BY <1>1, KeysDiffer, Zenon DEF Slot
    <3>2. \A g \in Forwards : Held(g)' => Held(g)
      BY <2>1, <3>1, KeysDiffer, Zenon DEF Cancel, Unregistered, Held
    <3> QED  BY <1>1, <3>2, Zenon DEF IInv, CloseInv
  <2>2. CASE CallStop(f) \/ CancelReturns(f) \/ CancelTimesOut(f)
    BY <1>1, <2>2, Frames, Zenon DEF CallStop, CancelReturns, CancelTimesOut, closeVars, connVars,
           helperSide, helperVars, listenVars, wire
  <2> QED  BY <2>1, <2>2, Zenon
<1>6. RpcInv'
  <2>1. CASE CallStop(f)
    <3>1. /\ cancel[f] = "closed" /\ cancel'[f] \in {"calling", "done", "failed"}
          /\ \A g \in Forwards \ {f} : stop'[g] = stop[g]
      BY <1>0, <1>03, <2>1, Zenon DEF CallStop, Cancel, IInv, TypeOK, WireTypes
    <3> QED  BY <1>0, <1>1, <3>1, Zenon DEF IInv, RpcInv
  <2>2. CASE Cancel(f) \/ CancelReturns(f) \/ CancelTimesOut(f)
    <3>1. /\ stop' = stop
          /\ cancel[f] \in {"calling", "done", "failed"} => cancel'[f] \in {"calling", "done", "failed"}
      BY <1>0, <1>03, <2>2, Zenon DEF Cancel, CancelReturns, CancelTimesOut, wire
    <3> QED  BY <1>0, <1>1, <3>1, Zenon DEF IInv, RpcInv
  <2> QED  BY <2>1, <2>2, Zenon
<1>7. StopInv'
  <2>1. CASE CallStop(f)
    <3>1. /\ cancel'[f] = "done" => link = "down"
          /\ stop'[f] = stop[f] \/ stop'[f] = "sent"
          /\ \A g \in Forwards \ {f} : stop'[g] = stop[g]
      BY <1>0, <2>1, Zenon DEF CallStop, IInv, TypeOK, WireTypes
    <3> QED  BY <1>0, <1>1, <3>1, Zenon DEF IInv, StopInv
  <2>2. CASE Cancel(f) \/ CancelReturns(f) \/ CancelTimesOut(f)
    <3>1. stop' = stop
      BY <2>2, Zenon DEF Cancel, CancelReturns, CancelTimesOut, wire
    <3>2. cancel'[f] = "done" => link = "down" \/ stop[f] = "ok" \/ closer # "open"
      <4>1. CASE Cancel(f)
        BY <1>0, <1>03, <4>1, Zenon
      <4>2. CASE CancelReturns(f)
        <5>1. CASE link = "down" \/ stop[f] = "ok"
          BY <5>1, Zenon
        <5>2. CASE link # "down" /\ stop[f] # "ok"
          <6>1. PICK r \in CancelResults(FALSE) : cancel' = [cancel EXCEPT ![f] = r]
            <7>1. (link = "down") = FALSE
              BY <5>2, Zenon
            <7> QED BY <4>2, <5>2, <7>1, Zenon DEF CancelReturns
          <6> QED BY <1>01, <1>02, <6>1, Zenon
        <5> QED BY <5>1, <5>2, Zenon
      <4>3. CASE CancelTimesOut(f)
        BY <1>01, <1>02, <4>3, Zenon DEF CancelTimesOut
      <4> QED BY <2>2, <4>1, <4>2, <4>3, Zenon
    <3> QED  BY <1>0, <1>1, <3>1, <3>2, Zenon DEF IInv, StopInv
  <2> QED  BY <2>1, <2>2, Zenon
<1>8. StreamInv'
  <2>1. \A k \in Conns : stream[k] # "none" => owner[k] \in Forwards
    BY Zenon DEF IInv, ConnInv
  <2>2. \A g \in Forwards : cancel[g] # "no" => cancel'[g] # "no"
    BY <1>0, Zenon
  <2> QED  BY <1>1, <2>1, <2>2, Zenon DEF IInv, StreamInv
<1>9. WorkInv'
  BY <1>1, Zenon DEF IInv, TypeOK, WireTypes, WorkInv, Working, Cancel, CallStop, CancelReturns,
         CancelTimesOut, Unregistered, wire
<1>10. HelperTypes' /\ ConnTypes' /\ ListenersInv' /\ KeeperInv' /\ ConnInv'
  BY <1>1, Frames, Zenon
<1> QED  BY <1>2, <1>3, <1>4, <1>5, <1>6, <1>7, <1>8, <1>9, <1>10, Zenon DEF IInv, TypeOK

\* Close takes the link down and then the table: no Listen in flight succeeds for a
\* listener that comes later.
LEMMA ClientClosesKeeps ==
  ASSUME IInv,
         ClientServeEnds \/ ClientContextDone \/ ClientClose \/ CloseConn \/ TakeForwards \/
         CloseReturns
  PROVE  IInv'
<1>1. UNCHANGED <<lpc, fclosed, accept, cancel, rpc, stop, hstate, hctx, fatal, hrpc,
                  socket, listeners, run, armed, tcp, owner, stream, target>>
  BY Zenon DEF ClientServeEnds, ClientContextDone, ClientClose, CloseConn, TakeForwards,
         CloseReturns, clientVars, connVars, helperSide, helperVars, listenVars, wire
<1>2. ClientTypes'
  <2>1. CASE TakeForwards
    BY <1>1, <2>1, KeysDiffer, Zenon DEF IInv, TypeOK, ClientTypes, TakeForwards
  <2>2. CASE ClientServeEnds \/ ClientContextDone \/ ClientClose \/ CloseConn \/ CloseReturns
    BY <1>1, <2>2, Zenon DEF IInv, TypeOK, ClientTypes, ClientServeEnds, ClientContextDone,
           ClientClose, CloseConn, CloseReturns, clientVars
  <2> QED  BY <2>1, <2>2, Zenon
<1>3. WireTypes'
  BY <1>1, Zenon DEF IInv, TypeOK, WireTypes, ClientServeEnds, ClientContextDone, ClientClose,
         CloseConn, TakeForwards, CloseReturns, wire
<1>4. \A g \in Forwards : Slot(g) \in Keys /\ Slot(g)' = Slot(g)
  BY <1>1, KeysDiffer, Zenon DEF Slot
<1>5. TableInv' /\ CloseInv'
  <2>1. CASE TakeForwards
    <3>1. PICK taken \in SUBSET Forwards :
            /\ taken = {f \in Forwards : (f \in Agents) = (closer = "remote")
                                        /\ \E k \in Keys : forwards[k] = f}
            /\ closing' = taken
            /\ forwards' = [k \in Keys |-> IF forwards[k] \in taken THEN None ELSE forwards[k]]
      BY <2>1, Zenon DEF TakeForwards
    <3>2. /\ closing = {} /\ link = "down" /\ link' = link
          /\ \/ closer = "down" /\ closer' = "remote"
             \/ closer = "remote" /\ closer' = "agent"
      BY <2>1, Zenon DEF TakeForwards, wire, IInv, CloseInv
    <3>3. \A g \in Forwards, k \in Keys : forwards'[k] = g <=> forwards[k] = g /\ g \notin taken
      BY <3>1, KeysDiffer, Zenon
    <3>4. \A g \in Forwards : Held(g)' <=> Held(g) /\ g \notin taken
      BY <1>4, <3>3, Zenon DEF Held
    <3>5. closing' = taken /\ \A g \in taken : lpc[g] # "idle"
      BY <3>1, Zenon DEF IInv, TableInv, InTable
    <3>6. TableInv'
      BY <1>1, <1>4, <3>2, <3>3, <3>4, <3>5 DEF IInv, TableInv
    <3>7. \A g \in Forwards : Held(g) /\ g \notin taken => (g \in Agents) # (closer = "remote")
      BY <1>4, <3>1, Zenon DEF Held
    <3> QED  BY <1>1, <3>2, <3>4, <3>6, <3>7 DEF IInv, CloseInv
  <2>2. CASE ClientServeEnds \/ ClientContextDone \/ ClientClose \/ CloseConn \/ CloseReturns
    <3>1. /\ forwards' = forwards /\ closing' = closing /\ (link = "down" => link' = "down")
          /\ \/ closer' = closer
             \/ closer = "open" /\ closer' = "marked"
             \/ closer = "marked" /\ closer' = "down" /\ link' = "down"
             \/ closer = "agent" /\ closer' = "done" /\ closing = {}
      BY <2>2, Zenon DEF ClientServeEnds, ClientContextDone, ClientClose, CloseConn, CloseReturns,
             clientVars, wire
    <3>2. \A g \in Forwards : Held(g)' <=> Held(g)
      BY <1>4, <3>1, Zenon DEF Held
    <3>3. TableInv'
      BY <1>1, <1>4, <3>1, <3>2 DEF IInv, TableInv
    <3> QED  BY <1>1, <3>1, <3>2, <3>3 DEF IInv, CloseInv
  <2> QED  BY <2>1, <2>2, Zenon
<1>6. StopInv'
  BY <1>1, Zenon DEF IInv, TypeOK, WireTypes, StopInv, ClientServeEnds, ClientContextDone,
         ClientClose, CloseConn, TakeForwards, CloseReturns, wire
<1>7. StreamInv'
  BY <1>1, Zenon DEF IInv, TypeOK, WireTypes, ClientTypes, StreamInv, ClientServeEnds,
         ClientContextDone, ClientClose, CloseConn, TakeForwards, CloseReturns, wire
<1>8. HelperTypes' /\ ConnTypes' /\ RpcInv' /\ ListenersInv' /\ KeeperInv' /\ ConnInv' /\
      WorkInv'
  BY <1>1, Frames, Zenon
<1> QED  BY <1>2, <1>3, <1>5, <1>6, <1>7, <1>8, Zenon DEF IInv, TypeOK

\* Serve of the helper returns after the last work.
LEMMA HelperServesKeeps ==
  ASSUME IInv,
         HelperServeEnds \/ HelperShutdown \/ HelperServeReturns \/ HelperSignaled \/ LinkFails
  PROVE  IInv'
<1>1. UNCHANGED <<forwards, lpc, fclosed, accept, cancel, closer, closing, cstate, rpc,
                  stop, fatal, hrpc, socket, listeners, run, armed, tcp, owner, stream,
                  target>>
  BY Zenon DEF HelperServeEnds, HelperShutdown, HelperServeReturns, HelperSignaled, LinkFails,
         listenVars, connVars, clientSide, clientVars, closeVars, wire, helperSide,
         helperVars
<1>2. WireTypes'
  BY <1>1, Zenon DEF IInv, TypeOK, WireTypes, HelperServeEnds, HelperShutdown, HelperServeReturns,
         HelperSignaled, LinkFails, WorkWait, wire
<1>3. HelperTypes'
  BY <1>1, Zenon DEF IInv, TypeOK, HelperTypes, HelperServeEnds, HelperShutdown,
         HelperServeReturns, HelperSignaled, LinkFails, WorkWait, helperSide, helperVars
<1>4. CloseInv'
  BY <1>1, Zenon DEF IInv, TypeOK, WireTypes, CloseInv, Slot, Held, HelperServeEnds, HelperShutdown,
         HelperServeReturns, HelperSignaled, LinkFails, WorkWait, wire
<1>5. StopInv'
  BY <1>1, Zenon DEF IInv, TypeOK, WireTypes, StopInv, HelperServeEnds, HelperShutdown,
         HelperServeReturns, HelperSignaled, LinkFails, WorkWait, wire
<1>6. StreamInv'
  BY <1>1, Zenon DEF IInv, TypeOK, WireTypes, StreamInv, HelperServeEnds, HelperShutdown,
         HelperServeReturns, HelperSignaled, LinkFails, WorkWait, wire
<1>7. WorkInv'
  BY <1>1, Zenon DEF IInv, TypeOK, HelperTypes, WorkInv, Working, HelperServeEnds, HelperShutdown,
         HelperServeReturns, HelperSignaled, LinkFails, WorkWait, helperSide, helperVars
<1>8. ClientTypes' /\ ConnTypes' /\ TableInv' /\ RpcInv' /\ ListenersInv' /\ KeeperInv' /\
      ConnInv'
  BY <1>1, Frames, Zenon
<1> QED  BY <1>2, <1>3, <1>4, <1>5, <1>6, <1>7, <1>8, Zenon DEF IInv, TypeOK

\* The listen handler opens and registers the socket, and hands it to the accept loop.
LEMMA HandlersKeeps ==
  ASSUME IInv, NEW f \in Forwards,
         ListenArrives(f) \/ HandleListen(f) \/ GoRun(f) \/ ListenResponds(f)
  PROVE  IInv'
<1>1. UNCHANGED <<forwards, lpc, fclosed, accept, cancel, closer, closing, cstate, link,
                  stop, hstate, hctx, fatal, tcp, owner, stream, target>>
  BY Zenon DEF ListenArrives, HandleListen, GoRun, ListenResponds, Open, Release, helperVars,
         connVars, clientSide, clientVars, closeVars
<1>2. /\ rpc \in [Forwards -> {"none", "sent", "ok", "err"}]
      /\ hrpc \in [Forwards -> {"none", "begun", "bound", "started", "done"}]
      /\ socket \in [Forwards -> {"none", "open", "closed"}]
      /\ listeners \in [Keys -> Forwards \cup {None}]
      /\ run \in [Forwards -> {"none", "accepts", "accepted", "done"}]
  BY Zenon DEF IInv, TypeOK, WireTypes, HelperTypes
<1>3. \A g \in Forwards \ {f} :
        /\ rpc'[g] = rpc[g] /\ hrpc'[g] = hrpc[g] /\ socket'[g] = socket[g] /\ run'[g] = run[g]
        /\ g \in armed' <=> g \in armed
  <2>1. CASE ListenArrives(f) \/ ListenResponds(f)
    BY <1>2, <2>1, Zenon DEF ListenArrives, ListenResponds
  <2>2. CASE HandleListen(f)
    BY <1>2, <2>2, Zenon DEF HandleListen, Open
  <2>3. CASE GoRun(f)
    <3>1. \A g \in Forwards \ {f} : socket'[g] = socket[g]
      BY <2>3, Released, Zenon DEF GoRun, Freed
    <3> QED  BY <1>2, <2>3, <3>1, Zenon DEF GoRun
  <2> QED  BY <2>1, <2>2, <2>3, Zenon
<1>4. \/ /\ hrpc[f] = "none" /\ rpc[f] = "sent"
         /\ \/ hrpc'[f] = "begun" /\ rpc' = rpc /\ hstate = "serving"
            \/ hrpc'[f] = "done" /\ rpc'[f] = "err"
         /\ UNCHANGED <<socket, listeners, run, armed>>
      \/ /\ hrpc[f] = "begun" /\ hrpc'[f] = "done" /\ rpc'[f] = "err"
         /\ UNCHANGED <<socket, listeners, run, armed>>
      \/ /\ hrpc[f] = "begun" /\ hrpc'[f] = "bound" /\ socket'[f] = "open"
         /\ listeners' = [listeners EXCEPT ![Actual[f]] = f]
         /\ UNCHANGED <<rpc, run, armed>>
      \/ /\ hrpc[f] = "bound" /\ hrpc'[f] = "started" /\ run'[f] = "accepts" /\ hstate = "serving"
         /\ UNCHANGED <<rpc, socket, listeners>>
      \/ /\ hrpc[f] = "bound" /\ hrpc'[f] = "done" /\ rpc'[f] = "err" /\ Freed(f)
         /\ UNCHANGED <<run, armed>>
      \/ /\ hrpc[f] = "started" /\ hrpc'[f] = "done" /\ rpc'[f] = "ok"
         /\ UNCHANGED <<socket, listeners, run, armed>>
  <2>1. CASE ListenArrives(f)
    BY <1>2, <2>1, Zenon DEF ListenArrives, BeginWork
  <2>2. CASE HandleListen(f)
    BY <1>2, <2>2, Zenon DEF HandleListen, Open
  <2>3. CASE GoRun(f)
    BY <1>2, <2>3, Released, Zenon DEF GoRun, BeginWork
  <2>4. CASE ListenResponds(f)
    BY <1>2, <2>4, Zenon DEF ListenResponds
  <2> QED  BY <2>1, <2>2, <2>3, <2>4, Zenon
<1>5. WireTypes' /\ HelperTypes'
  <2>1. /\ rpc' \in [Forwards -> {"none", "sent", "ok", "err"}]
        /\ hrpc' \in [Forwards -> {"none", "begun", "bound", "started", "done"}]
        /\ run' \in [Forwards -> {"none", "accepts", "accepted", "done"}]
    BY <1>2, Zenon DEF ListenArrives, HandleListen, GoRun, ListenResponds
  <2>2. /\ socket' \in [Forwards -> {"none", "open", "closed"}]
        /\ listeners' \in [Keys -> Forwards \cup {None}]
    <3>1. Actual[f] \in Keys
      BY KeysDiffer, Zenon
    <3>2. CASE HandleListen(f)
      BY <1>2, <3>1, <3>2 DEF HandleListen, Open
    <3>3. CASE GoRun(f)
      BY <1>2, <3>3 DEF GoRun, Release
    <3> QED  BY <1>2, <3>2, <3>3, Zenon DEF ListenArrives, ListenResponds
  <2>3. armed' \subseteq Forwards
    BY Zenon DEF IInv, TypeOK, HelperTypes, ListenArrives, HandleListen, GoRun, ListenResponds
  <2> QED  BY <1>1, <2>1, <2>2, <2>3, Zenon DEF IInv, TypeOK, WireTypes, HelperTypes
<1>6. RpcInv'
  <2>1. RpcInv!(f)
    BY Zenon DEF IInv, RpcInv
  <2>2. RpcInv!(f)'
    BY <1>1, <1>4, <2>1, Zenon DEF Freed
  <2>3. ASSUME NEW g \in Forwards \ {f} PROVE RpcInv!(g)'
    <3>1. RpcInv!(g)
      BY Zenon DEF IInv, RpcInv
    <3> QED  BY <1>1, <1>3, <3>1, Zenon
  <2> QED  BY <2>2, <2>3, Zenon DEF RpcInv
<1>7. ListenersInv'
  <2>1. /\ \A g \in Forwards \ {f}, k \in Keys : listeners'[k] = g => listeners[k] = g
        /\ \A g \in Forwards \ {f} : listeners[Actual[g]] = g => listeners'[Actual[g]] = g
    <3>1. CASE listeners' = [listeners EXCEPT ![Actual[f]] = f]
      BY <1>2, <3>1, KeysDiffer, Zenon
    <3>2. CASE Freed(f)
      BY <3>2, KeysDiffer, Zenon DEF Freed
    <3> QED  BY <1>4, <3>1, <3>2, Zenon
  <2>2. /\ \A k \in Keys : listeners'[k] = f => k = Actual[f]
        /\ socket'[f] = "open" => listeners'[Actual[f]] = f
    <3>1. ListenersInv!(f)
      BY Zenon DEF IInv, ListenersInv
    <3>2. CASE listeners' = [listeners EXCEPT ![Actual[f]] = f]
      BY <1>2, <3>1, <3>2, KeysDiffer, Zenon
    <3>3. CASE Freed(f)
      BY <3>3, KeysDiffer, Zenon DEF Freed
    <3> QED  BY <1>4, <3>1, <3>2, <3>3, Zenon
  <2>3. ASSUME NEW g \in Forwards \ {f} PROVE ListenersInv!(g)'
    <3>1. ListenersInv!(g)
      BY Zenon DEF IInv, ListenersInv
    <3> QED  BY <1>3, <2>1, <3>1, Zenon
  <2> QED  BY <2>2, <2>3, Zenon DEF ListenersInv
<1>8. KeeperInv'
  <2>1. socket'[f] = "open" =>
          \/ hrpc'[f] = "bound" \/ run'[f] \in {"accepts", "accepted"}
          \/ socket[f] = "open" /\ hrpc[f] # "bound" /\ run'[f] = run[f]
    BY <1>4 DEF IInv, RpcInv, Freed
  <2>2. \A g \in Forwards : Abandoned(g)' <=> Abandoned(g)
    BY <1>1, Zenon DEF Abandoned
  <2> QED  BY <1>3, <2>1, <2>2, Zenon DEF IInv, KeeperInv
<1>9. StopInv'
  <2>1. socket[f] = "closed" => socket'[f] = "closed"
    BY <1>4 DEF IInv, RpcInv, Freed
  <2> QED  BY <1>1, <1>3, <2>1, Zenon DEF IInv, StopInv
<1>10. ConnInv'
  <2>1. \A g \in Forwards : run[g] # "none" => run'[g] # "none"
    BY <1>3, <1>4, Zenon
  <2> QED  BY <1>1, <2>1, Zenon DEF IInv, ConnInv
<1>11. WorkInv'
  BY <1>1, <1>3, <1>4, Zenon DEF IInv, WorkInv, Working
<1>12. ClientTypes' /\ ConnTypes' /\ TableInv' /\ CloseInv' /\ StreamInv'
  BY <1>1, Frames, Zenon
<1> QED  BY <1>5, <1>6, <1>7, <1>8, <1>9, <1>10, <1>11, <1>12, Zenon DEF IInv, TypeOK

\* A stop that is answered found its own listener's socket, open or closed.
LEMMA StopsKeeps ==
  ASSUME IInv, NEW f \in Forwards,
         StopArrives(f) \/ HandleStop(f)
  PROVE  IInv'
<1>1. UNCHANGED <<forwards, lpc, fclosed, accept, cancel, closer, closing, cstate, link,
                  rpc, hstate, hctx, fatal, hrpc, run, armed, tcp, owner, stream, target>>
  BY Zenon DEF StopArrives, HandleStop, StopCloses, Release, connVars, clientSide, clientVars,
         closeVars, helperSide, helperVars, listenVars
<1>2. WireTypes'
  BY <1>1, Zenon DEF IInv, TypeOK, WireTypes, StopArrives, HandleStop, BeginWork, StopCloses, Release
<1>3. HelperTypes'
  BY <1>1, KeysDiffer DEF IInv, TypeOK, HelperTypes, StopArrives, HandleStop, BeginWork,
         StopCloses, Release, helperSide, listenVars
<1>4. RpcInv'
  <2>1. CASE StopArrives(f)
    <3>1. PICK s \in {"running", "err"} : stop[f] = "sent" /\ stop' = [stop EXCEPT ![f] = s]
      BY <2>1, Zenon DEF StopArrives
    <3>2. socket' = socket
      BY <2>1, Zenon DEF StopArrives, helperSide, listenVars
    <3> QED  BY <1>1, <3>1, <3>2, Zenon DEF IInv, TypeOK, WireTypes, RpcInv
  <2>2. CASE HandleStop(f)
    <3>1. stop' = [stop EXCEPT ![f] = "ok"] /\ stop[f] = "running"
      BY <2>2, Zenon DEF HandleStop
    <3>2. \A g \in Forwards :
            socket'[g] = socket[g] \/ (socket[g] # "none" /\ socket'[g] = "closed")
      BY <2>2, StopReleases, Zenon
    <3> QED  BY <1>1, <3>1, <3>2, Zenon DEF IInv, TypeOK, WireTypes, RpcInv
  <2> QED  BY <2>1, <2>2, Zenon
<1>5. ListenersInv'
  <2>1. CASE HandleStop(f)
    BY <2>1, StopReleases, KeysDiffer DEF IInv, ListenersInv
  <2>2. CASE StopArrives(f)
    BY <1>1, <2>2, Frames, Zenon DEF StopArrives, connVars, clientSide, clientVars, closeVars,
           helperSide, helperVars, listenVars
  <2> QED  BY <2>1, <2>2, Zenon
<1>6. KeeperInv'
  <2>1. CASE HandleStop(f)
    <3>1. \A g \in Forwards : Abandoned(g)' <=> Abandoned(g)
      BY <1>1, Zenon DEF Abandoned
    <3>2. \A g \in Forwards : socket'[g] = "open" => socket[g] = "open"
      BY <2>1, StopReleases, Zenon
    <3> QED  BY <1>1, <3>1, <3>2, Zenon DEF IInv, KeeperInv
  <2>2. CASE StopArrives(f)
    BY <1>1, <2>2, Frames, Zenon DEF StopArrives, connVars, clientSide, clientVars, closeVars,
           helperSide, helperVars, listenVars
  <2> QED  BY <2>1, <2>2, Zenon
<1>7. StopInv'
  <2>1. CASE StopArrives(f)
    <3>1. PICK s \in {"running", "err"} : stop[f] = "sent" /\ stop' = [stop EXCEPT ![f] = s]
      BY <2>1, Zenon DEF StopArrives
    <3>2. socket' = socket
      BY <2>1, Zenon DEF StopArrives, helperSide, listenVars
    <3> QED  BY <1>1, <3>1, <3>2, Zenon DEF IInv, TypeOK, WireTypes, StopInv
  <2>2. CASE HandleStop(f)
    <3>1. stop' = [stop EXCEPT ![f] = "ok"]
      BY <2>2, Zenon DEF HandleStop
    <3>2. /\ socket'[f] = "closed" /\ \A g \in Forwards \ {f} : socket'[g] = socket[g]
          /\ \A g \in Forwards \ {f} : stop'[g] = stop[g]
      BY <2>2, <3>1, StopReleases, Zenon DEF IInv, TypeOK, WireTypes
    <3> QED  BY <1>1, <3>2, Zenon DEF IInv, StopInv
  <2> QED  BY <2>1, <2>2, Zenon
<1>8. WorkInv'
  BY <1>1, Zenon DEF IInv, TypeOK, WireTypes, WorkInv, Working, StopArrives, HandleStop, BeginWork,
         StopCloses, Release
<1>9. ClientTypes' /\ ConnTypes' /\ TableInv' /\ CloseInv' /\ ConnInv' /\ StreamInv'
  BY <1>1, Frames, Zenon
<1> QED  BY <1>2, <1>3, <1>4, <1>5, <1>6, <1>7, <1>8, <1>9, Zenon DEF IInv, TypeOK

\* A connection belongs to the loop that accepted it; a loop that cannot start a
\* proxy closes the socket, or abandons the agent's.
LEMMA LoopsKeeps ==
  ASSUME IInv, NEW f \in Forwards, NEW k \in Conns,
         SocketAccepts(f, k) \/ GoProxy(f, k) \/ GoProxyFails(f, k)
  PROVE  IInv'
<1>1. UNCHANGED <<forwards, lpc, fclosed, accept, cancel, closer, closing, cstate, link,
                  rpc, stop, hstate, hctx, fatal, hrpc, stream, target>>
  BY Zenon DEF SocketAccepts, GoProxy, GoProxyFails, LoopEnds, Release, helperVars, clientSide,
         clientVars, closeVars, wire
<1>0. /\ socket \in [Forwards -> {"none", "open", "closed"}]
      /\ listeners \in [Keys -> Forwards \cup {None}]
      /\ run \in [Forwards -> {"none", "accepts", "accepted", "done"}]
      /\ armed \subseteq Forwards
  BY Zenon DEF IInv, TypeOK, HelperTypes
<1>a. (socket' = socket /\ listeners' = listeners) \/ Release(f)
  BY Zenon DEF SocketAccepts, GoProxy, GoProxyFails, LoopEnds
<1>2. HelperTypes'
  <2>1. run' \in [Forwards -> {"none", "accepts", "accepted", "done"}] /\ armed' \subseteq Forwards
    BY <1>0, Zenon DEF SocketAccepts, GoProxy, GoProxyFails, LoopEnds
  <2>2. /\ socket' \in [Forwards -> {"none", "open", "closed"}]
        /\ listeners' \in [Keys -> Forwards \cup {None}]
    <3>1. CASE Release(f)
      BY <1>0, <3>1, Zenon DEF Release
    <3> QED  BY <1>0, <1>a, <3>1, Zenon
  <2> QED  BY <1>1, <2>1, <2>2, Zenon DEF IInv, TypeOK, HelperTypes
<1>3. ConnTypes'
  BY <1>1 DEF IInv, TypeOK, ConnTypes, SocketAccepts, GoProxy, GoProxyFails, BeginWork,
         LoopEnds, Release
<1>4. RpcInv'
  <2>1. /\ run[f] # "none" /\ run'[f] # "none" /\ \A g \in Forwards \ {f} : run'[g] = run[g]
        /\ armed' \subseteq armed
    BY <1>0, Zenon DEF SocketAccepts, GoProxy, GoProxyFails, LoopEnds
  <2>2. /\ socket[f] # "none" /\ (socket'[f] = socket[f] \/ socket'[f] = "closed")
        /\ \A g \in Forwards \ {f} : socket'[g] = socket[g]
    <3>1. socket[f] # "none"
      BY <2>1, Zenon DEF IInv, RpcInv
    <3>2. CASE Release(f)
      BY <3>1, <3>2, Released, Zenon DEF Freed
    <3> QED  BY <1>a, <3>1, <3>2, Zenon
  <2>3. ASSUME NEW g \in Forwards PROVE RpcInv!(g)'
    <3>1. RpcInv!(g)
      BY Zenon DEF IInv, RpcInv
    <3>2. CASE g = f
      BY <1>1, <2>1, <2>2, <3>1, <3>2, Zenon
    <3>3. CASE g # f
      BY <1>1, <2>1, <2>2, <3>1, <3>3, Zenon
    <3> QED  BY <3>2, <3>3, Zenon
  <2> QED  BY <2>3, Zenon DEF RpcInv
<1>5. ListenersInv'
  <2>1. CASE GoProxyFails(f, k)
    <3>1. (socket' = socket /\ listeners' = listeners) \/ Freed(f)
      BY <2>1, Released, Zenon DEF GoProxyFails, LoopEnds
    <3>2. CASE Freed(f)
      BY <3>2, OthersRegistered, Zenon DEF Freed
    <3> QED  BY <3>1, <3>2, Zenon DEF IInv, ListenersInv
  <2>2. CASE SocketAccepts(f, k) \/ GoProxy(f, k)
    BY <1>1, <2>2, Frames, Zenon DEF SocketAccepts, GoProxy, helperVars, clientSide, clientVars,
           closeVars, wire
  <2> QED  BY <2>1, <2>2, Zenon
<1>6. KeeperInv'
  BY <1>1 DEF IInv, TypeOK, HelperTypes, ConnTypes, KeeperInv, Abandoned, ConnInv,
         SocketAccepts, GoProxy, GoProxyFails, BeginWork, LoopEnds, Release
<1>7. StopInv'
  BY <1>1, Zenon DEF IInv, TypeOK, HelperTypes, StopInv, SocketAccepts, GoProxy, GoProxyFails,
         BeginWork, LoopEnds, Release
<1>8. ConnInv'
  BY <1>1 DEF IInv, TypeOK, HelperTypes, ConnTypes, ConnInv, SocketAccepts, GoProxy,
         GoProxyFails, BeginWork, LoopEnds, Release
<1>9. StreamInv'
  BY <1>1 DEF IInv, TypeOK, ConnTypes, StreamInv, ConnInv, SocketAccepts, GoProxy,
         GoProxyFails, BeginWork, LoopEnds, Release
<1>10. WorkInv'
  BY <1>1, Zenon DEF IInv, TypeOK, HelperTypes, ConnTypes, WorkInv, Working, SocketAccepts, GoProxy,
         GoProxyFails, BeginWork, LoopEnds, Release
<1>11. ClientTypes' /\ WireTypes' /\ TableInv' /\ CloseInv'
  BY <1>1, Frames, Zenon
<1> QED  BY <1>2, <1>3, <1>4, <1>5, <1>6, <1>7, <1>8, <1>9, <1>10, <1>11, Zenon DEF IInv, TypeOK

\* The accept loop and its AfterFunc close a socket that was opened.
LEMMA LoopEndingKeeps ==
  ASSUME IInv, NEW f \in Forwards,
         SocketFails(f) \/ AfterFunc(f)
  PROVE  IInv'
<1>1. UNCHANGED <<forwards, lpc, fclosed, accept, cancel, closer, closing, cstate, link,
                  rpc, stop, hstate, hctx, hrpc, tcp, owner, stream, target>>
  BY Zenon DEF SocketFails, AfterFunc, Release, connVars, clientSide, clientVars, closeVars, wire,
         helperVars
<1>2. HelperTypes'
  <2>1. /\ socket' \in [Forwards -> {"none", "open", "closed"}]
        /\ listeners' \in [Keys -> Forwards \cup {None}]
    BY Zenon DEF IInv, TypeOK, HelperTypes, SocketFails, AfterFunc, Release
  <2>2. /\ run' \in [Forwards -> {"none", "accepts", "accepted", "done"}]
        /\ armed' \subseteq Forwards
    BY Zenon DEF IInv, TypeOK, HelperTypes, SocketFails, AfterFunc
  <2>3. fatal' \in BOOLEAN
    BY Zenon DEF IInv, TypeOK, HelperTypes, SocketFails, AfterFunc, helperVars
  <2> QED  BY <1>1, <2>1, <2>2, <2>3, Zenon DEF IInv, TypeOK, HelperTypes
<1>3. /\ socket'[f] = "closed" /\ \A g \in Forwards \ {f} : socket'[g] = socket[g]
      /\ Freed(f) \/ listeners' = listeners
  <2>1. CASE Release(f)
    BY <2>1, Released, Zenon DEF Freed
  <2>2. CASE socket' = [socket EXCEPT ![f] = "closed"] /\ UNCHANGED listeners
    BY <2>2, Zenon DEF IInv, TypeOK, HelperTypes
  <2> QED  BY <2>1, <2>2, Zenon DEF SocketFails, AfterFunc
<1>4. /\ run[f] # "none" /\ run'[f] # "none" /\ \A g \in Forwards \ {f} : run'[g] = run[g]
      /\ armed' \subseteq armed
  <2>1. run \in [Forwards -> {"none", "accepts", "accepted", "done"}]
    BY Zenon DEF IInv, TypeOK, HelperTypes
  <2>2. CASE SocketFails(f)
    BY <2>1, <2>2, Zenon DEF SocketFails
  <2>3. CASE AfterFunc(f)
    BY <2>3, Zenon DEF IInv, RpcInv, AfterFunc
  <2> QED  BY <2>2, <2>3, Zenon
<1>5. RpcInv' /\ ListenersInv'
  <2>1. ASSUME NEW g \in Forwards PROVE RpcInv!(g)'
    <3>1. RpcInv!(g)
      BY Zenon DEF IInv, RpcInv
    <3>2. CASE g = f
      BY <1>1, <1>3, <1>4, <3>1, <3>2, Zenon
    <3>3. CASE g # f
      BY <1>1, <1>3, <1>4, <3>1, <3>3, Zenon
    <3> QED  BY <3>2, <3>3, Zenon
  <2>2. ListenersInv'
    BY <1>3, OthersRegistered, Zenon
  <2> QED  BY <2>1, <2>2, Zenon DEF RpcInv
<1>6. KeeperInv' /\ StopInv'
  <2>1. \A g \in Forwards : Abandoned(g)' <=> Abandoned(g)
    BY <1>1, Zenon DEF Abandoned
  <2>2. KeeperInv'
    BY <1>1, <1>3, <1>4, <2>1, Zenon DEF IInv, KeeperInv
  <2> QED  BY <1>1, <1>3, <2>2, Zenon DEF IInv, StopInv
<1>7. ConnInv'
  BY <1>1, <1>4, Zenon DEF IInv, ConnInv
<1>8. WorkInv'
  BY <1>1, Zenon DEF IInv, TypeOK, HelperTypes, WorkInv, Working, SocketFails, AfterFunc, Release
<1>9. ClientTypes' /\ WireTypes' /\ ConnTypes' /\ TableInv' /\ CloseInv' /\ StreamInv'
  BY <1>1, Frames, Zenon
<1> QED  BY <1>2, <1>3, <1>4, <1>5, <1>6, <1>7, <1>8, <1>9, Zenon DEF IInv, TypeOK

\* A proxy makes a stream without a listener, and leaves it to the client.
LEMMA ProxiesKeeps ==
  ASSUME IInv, NEW k \in Conns,
         CreateStream(k) \/ ProxyEnds(k)
  PROVE  IInv'
<1>1. UNCHANGED <<forwards, lpc, fclosed, accept, cancel, closer, closing, cstate, link,
                  rpc, stop, hstate, hctx, fatal, hrpc, socket, listeners, run, armed,
                  owner, target>>
  BY Zenon DEF CreateStream, ProxyEnds, clientSide, clientVars, closeVars, helperSide, helperVars,
         listenVars, wire
<1>2. ConnTypes'
  BY <1>1, Zenon DEF IInv, TypeOK, ConnTypes, CreateStream, ProxyEnds
<1>3. KeeperInv'
  BY <1>1 DEF IInv, TypeOK, ConnTypes, KeeperInv, Abandoned, CreateStream, ProxyEnds
<1>4. ConnInv'
  BY <1>1 DEF IInv, TypeOK, ConnTypes, ConnInv, CreateStream, ProxyEnds
<1>5. StreamInv'
  BY <1>1 DEF IInv, TypeOK, ConnTypes, StreamInv, CreateStream, ProxyEnds
<1>6. WorkInv'
  BY <1>1, Zenon DEF IInv, TypeOK, ConnTypes, WorkInv, Working, CreateStream, ProxyEnds
<1>7. ClientTypes' /\ WireTypes' /\ HelperTypes' /\ TableInv' /\ CloseInv' /\ RpcInv' /\
      ListenersInv' /\ StopInv'
  BY <1>1, Frames, Zenon
<1> QED  BY <1>2, <1>3, <1>4, <1>5, <1>6, <1>7, Zenon DEF IInv, TypeOK
-----------------------------------------------------------------------------
\* The invariant holds at the start.
LEMMA InitIInv == Init => IInv
<1> SUFFICES ASSUME Init PROVE IInv
  BY Zenon
<1>1. TypeOK
  BY Zenon DEF Init, TypeOK, ClientTypes, WireTypes, HelperTypes, ConnTypes
<1>2. TableInv /\ CloseInv
  BY ForwardsAssumption, Zenon DEF Init, TableInv, CloseInv, Slot, Held, InTable
<1>3. RpcInv /\ ListenersInv /\ KeeperInv /\ StopInv
  BY ForwardsAssumption, Zenon DEF Init, RpcInv, ListenersInv, KeeperInv, StopInv
<1>4. ConnInv /\ StreamInv /\ WorkInv
  BY ForwardsAssumption, Zenon DEF Init, ConnInv, StreamInv, WorkInv, Working
<1> QED  BY <1>1, <1>2, <1>3, <1>4, Zenon DEF IInv

\* Every step keeps the invariant.
LEMMA StepIInv == IInv /\ [Next]_vars => IInv'
<1> SUFFICES ASSUME IInv, [Next]_vars PROVE IInv'
  BY Zenon
<1>1. CASE UNCHANGED vars
  <2>1. UNCHANGED <<forwards, lpc, fclosed, accept, cancel, closer, closing, cstate, link,
                    rpc, stop, hstate, hctx, fatal, hrpc, socket, listeners, run, armed,
                    tcp, owner, stream, target>>
    BY <1>1, Zenon DEF vars, clientSide, wire, helperSide, connVars, clientVars, closeVars,
             helperVars, listenVars
  <2> QED  BY <2>1, Frames, Zenon DEF IInv, TypeOK
<1>2. ASSUME NEW f \in Forwards, Listening(f) \/ Canceling(f) \/ Serving(f) PROVE IInv'
  BY <1>2, ListenKeeps, LocalCloseKeeps, CancellingKeeps, HandlersKeeps, StopsKeeps,
     LoopEndingKeeps, Zenon DEF Listening, Canceling, Serving
<1>3. ASSUME NEW f \in Forwards, AcceptStream(f) \/ AcceptChecks(f) PROVE IInv'
  BY <1>3, AcceptingKeeps, Zenon
<1>4. ASSUME NEW f \in Forwards, NEW k \in Conns, GoProxy(f, k) \/ GoProxyFails(f, k)
      PROVE  IInv'
  BY <1>4, LoopsKeeps, Zenon
<1>5. ASSUME NEW k \in Conns, Dispatch(k) \/ Deliver(k) \/ CreateStream(k) PROVE IInv'
  BY <1>5, DispatchingKeeps, ProxiesKeeps, Zenon
<1>6. CASE ClientServeEnds \/ Closing \/ HelperServe
  BY <1>6, ClientClosesKeeps, LocalCloseKeeps, HelperServesKeeps, Zenon DEF Closing, HelperServe
<1>7. CASE Environment
  BY <1>7, ListenKeeps, AcceptingKeeps, CancellingKeeps, LoopEndingKeeps, LoopsKeeps,
     ProxiesKeeps, DispatchingKeeps, ClientClosesKeeps, HelperServesKeeps, Zenon DEF Environment
<1> QED  BY <1>1, <1>2, <1>3, <1>4, <1>5, <1>6, <1>7, Zenon DEF Next

\* The inductive invariant holds in every reachable state of the two connections.
THEOREM InductiveInvariant == Spec => []IInv
  BY InitIInv, StepIInv, PTL DEF Spec

\* Every variable of client and helper keeps its type.
THEOREM TypeCorrect == Spec => []TypeOK
<1>1. IInv => TypeOK
  BY Zenon DEF IInv
<1> QED  BY <1>1, InductiveInvariant, PTL

\* A connection the helper accepted reaches its own listener in the gateway, however the
\* listen response, rekey, Cancel and Close interleave with its stream.
THEOREM EarlyStreamsAreKept == Spec => []EarlyStreamKept
<1>1. IInv => EarlyStreamKept
  BY Zenon DEF IInv, StreamInv, EarlyStreamKept
<1> QED  BY <1>1, InductiveInvariant, PTL

\* Whichever of Listen, Cancel, Close and the helper's shutdown closes a listener, on both
\* sides nothing of it is left.
THEOREM ClosingReleases == Spec => []ClosedIsReleased
<1>1. ASSUME IInv PROVE ClosedIsReleased
  <2>1. \A f \in fclosed : Pending(f) = {} /\ \A b \in Keys : forwards[b] # f
    BY <1>1 DEF IInv, TypeOK, ClientTypes, StreamInv, TableInv, Pending
  <2>2. closer = "done" =>
          \A f \in Forwards : lpc[f] = "listening" => f \in fclosed \/ cancel[f] = "removed"
    BY <1>1, Zenon DEF IInv, TableInv, CloseInv, InTable
  <2>3. hstate = "closed" => ~Working
    BY <1>1, Zenon DEF IInv, WorkInv
  <2>4. ASSUME hstate = "closed", NEW f \in Forwards, socket[f] = "open"
        PROVE  f \in Agents /\ \E k \in Conns : owner[k] = f /\ stream[k] = "none"
    BY <1>1, <2>3, <2>4, Zenon DEF IInv, KeeperInv, Abandoned, Working
  <2>5. \A f \in Forwards : cancel[f] = "done" =>
          socket[f] = "closed" \/ link = "down" \/ closer # "open"
    BY <1>1, Zenon DEF IInv, StopInv
  <2> QED  BY <2>1, <2>2, <2>3, <2>4, <2>5, Zenon DEF ClosedIsReleased
<1> QED  BY <1>1, InductiveInvariant, PTL
=============================================================================
