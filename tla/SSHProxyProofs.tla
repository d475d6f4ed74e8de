--------------------------- MODULE SSHProxyProofs ---------------------------
(***************************************************************************)
(* Proofs about SSHProxy, for any number of operations, channels and keys.  *)
(* The heart of the argument is ownership: the callback of an operation is  *)
(* at one place at a time, so no two goroutines can both complete it, and   *)
(* as long as every forward asks for a reply it is at some place until it   *)
(* is completed.                                                            *)
(***************************************************************************)
EXTENDS SSHProxy, TLAPS

\* The places a callback can be: a kind and, for channels and keys, an index.
Kinds == {"global", "upstream", "channel", "request", "table", "agent", "close"}
Indices == Channels \cup Keys \cup {None}

At(s, x, o) ==
  \/ s = "global" /\ x = None /\ global.op = o
  \/ s = "upstream" /\ x = None /\ upRequest.op = o
  \/ s = "channel" /\ x \in Channels /\ finish[x] = o
  \/ s = "request" /\ x \in Channels /\ request[x].op = o
  \/ s = "table" /\ x \in Keys /\ remoteForwards[x] = o
  \/ s = "agent" /\ x = None /\ agentForward = o
  \/ s = "close" /\ x = None /\ o \in closer.ops

\* A callback that is somewhere is of a started operation and is nowhere else.
OwnInv ==
  \A o \in Ops, s \in Kinds, x \in Indices : At(s, x, o) =>
    /\ status[o] = "started"
    /\ \A t \in Kinds, y \in Indices : At(t, y, o) => t = s /\ y = x

\* The callback of a started operation is somewhere.
KeptInv ==
  ~unconfirmed =>
    \A o \in Ops : status[o] = "started" => \E s \in Kinds, x \in Indices : At(s, x, o)

\* Where a goroutine holds a callback.
ControlInv ==
  /\ global.pc = "idle" => global.op = None
  /\ global.pc # "idle" => (global.op # None <=> PlanGlobalRequest(global.kind))
  /\ global.pc \in {"send", "replied"} => once = "up"
  /\ upRequest.pc = "idle" => upRequest.op = None
  /\ \A c \in Channels :
       /\ chan[c] = "idle" => finish[c] = None
       /\ request[c].pc = "idle" => request[c].op = None
       /\ request[c].pc # "idle" => chan[c] \in {"serve", "ended"}

\* The upstream connection, and what close() has left to do.
LinkInv ==
  /\ transport = "open" \/ closer.upstream => once = "up"
  /\ once \in {"none", "dialing"} => transport = "none"
  /\ once # "up" => bound = {} /\ \A k \in Keys : remoteForwards[k] = None
  /\ IF closed THEN /\ agentForward = None /\ \A k \in Keys : remoteForwards[k] = None
                    /\ transport = "open" => closer.upstream
               ELSE closer = [upstream |-> FALSE, ops |-> {}]

\* The table and the listeners of the upstream server, as long as every request is answered.
TableInv ==
  ~unconfirmed =>
    /\ transport = "open" /\ ~closed =>
         \A k \in Keys :
           \/ /\ global.pc = "replied" /\ global.key = k
              /\ global.kind \in {"tcpip-forward", "cancel-tcpip-forward"}
           \/ k \in bound <=> remoteForwards[k] # None
    /\ transport = "open" /\ global.pc = "replied" =>
         /\ global.kind = "tcpip-forward" => global.key \in bound
         /\ global.kind = "cancel-tcpip-forward" => global.key \notin bound
    /\ global.pc = "replied" /\ global.kind = "tcpip-forward" =>
         remoteForwards[global.key] = None

IInv == TypeOK /\ OwnInv /\ KeptInv /\ ControlInv /\ LinkInv /\ TableInv

-----------------------------------------------------------------------------
(* How callbacks change hands                                               *)

\* The places that a callback can be at.
LEMMA Places ==
  /\ \A s \in {"global", "upstream", "agent", "close"} : s \in Kinds /\ None \in Indices
  /\ \A s \in {"channel", "request"}, c \in Channels : s \in Kinds /\ c \in Indices
  /\ \A k \in Keys : "table" \in Kinds /\ k \in Indices
  BY Zenon DEF Kinds, Indices

\* The callback of a new operation is put at one place.
LEMMA Acquire ==
  ASSUME OwnInv, KeptInv, TypeOK, UNCHANGED unconfirmed,
         NEW o0 \in Ops, NEW s0 \in Kinds, NEW x0 \in Indices, Begin(o0),
         \A o \in Ops, s \in Kinds, x \in Indices :
           At(s, x, o)' <=> At(s, x, o) \/ (s = s0 /\ x = x0 /\ o = o0)
  PROVE  OwnInv' /\ KeptInv'
<1>1. \A s \in Kinds, x \in Indices : ~At(s, x, o0)
  BY Zenon DEF OwnInv, Begin
<1>2. \A o \in Ops : o # o0 => status'[o] = status[o]
  BY Zenon DEF Begin, TypeOK
<1>3. status'[o0] = "started"
  BY Zenon DEF Begin, TypeOK
<1>4. OwnInv'
  BY <1>1, <1>2, <1>3 DEF OwnInv
<1>5. KeptInv'
  BY <1>1, <1>2, <1>3, Zenon DEF KeptInv
<1> QED BY <1>4, <1>5, Zenon

\* The callbacks in R are completed, those in M move to one place and the others stay where
\* they are, but for some that get lost when a forward or its cancellation went unconfirmed.
Moved(R, M, s0, x0) ==
  /\ R \cup M \subseteq Ops /\ s0 \in Kinds /\ x0 \in Indices
  /\ FinishAll(R)
  /\ unconfirmed => unconfirmed'
  /\ \A o \in R \cup M : \E s \in Kinds, x \in Indices : At(s, x, o)
  /\ \A o \in Ops, s \in Kinds, x \in Indices :
       At(s, x, o)' => o \notin R /\ IF o \in M THEN s = s0 /\ x = x0 ELSE At(s, x, o)
  /\ ~unconfirmed' =>
       \A o \in Ops \ R, s \in Kinds, x \in Indices :
         (IF o \in M THEN s = s0 /\ x = x0 ELSE At(s, x, o)) => At(s, x, o)'

\* A transfer keeps every callback at one place and completes none twice.
LEMMA Transfer ==
  ASSUME OwnInv, KeptInv, TypeOK, NEW R, NEW M, NEW s0, NEW x0, Moved(R, M, s0, x0)
  PROVE  status' \in [Ops -> {"none", "started", "ended"}] /\ OwnInv' /\ KeptInv'
<1> USE DEF Moved
<1>1. \A o \in R \cup M : status[o] = "started"
  BY Zenon DEF OwnInv
<1>2. status' = [o \in Ops |-> IF o \in R THEN "ended" ELSE status[o]]
  BY <1>1, Zenon DEF FinishAll
<1>3. status' \in [Ops -> {"none", "started", "ended"}]
  BY <1>2, Zenon DEF TypeOK
<1>4. OwnInv'
  BY <1>1, <1>2 DEF OwnInv
<1>5. KeptInv'
  BY <1>1, <1>2, Zenon DEF KeptInv
<1> QED BY <1>3, <1>4, <1>5, Zenon

\* One callback is completed at its place; there may be none (nil).
LEMMA Release ==
  ASSUME OwnInv, KeptInv, TypeOK, unconfirmed => unconfirmed',
         NEW o0 \in Held, NEW s0 \in Kinds, NEW x0 \in Indices,
         Finish(o0), o0 # None => At(s0, x0, o0),
         \A o \in Ops, s \in Kinds, x \in Indices :
           At(s, x, o)' <=> At(s, x, o) /\ ~(s = s0 /\ x = x0 /\ o = o0)
  PROVE  status' \in [Ops -> {"none", "started", "ended"}] /\ OwnInv' /\ KeptInv'
<1> DEFINE R == {o0} \ {None}
<1>1. R \in SUBSET Ops /\ FinishAll(R)
  BY Zenon DEF Finish, Held
<1>2. \A o \in R : At(s0, x0, o) /\ \A s \in Kinds, x \in Indices : At(s, x, o) => s = s0 /\ x = x0
  BY <1>1 DEF OwnInv
<1>3. \A o \in Ops, s \in Kinds, x \in Indices : At(s, x, o)' <=> At(s, x, o) /\ o \notin R
  BY <1>1, <1>2, NoneAssumption, Zenon
<1> HIDE DEF R
<1>4. \A o \in R \cup {} : \E s \in Kinds, x \in Indices : At(s, x, o)
  BY <1>2, Zenon
<1>5. Moved(R, {}, s0, x0)
  BY <1>1, <1>3, <1>4, Zenon DEF Moved
<1> QED BY <1>5, Transfer, Zenon

\* Nothing is completed and nothing moves.
LEMMA Stay ==
  ASSUME OwnInv, KeptInv, unconfirmed => unconfirmed', UNCHANGED status,
         \A o \in Ops, s \in Kinds, x \in Indices : At(s, x, o)' <=> At(s, x, o)
  PROVE  OwnInv' /\ KeptInv'
  BY DEF OwnInv, KeptInv

-----------------------------------------------------------------------------
(* The actions                                                              *)

\* The client's global requests.
LEMMA HandleRequestPreserves ==
  ASSUME IInv, NEW kind \in GlobalKinds, NEW key \in Keys, NEW want \in BOOLEAN,
         NEW o \in Ops, HandleRequest(kind, key, want, o)
  PROVE  IInv'
<1> USE DEF IInv
<1>1. UNCHANGED <<chan, finish, request, upRequest, once, transport, bound, unconfirmed,
                  remoteForwards, agentForward, closed, closer, protoClosed>>
      /\ global.pc = "idle" /\ global'.pc \in {"authorize", "connect"}
  BY DEF HandleRequest, chanVars, linkVars, tableVars
<1>2. CASE PlanGlobalRequest(kind)
  <2>1. Begin(o)
        /\ global' = [pc |-> "authorize", kind |-> kind, key |-> key, want |-> want, op |-> o]
    BY <1>2, Zenon DEF HandleRequest
  <2>2. \A p \in Ops, s \in Kinds, x \in Indices :
          At(s, x, p)' <=> At(s, x, p) \/ (s = "global" /\ x = None /\ p = o)
    BY <1>1, <2>1, NoneAssumption DEF At, ControlInv
  <2>3. OwnInv' /\ KeptInv'
    BY <1>1, <2>1, <2>2, Acquire, Places, ZenonT(60)
  <2>4. TypeOK'
    BY <1>1, <2>1 DEF TypeOK, Begin, Held
  <2> QED BY <1>1, <1>2, <2>1, <2>3, <2>4, NoneAssumption, Zenon DEF ControlInv, LinkInv, TableInv
<1>3. CASE ~PlanGlobalRequest(kind)
  <2>1. UNCHANGED status
        /\ global' = [pc |-> "connect", kind |-> kind, key |-> key, want |-> want, op |-> None]
    BY <1>3, Zenon DEF HandleRequest
  <2>2. \A p \in Ops, s \in Kinds, x \in Indices : At(s, x, p)' <=> At(s, x, p)
    BY <1>1, <2>1, NoneAssumption DEF At, ControlInv
  <2>3. OwnInv' /\ KeptInv'
    BY <1>1, <2>1, <2>2, Stay, Zenon
  <2>4. TypeOK'
    BY <1>1, <2>1 DEF TypeOK, Held
  <2> QED BY <1>1, <1>3, <2>1, <2>3, <2>4, Zenon DEF ControlInv, LinkInv, TableInv
<1> QED BY <1>2, <1>3, Zenon

\* A channel that begins an operation, opened by the client or the upstream.
LEMMA ChannelBegins ==
  ASSUME IInv, NEW c \in Channels, NEW o \in Ops, NEW to \in {"authorize", "upAuthorize"},
         chan[c] = "idle", Begin(o), MoveChannel(c, to), finish' = [finish EXCEPT ![c] = o],
         UNCHANGED <<global, request, upRequest, linkVars, tableVars, protoClosed>>
  PROVE  IInv'
<1> USE DEF IInv, linkVars, tableVars
<1>1. \A p \in Ops, s \in Kinds, x \in Indices :
        At(s, x, p)' <=> At(s, x, p) \/ (s = "channel" /\ x = c /\ p = o)
  BY NoneAssumption DEF At, ControlInv, TypeOK
<1>2. OwnInv' /\ KeptInv'
  BY <1>1, Acquire, Places, ZenonT(60)
<1>3. TypeOK'
  BY DEF TypeOK, Begin, MoveChannel, Held
<1>4. ControlInv'
  BY DEF ControlInv, TypeOK, MoveChannel
<1> QED BY <1>2, <1>3, <1>4, Zenon DEF LinkInv, TableInv

\* A channel moves on with what it holds.
LEMMA ChannelMoves ==
  ASSUME IInv, NEW c \in Channels, NEW to \in {"connect", "open", "upOpen", "serve"},
         chan[c] \notin {"serve", "ended"}, MoveChannel(c, to),
         UNCHANGED <<status, finish, global, request, upRequest, linkVars, tableVars, protoClosed>>
  PROVE  IInv'
<1> USE DEF IInv, linkVars, tableVars
<1>1. \A p \in Ops, s \in Kinds, x \in Indices : At(s, x, p)' <=> At(s, x, p)
  BY DEF At
<1>2. OwnInv' /\ KeptInv'
  BY <1>1, Stay, Zenon
<1>3. TypeOK'
  BY DEF TypeOK, MoveChannel
<1>4. ControlInv'
  BY DEF ControlInv, TypeOK, MoveChannel
<1> QED BY <1>2, <1>3, <1>4, Zenon DEF LinkInv, TableInv

\* A channel ends and what it holds is completed.
LEMMA ChannelEnds ==
  ASSUME IInv, NEW c \in Channels, NEW to \in {"ended", "rejected"},
         chan[c] # "idle", to = "rejected" => chan[c] # "serve" /\ chan[c] # "ended",
         EndChannel(c, to),
         UNCHANGED <<global, request, upRequest, linkVars, tableVars, protoClosed>>
  PROVE  IInv'
<1> USE DEF IInv, linkVars, tableVars
<1>1. \A p \in Ops, s \in Kinds, x \in Indices :
        At(s, x, p)' <=> At(s, x, p) /\ ~(s = "channel" /\ x = c /\ p = finish[c])
  BY NoneAssumption DEF At, EndChannel, TypeOK
<1>2. /\ finish[c] \in Held /\ Finish(finish[c])
      /\ finish[c] # None => At("channel", c, finish[c])
  BY Zenon DEF At, EndChannel, TypeOK
<1>3. OwnInv' /\ KeptInv' /\ status' \in [Ops -> {"none", "started", "ended"}]
  BY <1>1, <1>2, Release, Places, ZenonT(60)
<1>4. TypeOK'
  BY <1>3 DEF TypeOK, EndChannel, MoveChannel, Held
<1>5. ControlInv'
  BY DEF ControlInv, TypeOK, EndChannel, MoveChannel
<1> QED BY <1>3, <1>4, <1>5, Zenon DEF LinkInv, TableInv

\* The goroutine that handles the global requests gives its callback up, for none or a
\* completed one.
LEMMA GlobalReleases ==
  ASSUME IInv, Finish(global.op), global' = IdleGlobal,
         global.pc = "replied" =>
           closed \/ global.kind \notin {"tcpip-forward", "cancel-tcpip-forward"},
         UNCHANGED <<chanVars, request, upRequest, linkVars, tableVars, protoClosed>>
  PROVE  IInv'
<1> USE DEF IInv, chanVars, linkVars, tableVars
<1>1. \A p \in Ops, s \in Kinds, x \in Indices :
        At(s, x, p)' <=> At(s, x, p) /\ ~(s = "global" /\ x = None /\ p = global.op)
  BY NoneAssumption DEF At, IdleGlobal
<1>2. global.op \in Held /\ (global.op # None => At("global", None, global.op))
  BY Zenon DEF At, TypeOK
<1>3. OwnInv' /\ KeptInv' /\ status' \in [Ops -> {"none", "started", "ended"}]
  BY <1>1, <1>2, Release, Places, ZenonT(60)
<1>4. TypeOK'
  BY <1>3, KeysAssumption DEF TypeOK, IdleGlobal, Held
<1>5. LinkInv' /\ ControlInv'
  BY Zenon DEF ControlInv, LinkInv, IdleGlobal
<1>6. TableInv'
  BY Zenon DEF TableInv, IdleGlobal
<1> QED BY <1>3, <1>4, <1>5, <1>6, Zenon

\* It moves on with what it holds.
LEMMA GlobalMoves ==
  ASSUME IInv, NEW to \in {"connect", "send"}, global.pc \in {"authorize", "connect"},
         to = "send" => once = "up", global' = [global EXCEPT !.pc = to],
         UNCHANGED <<status, chanVars, request, upRequest, linkVars, tableVars, protoClosed>>
  PROVE  IInv'
<1> USE DEF IInv, chanVars, linkVars, tableVars
<1>1. \A p \in Ops, s \in Kinds, x \in Indices : At(s, x, p)' <=> At(s, x, p)
  BY DEF At, TypeOK
<1>2. OwnInv' /\ KeptInv'
  BY <1>1, Stay, Zenon
<1>3. TypeOK'
  BY DEF TypeOK
<1> QED BY <1>2, <1>3 DEF ControlInv, LinkInv, TableInv, TypeOK

\* Callbacks that close() takes under the lock move to it.
LEMMA CloseMoves ==
  ASSUME IInv, CloseLocked, UNCHANGED unconfirmed,
         NEW R \in SUBSET Ops, FinishAll(R),
         \A o \in R : \E s \in {"global", "channel"}, x \in Indices : At(s, x, o),
         \A o \in Ops, s \in Kinds \ {"table", "agent", "close"}, x \in Indices :
           At(s, x, o)' <=> At(s, x, o) /\ o \notin R
  PROVE  /\ OwnInv' /\ KeptInv'
         /\ status' \in [Ops -> {"none", "started", "ended"}]
         /\ closer' \in [upstream : BOOLEAN, ops : SUBSET Ops]
         /\ remoteForwards' \in [Keys -> Held] /\ agentForward' \in Held /\ closed' \in BOOLEAN
         /\ transport' = transport /\ once' = once /\ UNCHANGED bound => LinkInv'
<1> USE DEF IInv
<1> DEFINE M == IF closed THEN {} ELSE CloseTakes
<1>1. M \in SUBSET Ops
  BY DEF TypeOK, CloseTakes, Held
<1>2. \A o \in M : \E s \in {"table", "agent"}, x \in Indices : At(s, x, o)
  BY <1>1, NoneAssumption DEF CloseTakes, At, Indices
<1>3. \A o \in R : o \notin M /\ \A s \in {"table", "agent", "close"}, x \in Indices : ~At(s, x, o)
  BY <1>2 DEF OwnInv, Kinds
<1>4. ASSUME NEW o \in Ops, NEW s \in Kinds, NEW x \in Indices
      PROVE  At(s, x, o)' <=>
               o \notin R /\ IF o \in M THEN s = "close" /\ x = None ELSE At(s, x, o)
  <2>1. CASE s \in {"table", "agent", "close"} /\ closed
    BY <1>3, <2>1, Zenon DEF CloseLocked, tableVars, At
  <2>2. CASE s \in {"table", "agent", "close"} /\ ~closed
    BY <1>2, <1>3, <2>2, NoneAssumption DEF CloseLocked, At, CloseTakes, LinkInv, TypeOK
  <2>3. CASE s \notin {"table", "agent", "close"}
    <3>1. o \in M => ~At(s, x, o)
      BY <1>2, <2>3, Places DEF OwnInv, Kinds
    <3> QED BY <2>3, <3>1, Zenon
  <2> QED BY <2>1, <2>2, <2>3, Zenon
<1>5. \A o \in R \cup M : \E s \in Kinds, x \in Indices : At(s, x, o)
  BY <1>2 DEF Kinds
<1>6. OwnInv' /\ KeptInv' /\ status' \in [Ops -> {"none", "started", "ended"}]
  <2> HIDE DEF M
  <2>1. \A o \in Ops, s \in Kinds, x \in Indices :
          At(s, x, o)' => o \notin R /\ IF o \in M THEN s = "close" /\ x = None ELSE At(s, x, o)
    BY <1>4, Zenon
  <2>2. ~unconfirmed' =>
           \A o \in Ops \ R, s \in Kinds, x \in Indices :
             (IF o \in M THEN s = "close" /\ x = None ELSE At(s, x, o)) => At(s, x, o)'
    BY <1>4, Zenon
  <2>3. Moved(R, M, "close", None)
    BY <1>1, <1>5, <2>1, <2>2, Places, Zenon DEF Moved
  <2> QED BY <2>3, Transfer, Zenon
<1>7. CASE closed
  BY <1>6, <1>7 DEF CloseLocked, tableVars, TypeOK, LinkInv
<1>8. CASE ~closed
  <2>1. (once = "up") \in BOOLEAN /\ CloseTakes \in SUBSET Ops
    BY <1>1, <1>8, Zenon
  <2>2. closer' = [upstream |-> once = "up", ops |-> CloseTakes]
    BY <1>8, Zenon DEF CloseLocked
  <2>3. closer' \in [upstream : BOOLEAN, ops : SUBSET Ops]
    BY <2>1, <2>2, Zenon
  <2>4. closed' = TRUE /\ agentForward' = None /\ remoteForwards' = [k \in Keys |-> None]
    BY <1>8, Zenon DEF CloseLocked
  <2>5. transport' = transport /\ once' = once /\ UNCHANGED bound => LinkInv'
    BY <2>2, <2>4, Zenon DEF LinkInv
  <2> QED BY <1>6, <2>3, <2>4, <2>5, Zenon DEF Held
<1> QED BY <1>7, <1>8, Zenon

\* The dial failed: the callback is completed and the proxy closed.
LEMMA ConnectRequestPreserves ==
  ASSUME IInv, ConnectRequest
  PROVE  IInv'
<1>1. CASE once = "up" /\ global' = [global EXCEPT !.pc = "send"] /\ UNCHANGED <<status, tableVars>>
  BY <1>1, GlobalMoves, Zenon DEF ConnectRequest
<1>2. CASE Finish(global.op) /\ CloseLocked /\ global' = IdleGlobal
  <2> USE DEF IInv
  <2> DEFINE R == {global.op} \ {None}
  <2>1. UNCHANGED <<chan, finish, request, upRequest, once, transport, bound, unconfirmed, protoClosed>>
        /\ global.pc = "connect"
    BY Zenon DEF ConnectRequest, chanVars, linkVars
  <2>2. R \in SUBSET Ops /\ FinishAll(R)
    BY <1>2, Zenon DEF Finish, TypeOK, Held
  <2>3. \A o \in R : At("global", None, o)
    BY Zenon DEF At
  <2>4. \A o \in Ops, s \in Kinds \ {"table", "agent", "close"}, x \in Indices :
          At(s, x, o)' <=> At(s, x, o) /\ ~(s = "global" /\ x = None /\ o \in R)
    <3>1. \A o \in Ops : global'.op # o
      BY <1>2, NoneAssumption, Zenon DEF IdleGlobal
    <3>2. ASSUME NEW o \in Ops, NEW s \in {"upstream", "channel", "request"}, NEW x \in Indices
          PROVE  At(s, x, o)' <=> At(s, x, o)
      BY <2>1, Zenon DEF At
    <3>3. ASSUME NEW o \in Ops, NEW x \in Indices
          PROVE  ~At("global", x, o)' /\ (At("global", x, o) => x = None /\ o \in R)
      BY <3>1, NoneAssumption, Zenon DEF At
    <3> SUFFICES ASSUME NEW o \in Ops, NEW s \in Kinds \ {"table", "agent", "close"},
                        NEW x \in Indices
                 PROVE  At(s, x, o)' <=> At(s, x, o) /\ ~(s = "global" /\ x = None /\ o \in R)
      BY Zenon
    <3>4. s \in {"upstream", "channel", "request"} \/ s = "global"
      BY Zenon DEF Kinds
    <3>5. CASE s = "global"
      BY <3>3, <3>5, Zenon
    <3>6. CASE s \in {"upstream", "channel", "request"}
      BY <3>2, <3>6, Zenon
    <3> QED BY <3>4, <3>5, <3>6, Zenon
  <2>5. \A o \in Ops, s \in Kinds \ {"table", "agent", "close"}, x \in Indices :
          At(s, x, o)' <=> At(s, x, o) /\ o \notin R
    BY <2>2, <2>3, <2>4, Places DEF OwnInv
  <2> HIDE DEF R
  <2>6. \A o \in R : \E s \in {"global", "channel"}, x \in Indices : At(s, x, o)
    BY <2>3, Places, Zenon
  <2>7. /\ OwnInv' /\ KeptInv' /\ LinkInv'
        /\ status' \in [Ops -> {"none", "started", "ended"}]
        /\ closer' \in [upstream : BOOLEAN, ops : SUBSET Ops]
        /\ remoteForwards' \in [Keys -> Held] /\ agentForward' \in Held /\ closed' \in BOOLEAN
    BY <1>2, <2>1, <2>2, <2>5, <2>6, CloseMoves, Zenon
  <2>8. TypeOK'
    BY <1>2, <2>1, <2>7, KeysAssumption, Zenon DEF TypeOK, IdleGlobal, Held
  <2>9. ControlInv' /\ TableInv'
    BY <1>2, <2>1, Zenon DEF ControlInv, TableInv, IdleGlobal, CloseLocked, tableVars
  <2> QED BY <2>7, <2>8, <2>9, Zenon
<1> QED BY <1>1, <1>2, Zenon DEF ConnectRequest

\* Likewise for a channel.
LEMMA ConnectChannelPreserves ==
  ASSUME IInv, NEW c \in Channels, ConnectChannel(c)
  PROVE  IInv'
<1>1. CASE once = "up" /\ MoveChannel(c, "open") /\ UNCHANGED <<status, finish, tableVars>>
  BY <1>1, ChannelMoves, Zenon DEF ConnectChannel
<1>2. CASE EndChannel(c, "rejected") /\ CloseLocked
  <2> USE DEF IInv
  <2> DEFINE R == {finish[c]} \ {None}
  <2>1. UNCHANGED <<global, request, upRequest, once, transport, bound, unconfirmed, protoClosed>>
        /\ chan[c] = "connect"
    BY Zenon DEF ConnectChannel, linkVars
  <2>2. R \in SUBSET Ops /\ FinishAll(R)
    BY <1>2, Zenon DEF EndChannel, Finish, TypeOK, Held
  <2>3. \A o \in R : At("channel", c, o)
    BY Zenon DEF At
  <2>4. \A o \in Ops, s \in Kinds \ {"table", "agent", "close"}, x \in Indices :
          At(s, x, o)' <=> At(s, x, o) /\ ~(s = "channel" /\ x = c /\ o \in R)
    BY <1>2, <2>1, NoneAssumption DEF At, EndChannel, TypeOK, Kinds
  <2>5. \A o \in Ops, s \in Kinds \ {"table", "agent", "close"}, x \in Indices :
          At(s, x, o)' <=> At(s, x, o) /\ o \notin R
    BY <2>2, <2>3, <2>4, Places DEF OwnInv
  <2> HIDE DEF R
  <2>6. \A o \in R : \E s \in {"global", "channel"}, x \in Indices : At(s, x, o)
    BY <2>3, Places, Zenon
  <2>7. /\ OwnInv' /\ KeptInv' /\ LinkInv'
        /\ status' \in [Ops -> {"none", "started", "ended"}]
        /\ closer' \in [upstream : BOOLEAN, ops : SUBSET Ops]
        /\ remoteForwards' \in [Keys -> Held] /\ agentForward' \in Held /\ closed' \in BOOLEAN
    BY <1>2, <2>1, <2>2, <2>5, <2>6, CloseMoves, Zenon
  <2>8. TypeOK'
    BY <1>2, <2>1, <2>7 DEF TypeOK, EndChannel, MoveChannel, Held
  <2>9. ControlInv'
    BY <1>2, <2>1 DEF ControlInv, TypeOK, EndChannel, MoveChannel
  <2>10. TableInv'
    BY <1>2, <2>1 DEF TableInv, CloseLocked, tableVars, ControlInv, TypeOK
  <2> QED BY <2>7, <2>8, <2>9, <2>10, Zenon
<1> QED BY <1>1, <1>2, Zenon DEF ConnectChannel

\* The upstream's answer to a global request.
LEMMA SendRequestPreserves ==
  ASSUME IInv, SendRequest
  PROVE  IInv'
<1>1. UNCHANGED <<chan, finish, request, upRequest, once, transport, remoteForwards,
                  agentForward, closed, closer, protoClosed>>
      /\ global.pc = "send"
  BY Zenon DEF SendRequest, chanVars, tableVars
<1>2. CASE Finish(global.op) /\ global' = IdleGlobal /\ UNCHANGED <<bound, unconfirmed>>
  BY <1>1, <1>2, GlobalReleases, Zenon DEF chanVars, linkVars, tableVars
<1>3. ASSUME NEW key \in Keys, UNCHANGED status,
             global' = [global EXCEPT !.pc = "replied", !.key = key],
             bound' \subseteq Keys, unconfirmed' \in BOOLEAN, unconfirmed => unconfirmed',
             transport = "open", TableInv'
      PROVE  IInv'
  <2> USE <1>1, <1>3 DEF IInv
  <2>1. \A p \in Ops, s \in Kinds, x \in Indices : At(s, x, p)' <=> At(s, x, p)
    BY DEF At, TypeOK
  <2>2. OwnInv' /\ KeptInv'
    BY <2>1, Stay, Zenon
  <2>3. TypeOK'
    BY Zenon DEF TypeOK
  <2> QED BY <2>2, <2>3 DEF ControlInv, LinkInv, TypeOK
<1>4. ASSUME transport = "open", global.want, NEW port \in Keys,
             UpstreamAccepts(global.kind, global.key, port), UNCHANGED <<status, unconfirmed>>,
             global' = [global EXCEPT !.pc = "replied", !.key = ActualRemoteForwardKey(@, port)]
      PROVE  IInv'
  <2> USE <1>1, <1>4 DEF IInv
  <2>1. ActualRemoteForwardKey(global.key, port) = port
    BY Zenon DEF ActualRemoteForwardKey, UpstreamAccepts
  <2>2. global' = [global EXCEPT !.pc = "replied", !.key = port] /\ bound' \subseteq Keys
    BY <2>1 DEF UpstreamAccepts, TypeOK
  <2>3. global'.pc = "replied" /\ global'.key = port /\ global'.kind = global.kind
    BY <2>2, Zenon DEF TypeOK
  <2>4. ~unconfirmed /\ ~closed => \A k \in Keys : k \in bound <=> remoteForwards[k] # None
    BY Zenon DEF TableInv
  <2>5. CASE global.kind = "tcpip-forward"
    <3>1. bound' = bound \cup {port} /\ port \notin bound
      BY <2>5, Zenon DEF UpstreamAccepts
    <3>2. ~unconfirmed => remoteForwards[port] = None
      BY <2>4, <3>1, Zenon DEF LinkInv, TypeOK
    <3>3. TableInv'
      BY <2>3, <2>4, <2>5, <3>1, <3>2 DEF TableInv
    <3> QED BY <1>3, <2>2, <3>3, Zenon DEF TypeOK
  <2>6. CASE global.kind = "cancel-tcpip-forward"
    <3>1. bound' = bound \ {port} /\ port = global.key
      BY <2>6, Zenon DEF UpstreamAccepts
    <3>2. TableInv'
      BY <2>3, <2>4, <2>6, <3>1 DEF TableInv
    <3> QED BY <1>3, <2>2, <3>2, Zenon DEF TypeOK
  <2>7. CASE global.kind \notin {"tcpip-forward", "cancel-tcpip-forward"}
    <3>1. UNCHANGED bound
      BY <2>7, Zenon DEF UpstreamAccepts
    <3>2. TableInv'
      BY <2>3, <2>4, <2>7, <3>1, Zenon DEF TableInv
    <3> QED BY <1>3, <2>2, <3>2, Zenon DEF TypeOK
  <2> QED BY <2>5, <2>6, <2>7, Zenon
<1>5. ASSUME transport = "open",
             UNCHANGED bound \/ \E port \in Keys : UpstreamAccepts(global.kind, global.key, port),
             global' = [global EXCEPT !.pc = "replied"], UNCHANGED status,
             unconfirmed' = (unconfirmed \/ global.kind \in {"tcpip-forward", "cancel-tcpip-forward"})
      PROVE  IInv'
  <2> USE <1>1, <1>5 DEF IInv
  <2>1. /\ global' = [global EXCEPT !.pc = "replied", !.key = global.key] /\ global.key \in Keys
        /\ bound' \subseteq Keys /\ unconfirmed' \in BOOLEAN
    BY ZenonT(60) DEF UpstreamAccepts, TypeOK
  <2>2. CASE global.kind \in {"tcpip-forward", "cancel-tcpip-forward"}
    BY <1>3, <2>1, <2>2, Zenon DEF TypeOK, TableInv
  <2>3. CASE global.kind \notin {"tcpip-forward", "cancel-tcpip-forward"}
    <3>1. UNCHANGED bound /\ (unconfirmed' <=> unconfirmed)
      BY <2>3, Zenon DEF UpstreamAccepts
    <3>2. TableInv'
      BY <2>1, <2>3, <3>1, Zenon DEF TableInv, TypeOK
    <3> QED BY <1>3, <2>1, <3>1, <3>2, Zenon DEF TypeOK
  <2> QED BY <2>2, <2>3, Zenon
<1> QED BY <1>2, <1>4, <1>5, Zenon DEF SendRequest

\* An accepted forward is stored, a cancelled one removed and completed.
LEMMA ApplyRequestPreserves ==
  ASSUME IInv, ApplyRequest
  PROVE  IInv'
<1>1. UNCHANGED <<chan, finish, request, upRequest, once, transport, bound, unconfirmed,
                  agentForward, closed, closer, protoClosed>>
      /\ global.pc = "replied" /\ global' = IdleGlobal
  BY Zenon DEF ApplyRequest, chanVars, linkVars
<1>2. CASE Finish(global.op) /\ UNCHANGED remoteForwards
           /\ (closed \/ global.kind \notin {"tcpip-forward", "cancel-tcpip-forward"})
  BY <1>1, <1>2, GlobalReleases, Zenon DEF chanVars, linkVars, tableVars
<1>3. CASE global.kind = "tcpip-forward" /\ ~closed
  <2> USE DEF IInv
  <2>1. /\ UNCHANGED status /\ remoteForwards' = [remoteForwards EXCEPT ![global.key] = global.op]
        /\ global.key \in Keys /\ global.op \in Ops
    BY <1>1, <1>3, Zenon DEF ApplyRequest, AddRemoteForward, MayStore, TypeOK, Held, ControlInv,
                      PlanGlobalRequest
  <2>2. At("global", None, global.op)
    BY Zenon DEF At
  <2>3. \A s \in Kinds, x \in Indices : At(s, x, global.op) => s = "global" /\ x = None
    BY <2>1, <2>2, Places, Zenon DEF OwnInv
  <2>4. FinishAll({})
    BY <2>1, Zenon DEF FinishAll, TypeOK
  <2>5. \A p \in Ops, s \in Kinds, x \in Indices :
          At(s, x, p)' => IF p = global.op THEN s = "table" /\ x = global.key ELSE At(s, x, p)
    BY <1>1, <2>1, <2>3, NoneAssumption DEF At, IdleGlobal, TypeOK
  <2>6. ~unconfirmed => remoteForwards[global.key] = None
    BY <1>1, <1>3, Zenon DEF TableInv
  <2>7. ~unconfirmed' => \A p \in Ops, s \in Kinds, x \in Indices :
          (IF p = global.op THEN s = "table" /\ x = global.key ELSE At(s, x, p)) => At(s, x, p)'
    BY <1>1, <2>1, <2>6, NoneAssumption DEF At, IdleGlobal, TypeOK
  <2>8. Moved({}, {global.op}, "table", global.key)
    BY <1>1, <2>1, <2>2, <2>4, <2>5, <2>7, Places DEF Moved
  <2>9. OwnInv' /\ KeptInv'
    BY <2>8, Transfer, Zenon
  <2>10. TypeOK'
    BY <1>1, <2>1, KeysAssumption DEF TypeOK, IdleGlobal, Held
  <2>11. LinkInv' /\ ControlInv'
    BY <1>1, <1>3, <2>1, Zenon DEF LinkInv, ControlInv, IdleGlobal, TypeOK
  <2>12. TableInv'
    BY <1>1, <1>3, <2>1, NoneAssumption, Zenon DEF TableInv, IdleGlobal, TypeOK
  <2> QED BY <2>9, <2>10, <2>11, <2>12, Zenon
<1>4. CASE global.kind = "cancel-tcpip-forward"
  <2> USE DEF IInv
  <2>1. /\ remoteForwards' = [remoteForwards EXCEPT ![global.key] = None]
        /\ Finish(remoteForwards[global.key]) /\ global.key \in Keys /\ global.op = None
    BY <1>1, <1>4, Zenon DEF ApplyRequest, RemoveRemoteForward, TypeOK, ControlInv, PlanGlobalRequest
  <2>2. \A p \in Ops, s \in Kinds, x \in Indices :
          At(s, x, p)' <=> At(s, x, p) /\ ~(s = "table" /\ x = global.key
                                            /\ p = remoteForwards[global.key])
    BY <1>1, <2>1, NoneAssumption DEF At, IdleGlobal, TypeOK
  <2>3. /\ remoteForwards[global.key] \in Held
        /\ At("table", global.key, remoteForwards[global.key])
    BY <2>1, Zenon DEF At, TypeOK
  <2>4. OwnInv' /\ KeptInv' /\ status' \in [Ops -> {"none", "started", "ended"}]
    <3>1. "table" \in Kinds /\ global.key \in Indices
      BY <2>1, Places, Zenon
    <3>2. OwnInv /\ KeptInv /\ TypeOK /\ (unconfirmed => unconfirmed')
      BY <1>1, Zenon
    <3>3. Finish(remoteForwards[global.key])
      BY <2>1, Zenon
    <3> HIDE DEF IInv
    <3> QED BY <2>2, <2>3, <3>1, <3>2, <3>3, Release, SMTT(30)
  <2>5. TypeOK'
    BY <1>1, <2>1, <2>4, KeysAssumption DEF TypeOK, IdleGlobal, Held
  <2>6. LinkInv' /\ ControlInv'
    BY <1>1, <1>4, <2>1, Zenon DEF LinkInv, ControlInv, IdleGlobal, TypeOK
  <2>7. TableInv'
    BY <1>1, <1>4, <2>1, Zenon DEF TableInv, IdleGlobal, TypeOK
  <2> QED BY <2>4, <2>5, <2>6, <2>7, Zenon
<1> QED BY <1>2, <1>3, <1>4, Zenon DEF ApplyRequest, AddRemoteForward, MayStore

\* The client's channel requests.
LEMMA ChannelRequestPreserves ==
  ASSUME IInv, NEW c \in Channels, NEW o \in Ops, NEW type, ChannelRequest(c, type, o)
  PROVE  IInv'
<1> USE DEF IInv
<1>1. UNCHANGED <<global, chan, finish, upRequest, once, transport, bound, unconfirmed,
                  remoteForwards, agentForward, closed, closer, protoClosed>>
      /\ request[c].pc = "idle" /\ chan[c] \in {"serve", "ended"} /\ Begin(o)
  BY Zenon DEF ChannelRequest, chanVars, linkVars, tableVars
<1>2. PICK effect \in {"session", "agent", "none"} :
        request' = [request EXCEPT ![c] = [pc |-> "authorize", effect |-> effect, op |-> o]]
  BY Zenon DEF ChannelRequest, PlanDownstreamRequest
<1>3. \A p \in Ops, s \in Kinds, x \in Indices :
        At(s, x, p)' <=> At(s, x, p) \/ (s = "request" /\ x = c /\ p = o)
  BY <1>1, <1>2, NoneAssumption DEF At, ControlInv, TypeOK
<1>4. OwnInv' /\ KeptInv'
  BY <1>1, <1>3, Acquire, Places, ZenonT(60)
<1>5. TypeOK'
  BY <1>1, <1>2 DEF TypeOK, Begin, Held
<1>6. ControlInv'
  <2>1. request'[c].pc = "authorize" /\ \A d \in Channels \ {c} : request'[d] = request[d]
    BY <1>2, Zenon DEF TypeOK
  <2> QED BY <1>1, <2>1, Zenon DEF ControlInv
<1> QED BY <1>1, <1>4, <1>5, <1>6, Zenon DEF LinkInv, TableInv

\* A channel request whose callback is completed leaves the loop.
LEMMA RequestReleases ==
  ASSUME IInv, NEW c \in Channels, Finish(request[c].op),
         request' = [request EXCEPT ![c] = IdleRequest],
         UNCHANGED <<global, chanVars, upRequest, linkVars, tableVars, protoClosed>>
  PROVE  IInv'
<1> USE DEF IInv, chanVars, linkVars, tableVars
<1>1. \A p \in Ops, s \in Kinds, x \in Indices :
        At(s, x, p)' <=> At(s, x, p) /\ ~(s = "request" /\ x = c /\ p = request[c].op)
  BY NoneAssumption DEF At, IdleRequest, TypeOK
<1>2. request[c].op \in Held /\ At("request", c, request[c].op)
  BY Zenon DEF At, TypeOK
<1>3. OwnInv' /\ KeptInv' /\ status' \in [Ops -> {"none", "started", "ended"}]
  BY <1>1, <1>2, Release, Places
<1>4. TypeOK'
  BY <1>3 DEF TypeOK, IdleRequest, Held
<1>5. ControlInv'
  BY DEF ControlInv, TypeOK, IdleRequest
<1> QED BY <1>3, <1>4, <1>5, Zenon DEF LinkInv, TableInv

\* The loop over the client's channel requests, before the request is applied.
LEMMA ForwardChannelRequestPreserves ==
  ASSUME IInv, NEW c \in Channels, ForwardChannelRequest(c)
  PROVE  IInv'
<1>1. CASE Finish(request[c].op) /\ request' = [request EXCEPT ![c] = IdleRequest]
  BY <1>1, RequestReleases, Zenon DEF ForwardChannelRequest
<1>2. ASSUME NEW to \in {"send", "sent"}, request' = [request EXCEPT ![c].pc = to],
             request[c].pc # "idle", UNCHANGED status
      PROVE  IInv'
  <2> USE <1>2 DEF IInv
  <2>1. UNCHANGED <<global, chan, finish, upRequest, once, transport, bound, unconfirmed,
                    remoteForwards, agentForward, closed, closer, protoClosed>>
    BY Zenon DEF ForwardChannelRequest, chanVars, linkVars, tableVars
  <2>2. \A p \in Ops, s \in Kinds, x \in Indices : At(s, x, p)' <=> At(s, x, p)
    BY <2>1 DEF At, TypeOK
  <2>3. OwnInv' /\ KeptInv'
    BY <2>1, <2>2, Stay, Zenon
  <2>4. TypeOK'
    BY <2>1 DEF TypeOK
  <2>5. ControlInv'
    BY <2>1 DEF ControlInv, TypeOK
  <2> QED BY <2>1, <2>3, <2>4, <2>5, Zenon DEF LinkInv, TableInv
<1> QED BY <1>1, <1>2, Zenon DEF ForwardChannelRequest

\* An accepted channel request changes what the channel or the agent slot holds.
LEMMA ApplyChannelRequestPreserves ==
  ASSUME IInv, NEW c \in Channels, ApplyChannelRequest(c)
  PROVE  IInv'
<1> DEFINE o == request[c].op
<1>1. UNCHANGED <<global, chan, upRequest, once, transport, bound, unconfirmed,
                  remoteForwards, closed, closer, protoClosed>>
      /\ request[c].pc = "sent" /\ request' = [request EXCEPT ![c] = IdleRequest]
  BY Zenon DEF ApplyChannelRequest, linkVars
<1>2. CASE Finish(o) /\ UNCHANGED <<finish, agentForward>>
  BY <1>1, <1>2, RequestReleases, Zenon DEF chanVars, linkVars, tableVars
<1>3. o \in Held /\ At("request", c, o)
  BY Zenon DEF IInv, At, TypeOK
<1>4. \A p \in {o} \ {None} :
        p \in Ops /\ \A s \in Kinds, x \in Indices : At(s, x, p) => s = "request" /\ x = c
  BY <1>3, Places DEF IInv, OwnInv, Held
<1>5. ASSUME NEW s0 \in Kinds, NEW x0 \in Indices, NEW old \in Held,
             \A p \in Ops : At(s0, x0, p) <=> p = old, s0 \in {"channel", "agent"},
             Finish(old),
             \A p \in Ops, s \in Kinds, x \in Indices :
               At(s, x, p)' <=> IF s = s0 /\ x = x0 THEN p = o
                                ELSE At(s, x, p) /\ ~(s = "request" /\ x = c)
      PROVE  OwnInv' /\ KeptInv' /\ status' \in [Ops -> {"none", "started", "ended"}]
  <2> USE <1>5
  <2> DEFINE R == {old} \ {None}
             M == {o} \ {None}
  <2>1. R \subseteq Ops /\ M \subseteq Ops /\ FinishAll(R)
    BY <1>3, Zenon DEF Held, Finish
  <2>2. \A p \in R : \A s \in Kinds, x \in Indices : At(s, x, p) <=> s = s0 /\ x = x0
    BY <2>1, Zenon DEF IInv, OwnInv
  <2>3. \A p \in M : p \notin R
    BY <1>3, <2>1, <2>2, Places
  <2>4. \A p \in Ops, s \in Kinds, x \in Indices :
          At(s, x, p)' <=> p \notin R /\ IF p \in M THEN s = s0 /\ x = x0 ELSE At(s, x, p)
    <3> SUFFICES ASSUME NEW p \in Ops, NEW s \in Kinds, NEW x \in Indices
                 PROVE  At(s, x, p)' <=>
                          p \notin R /\ IF p \in M THEN s = s0 /\ x = x0 ELSE At(s, x, p)
      BY Zenon
    <3>1. At("request", c, p) => p = o
      BY Zenon DEF At
    <3> QED BY <1>4, <2>2, <2>3, <3>1, NoneAssumption, Zenon
  <2>5. \A p \in R \cup M : \E s \in Kinds, x \in Indices : At(s, x, p)
    BY <1>3, <2>2, Places
  <2> HIDE DEF R, M
  <2>6. Moved(R, M, s0, x0)
    BY <1>1, <2>1, <2>4, <2>5, Zenon DEF Moved
  <2> QED BY <2>6, Transfer, Zenon DEF IInv
<1>6. CASE request[c].effect = "session"
  <2> USE DEF IInv
  <2>1. finish' = [finish EXCEPT ![c] = o] /\ Finish(finish[c]) /\ UNCHANGED agentForward
    BY <1>6, Zenon DEF ApplyChannelRequest, ReplaceFinish
  <2>2. \A p \in Ops, s \in Kinds, x \in Indices :
          At(s, x, p)' <=> IF s = "channel" /\ x = c THEN p = o
                           ELSE At(s, x, p) /\ ~(s = "request" /\ x = c)
    BY <1>1, <2>1, NoneAssumption DEF At, IdleRequest, TypeOK
  <2>3. finish[c] \in Held /\ \A p \in Ops : At("channel", c, p) <=> p = finish[c]
    BY Zenon DEF At, TypeOK
  <2>4. OwnInv' /\ KeptInv' /\ status' \in [Ops -> {"none", "started", "ended"}]
    BY <1>5, <2>1, <2>2, <2>3, Places
  <2>5. TypeOK'
    BY <1>1, <1>3, <2>1, <2>4 DEF TypeOK, IdleRequest, Held
  <2>6. ControlInv'
    BY <1>1, <2>1 DEF ControlInv, TypeOK, IdleRequest
  <2> QED BY <1>1, <2>1, <2>4, <2>5, <2>6, Zenon DEF LinkInv, TableInv
<1>7. CASE request[c].effect = "agent" /\ ~closed
  <2> USE DEF IInv
  <2>1. agentForward' = o /\ Finish(agentForward) /\ UNCHANGED finish
    BY <1>7, Zenon DEF ApplyChannelRequest, SetAgentForward
  <2>2. \A p \in Ops, s \in Kinds, x \in Indices :
          At(s, x, p)' <=> IF s = "agent" /\ x = None THEN p = o
                           ELSE At(s, x, p) /\ ~(s = "request" /\ x = c)
    BY <1>1, <2>1, NoneAssumption DEF At, IdleRequest, TypeOK
  <2>3. agentForward \in Held /\ \A p \in Ops : At("agent", None, p) <=> p = agentForward
    BY Zenon DEF At, TypeOK
  <2>4. OwnInv' /\ KeptInv' /\ status' \in [Ops -> {"none", "started", "ended"}]
    BY <1>5, <2>1, <2>2, <2>3, Places
  <2>5. TypeOK'
    BY <1>1, <1>3, <2>1, <2>4 DEF TypeOK, IdleRequest, Held
  <2>6. ControlInv'
    BY <1>1, <2>1 DEF ControlInv, TypeOK, IdleRequest
  <2> QED BY <1>1, <1>7, <2>1, <2>4, <2>5, <2>6, Zenon DEF LinkInv, TableInv
<1> QED BY <1>2, <1>6, <1>7, Zenon DEF ApplyChannelRequest, SetAgentForward

\* The upstream's global requests.
LEMMA UpstreamRequestPreserves ==
  ASSUME IInv, NEW o \in Ops, UpstreamRequest(o)
  PROVE  IInv'
<1> USE DEF IInv
<1>1. UNCHANGED <<global, chan, finish, request, once, transport, bound, unconfirmed,
                  remoteForwards, agentForward, closed, closer, protoClosed>>
      /\ upRequest.pc = "idle" /\ Begin(o) /\ upRequest' = [pc |-> "authorize", op |-> o]
  BY Zenon DEF UpstreamRequest, chanVars, linkVars, tableVars
<1>2. \A p \in Ops, s \in Kinds, x \in Indices :
        At(s, x, p)' <=> At(s, x, p) \/ (s = "upstream" /\ x = None /\ p = o)
  BY <1>1, NoneAssumption DEF At, ControlInv
<1>3. OwnInv' /\ KeptInv'
  BY <1>1, <1>2, Acquire, Places, Zenon
<1>4. TypeOK'
  BY <1>1 DEF TypeOK, Begin, Held
<1> QED BY <1>1, <1>3, <1>4, Zenon DEF ControlInv, LinkInv, TableInv

\* They are forwarded to the client, and completed in any case.
LEMMA ForwardUpstreamRequestPreserves ==
  ASSUME IInv, ForwardUpstreamRequest
  PROVE  IInv'
<1> USE DEF IInv
<1>1. UNCHANGED <<global, chan, finish, request, once, transport, bound, unconfirmed,
                  remoteForwards, agentForward, closed, closer, protoClosed>>
  BY Zenon DEF ForwardUpstreamRequest, chanVars, linkVars, tableVars
<1>2. CASE upRequest.pc = "authorize" /\ upRequest' = [upRequest EXCEPT !.pc = "send"]
           /\ UNCHANGED status
  <2>1. \A p \in Ops, s \in Kinds, x \in Indices : At(s, x, p)' <=> At(s, x, p)
    BY <1>1, <1>2 DEF At, TypeOK
  <2>2. OwnInv' /\ KeptInv'
    BY <1>1, <1>2, <2>1, Stay, Zenon
  <2>3. TypeOK'
    BY <1>1, <1>2 DEF TypeOK
  <2> QED BY <1>1, <1>2, <2>2, <2>3 DEF ControlInv, LinkInv, TableInv, TypeOK
<1>3. CASE Finish(upRequest.op) /\ upRequest' = [pc |-> "idle", op |-> None]
  <2>1. \A p \in Ops, s \in Kinds, x \in Indices :
          At(s, x, p)' <=> At(s, x, p) /\ ~(s = "upstream" /\ x = None /\ p = upRequest.op)
    BY <1>1, <1>3, NoneAssumption DEF At
  <2>2. upRequest.op \in Held /\ At("upstream", None, upRequest.op)
    BY Zenon DEF At, TypeOK
  <2>3. OwnInv' /\ KeptInv' /\ status' \in [Ops -> {"none", "started", "ended"}]
    BY <1>1, <1>3, <2>1, <2>2, Release, Places, Zenon
  <2>4. TypeOK'
    BY <1>1, <1>3, <2>3, SMTT(30) DEF TypeOK, Held
  <2> QED BY <1>1, <1>3, <2>3, <2>4, Zenon DEF ControlInv, LinkInv, TableInv
<1> QED BY <1>2, <1>3, Zenon DEF ForwardUpstreamRequest

\* close() takes what is stored, closes the upstream and completes the callbacks it took.
LEMMA ClosePreserves ==
  ASSUME IInv, CloseStep
  PROVE  IInv'
<1> USE DEF IInv
<1>1. CASE CloseProxy
  <2>1. UNCHANGED <<status, global, chan, finish, request, upRequest, once, transport, bound,
                    unconfirmed, protoClosed>> /\ CloseLocked
    BY <1>1, Zenon DEF CloseProxy, chanVars, linkVars
  <2>2. FinishAll({}) /\ \A o \in {} : \E s \in {"global", "channel"}, x \in Indices : At(s, x, o)
    BY <2>1, Zenon DEF FinishAll, TypeOK
  <2>3. \A o \in Ops, s \in Kinds \ {"table", "agent", "close"}, x \in Indices :
          At(s, x, o)' <=> At(s, x, o) /\ o \notin {}
    BY <2>1 DEF At, Kinds
  <2>4. /\ OwnInv' /\ KeptInv' /\ LinkInv'
        /\ closer' \in [upstream : BOOLEAN, ops : SUBSET Ops]
        /\ remoteForwards' \in [Keys -> Held] /\ agentForward' \in Held /\ closed' \in BOOLEAN
    BY <2>1, <2>2, <2>3, CloseMoves, Zenon
  <2>5. TypeOK' /\ ControlInv'
    BY <2>1, <2>4 DEF TypeOK, ControlInv
  <2>6. TableInv'
    BY <2>1 DEF TableInv, CloseLocked, tableVars, TypeOK
  <2> QED BY <2>4, <2>5, <2>6, Zenon
<1>2. CASE CloseUpstream
  <2>1. UNCHANGED <<status, global, chan, finish, request, upRequest, once, unconfirmed,
                    remoteForwards, agentForward, closed, protoClosed>>
        /\ transport' = "closed" /\ bound' = {} /\ closer.upstream
        /\ closer' = [closer EXCEPT !.upstream = FALSE]
    BY <1>2, Zenon DEF CloseUpstream, chanVars
  <2>2. \A p \in Ops, s \in Kinds, x \in Indices : At(s, x, p)' <=> At(s, x, p)
    BY <2>1 DEF At, TypeOK
  <2>3. OwnInv' /\ KeptInv'
    BY <2>1, <2>2, Stay, Zenon
  <2>4. closer' \in [upstream : BOOLEAN, ops : SUBSET Ops]
    BY <2>1, Zenon DEF TypeOK
  <2>5. TypeOK' /\ ControlInv'
    BY <2>1, <2>4 DEF TypeOK, ControlInv
  <2>6. closed /\ once = "up" /\ ~closer'.upstream
    BY <2>1 DEF LinkInv, TypeOK
  <2> QED BY <2>1, <2>3, <2>5, <2>6, Zenon DEF LinkInv, TableInv
<1>3. ASSUME NEW o \in Ops, CloseFinishes(o) PROVE IInv'
  <2>1. UNCHANGED <<global, chan, finish, request, upRequest, once, transport, bound, unconfirmed,
                    remoteForwards, agentForward, closed, protoClosed>>
        /\ o \in closer.ops /\ Finish(o) /\ closer' = [closer EXCEPT !.ops = @ \ {o}]
    BY <1>3, Zenon DEF CloseFinishes, chanVars, linkVars
  <2>2. \A p \in Ops, s \in Kinds, x \in Indices :
          At(s, x, p)' <=> At(s, x, p) /\ ~(s = "close" /\ x = None /\ p = o)
    BY <2>1, NoneAssumption DEF At, TypeOK
  <2>3. o \in Held /\ At("close", None, o)
    BY <2>1, Zenon DEF At, Held
  <2>4. OwnInv' /\ KeptInv' /\ status' \in [Ops -> {"none", "started", "ended"}]
    BY <2>1, <2>2, <2>3, Release, Places, Zenon
  <2>5. TypeOK' /\ ControlInv'
    BY <2>1, <2>4 DEF TypeOK, ControlInv
  <2>6. closed
    BY <2>1 DEF LinkInv
  <2> QED BY <2>1, <2>4, <2>5, <2>6, Zenon DEF LinkInv, TableInv, TypeOK
<1> QED BY <1>1, <1>2, <1>3, Zenon DEF CloseStep

\* The dial, the end of the upstream connection and Protocol.Close touch no callback.
LEMMA LinkPreserves ==
  ASSUME IInv, DialStep \/ UpstreamEnds \/ ProtocolClose
  PROVE  IInv'
<1> USE DEF IInv
<1>1. UNCHANGED <<status, global, chan, finish, request, upRequest, unconfirmed,
                  remoteForwards, agentForward, closed, closer>>
  BY Zenon DEF DialStep, StartDial, DialReturns, UpstreamEnds, ProtocolClose, chanVars, linkVars,
         tableVars
<1>2. \A p \in Ops, s \in Kinds, x \in Indices : At(s, x, p)' <=> At(s, x, p)
  BY <1>1 DEF At
<1>3. OwnInv' /\ KeptInv'
  BY <1>1, <1>2, Stay, Zenon
<1>4. TypeOK'
  <2>1. CASE StartDial
    BY <1>1, <2>1, Zenon DEF StartDial, TypeOK
  <2>2. CASE DialReturns
    BY <1>1, <2>2, Zenon DEF DialReturns, TypeOK
  <2>3. CASE UpstreamEnds
    BY <1>1, <2>3, Zenon DEF UpstreamEnds, TypeOK
  <2>4. CASE ProtocolClose
    BY <1>1, <2>4, Zenon DEF ProtocolClose, linkVars, TypeOK
  <2> QED BY <2>1, <2>2, <2>3, <2>4, Zenon DEF DialStep
<1>6. /\ transport' = "open" => transport = "open" \/ (once = "dialing" /\ once' = "up" /\ ~closed)
      /\ once' = once \/ (once = "none" /\ once' = "dialing" /\ UNCHANGED transport)
                      \/ (once = "dialing" /\ once' \in {"up", "failed"})
      /\ UNCHANGED transport \/ transport = "open" \/ (once = "dialing" /\ once' # "dialing")
      /\ bound' = bound \/ (bound' = {} /\ transport' # "open")
  <2>1. CASE StartDial
    BY <2>1, Zenon DEF StartDial
  <2>2. CASE DialReturns
    BY <1>1, <2>2, Zenon DEF DialReturns, MayKeepUpstream
  <2>3. CASE UpstreamEnds
    BY <2>3, Zenon DEF UpstreamEnds
  <2>4. CASE ProtocolClose
    BY <2>4, Zenon DEF ProtocolClose, linkVars
  <2> QED BY <2>1, <2>2, <2>3, <2>4, Zenon DEF DialStep
<1>7. /\ once' \in {"none", "dialing"} => once \in {"none", "dialing"} /\ transport' = "none"
      /\ once' # "up" => once # "up"
  BY <1>6 DEF LinkInv
<1>5. ControlInv'
  BY <1>1, <1>6, Zenon DEF ControlInv
<1>8. LinkInv'
  BY <1>1, <1>6, <1>7 DEF LinkInv
<1>9. TableInv'
  <2>1. CASE once = "dialing"
    <3>1. global.pc # "replied" /\ bound' = {} /\ \A k \in Keys : remoteForwards'[k] = None
      BY <1>1, <1>6, <2>1, Zenon DEF LinkInv, ControlInv
    <3> QED BY <1>1, <3>1, Zenon DEF TableInv
  <2>2. CASE once # "dialing"
    BY <1>1, <1>6, <2>2, Zenon DEF TableInv
  <2> QED BY <2>1, <2>2, Zenon
<1> QED BY <1>3, <1>4, <1>5, <1>8, <1>9, Zenon

\* A channel's handler and its serve goroutine.
LEMMA ChannelPreserves ==
  ASSUME IInv, NEW c \in Channels, ChannelStep(c) \/ ProxyReturns(c)
  PROVE  IInv'
<1>1. CASE AuthorizeChannel(c)
  BY <1>1, ChannelEnds, ChannelMoves, Zenon DEF AuthorizeChannel
<1>2. CASE ConnectChannel(c)
  BY <1>2, ConnectChannelPreserves, Zenon
<1>3. CASE OpenChannel(c)
  BY <1>3, ChannelEnds, ChannelMoves, Zenon DEF OpenChannel
<1>4. CASE ProxyReturns(c)
  BY <1>4, ChannelEnds, Zenon DEF ProxyReturns
<1> QED BY <1>1, <1>2, <1>3, <1>4, Zenon DEF ChannelStep

\* What the client and the upstream send.
LEMMA MessagePreserves ==
  ASSUME IInv, ClientMessage \/ UpstreamMessage
  PROVE  IInv'
<1>1. ASSUME NEW o \in Ops, NEW req \in GlobalRequests, HandleRequest(req[1], req[2], req[3], o)
      PROVE  IInv'
  <2>1. req[1] \in GlobalKinds /\ req[2] \in Keys /\ req[3] \in BOOLEAN
    BY KindsAssumption, Zenon
  <2> QED BY <1>1, <2>1, HandleRequestPreserves, Zenon
<1>2. ASSUME NEW o \in Ops, NEW c \in ClientChannels, NEW type, HandleChannel(c, type, o)
      PROVE  IInv'
  BY <1>2, ChannelBegins, ChannelMoves, Zenon DEF HandleChannel, Channels
<1>3. ASSUME NEW o \in Ops, NEW c \in UpstreamChannels, NEW type, UpstreamChannel(c, type, o)
      PROVE  IInv'
  BY <1>3, ChannelBegins, ChannelMoves, Zenon DEF UpstreamChannel, Channels
<1> QED BY <1>1, <1>2, <1>3, ChannelRequestPreserves, UpstreamRequestPreserves, Zenon
        DEF ClientMessage, UpstreamMessage

\* No callback is held by anybody on a new connection.
LEMMA InitIInv == Init => IInv
<1> SUFFICES ASSUME Init PROVE IInv
  BY Zenon
<1>1. TypeOK
  BY KeysAssumption, Zenon DEF Init, TypeOK, IdleGlobal, IdleRequest, Held
<1>2. \A o \in Ops, s \in Kinds, x \in Indices : ~At(s, x, o)
  BY NoneAssumption, Zenon DEF Init, At, IdleGlobal, IdleRequest
<1>3. OwnInv /\ KeptInv
  BY <1>2, Zenon DEF Init, OwnInv, KeptInv
<1>4. ControlInv /\ LinkInv /\ TableInv
  BY Zenon DEF Init, ControlInv, LinkInv, TableInv, IdleGlobal, IdleRequest
<1> QED BY <1>1, <1>3, <1>4, Zenon DEF IInv

\* The callback of every operation is at one place at a time, whatever the goroutines of the
\* proxy interleave.
THEOREM InductiveInvariant == Spec => []IInv
<1>1. Init => IInv
  BY InitIInv, Zenon
<1>2. IInv /\ [Next]_vars => IInv'
  <2> SUFFICES ASSUME IInv, [Next]_vars PROVE IInv'
    BY Zenon
  <2>1. CASE UNCHANGED vars
    <3> USE <2>1 DEF IInv, vars, chanVars, linkVars, tableVars
    <3>1. \A o \in Ops, s \in Kinds, x \in Indices : At(s, x, o)' <=> At(s, x, o)
      BY DEF At
    <3>2. OwnInv' /\ KeptInv'
      BY <3>1, Stay, Zenon
    <3>3. TypeOK' /\ ControlInv'
      <4>1. TypeOK'
        BY DEF TypeOK
      <4>2. ControlInv'
        BY Zenon DEF ControlInv
      <4> QED BY <4>1, <4>2, Zenon
    <3>4. LinkInv'
      BY Zenon DEF LinkInv
    <3>5. TableInv'
      BY Zenon DEF TableInv
    <3> QED BY <3>2, <3>3, <3>4, <3>5, Zenon
  <2>2. CASE GlobalStep
    <3>1. AuthorizeRequest => IInv'
      BY GlobalReleases, GlobalMoves, Zenon DEF AuthorizeRequest
    <3> QED BY <2>2, <3>1, ConnectRequestPreserves, SendRequestPreserves, ApplyRequestPreserves, Zenon
            DEF GlobalStep
  <2>3. CASE \E c \in Channels : ChannelStep(c) \/ RequestStep(c) \/ ProxyReturns(c)
    BY <2>3, ChannelPreserves, ForwardChannelRequestPreserves, ApplyChannelRequestPreserves, Zenon
    DEF RequestStep
  <2> QED BY <2>1, <2>2, <2>3, MessagePreserves, LinkPreserves, ClosePreserves,
             ForwardUpstreamRequestPreserves, Zenon DEF Next
<1> QED BY <1>1, <1>2, PTL DEF Spec

\* Type correctness, which includes that no callback is completed twice.
THEOREM TypeCorrect == Spec => []TypeOK
  BY InductiveInvariant, PTL DEF IInv

\* The callback of a started operation is never dropped, but for the two cases that the
\* property names.
THEOREM CallbacksKept == Spec => []OutstandingIsHeld
<1>1. IInv => OutstandingIsHeld
  <2> SUFFICES ASSUME IInv, NEW o \in Ops, Abandoned(o), ~unconfirmed
               PROVE  \E c \in Channels : finish[c] = o /\ chan[c] = "ended"
    BY Zenon DEF OutstandingIsHeld
  <2>1. PICK s \in Kinds, x \in Indices : At(s, x, o)
    BY Zenon DEF IInv, KeptInv, Abandoned
  <2> QED BY <2>1, Zenon DEF At, Abandoned, HeldBy
<1> QED BY <1>1, InductiveInvariant, PTL

\* close() leaves no callback in the table or the agent slot, and no upstream connection.
THEOREM CloseReleases == Spec => []ClosedHoldsNothing
<1>1. IInv => ClosedHoldsNothing
  BY Zenon DEF IInv, LinkInv, ClosedHoldsNothing
<1> QED BY <1>1, InductiveInvariant, PTL

\* The table of remote forwards and the upstream's listeners differ only by the request
\* being handled.
THEOREM TableIsUpstreams == Spec => []TableFollowsUpstream
<1>1. IInv => TableFollowsUpstream
  BY DEF IInv, TableInv, TableFollowsUpstream
<1> QED BY <1>1, InductiveInvariant, PTL

-----------------------------------------------------------------------------
(* Refinement of the operation lifecycle                                    *)

\* A step begins at most one operation or completes at most one callback.
CallsBack ==
  \/ UNCHANGED status
  \/ \E o \in Ops : Begin(o)
  \/ \E o \in Held : Finish(o)

\* Such a step is a step or a stutter of the lifecycle, if it completes no callback twice.
LEMMA CallbackSimulates ==
  ASSUME TypeOK, TypeOK', CallsBack, UNCHANGED protoClosed
  PROVE  [Lifecycle!Next]_(Lifecycle!vars)
<1>1. CASE UNCHANGED status
  BY <1>1, Zenon DEF Lifecycle!vars
<1>2. ASSUME NEW o \in Ops, Begin(o) PROVE [Lifecycle!Next]_(Lifecycle!vars)
  BY <1>2, Zenon DEF Begin, Lifecycle!Next, Lifecycle!Begin
<1>3. ASSUME NEW o \in Held, Finish(o) PROVE [Lifecycle!Next]_(Lifecycle!vars)
  <2>1. CASE o = None
    <3>1. \A p \in Ops : status'[p] = status[p]
      BY <1>3, <2>1, Zenon DEF Finish, FinishAll
    <3>2. status \in [Ops -> {"none", "started", "ended"}]
          /\ status' \in [Ops -> {"none", "started", "ended"}]
      BY Zenon DEF TypeOK
    <3>3. status' = status
      BY <3>1, <3>2
    <3> QED BY <3>3, Zenon DEF Lifecycle!vars
  <2>2. CASE o \in Ops
    <3>1. status'[o] = IF status[o] = "started" THEN "ended" ELSE "endedTwice"
      BY <1>3, <2>2, NoneAssumption, Zenon DEF Finish, FinishAll
    <3>2. \A p \in Ops \ {o} : status'[p] = status[p]
      BY <1>3, Zenon DEF Finish, FinishAll
    <3>3. status[o] = "started" /\ status'[o] = "ended"
      BY <2>2, <3>1, Zenon DEF TypeOK
    <3>4. status' = [status EXCEPT ![o] = "ended"]
      BY <3>2, <3>3, Zenon DEF TypeOK
    <3> QED BY <2>2, <3>3, <3>4, Zenon DEF Lifecycle!Next, Lifecycle!Finish
  <2> QED BY <2>1, <2>2, Zenon DEF Held
<1> QED BY <1>1, <1>2, <1>3, Zenon DEF CallsBack

\* The client's and the upstream's messages begin operations.
LEMMA MessageCallsBack ==
  ASSUME ClientMessage \/ UpstreamMessage
  PROVE  CallsBack /\ UNCHANGED protoClosed
<1> USE DEF CallsBack
<1>1. ASSUME NEW o \in Ops, NEW kind, NEW key, NEW want, HandleRequest(kind, key, want, o)
      PROVE  CallsBack /\ UNCHANGED protoClosed
  BY <1>1, Zenon DEF HandleRequest
<1>2. ASSUME NEW o \in Ops, NEW c, NEW type, HandleChannel(c, type, o) \/ UpstreamChannel(c, type, o)
      PROVE  CallsBack /\ UNCHANGED protoClosed
  BY <1>2, Zenon DEF HandleChannel, UpstreamChannel
<1>3. ASSUME NEW o \in Ops, NEW c, NEW type, ChannelRequest(c, type, o) \/ UpstreamRequest(o)
      PROVE  CallsBack /\ UNCHANGED protoClosed
  BY <1>3, Zenon DEF ChannelRequest, UpstreamRequest
<1> HIDE DEF CallsBack
<1> QED BY <1>1, <1>2, <1>3, Zenon DEF ClientMessage, UpstreamMessage

\* The handler of a global request completes its own callback, or the one it takes out of
\* the table.
LEMMA GlobalCallsBack ==
  ASSUME TypeOK, GlobalStep
  PROVE  CallsBack /\ UNCHANGED protoClosed
<1> USE DEF CallsBack
<1>1. global.op \in Held /\ remoteForwards[global.key] \in Held
  BY Zenon DEF TypeOK
<1>2. CASE AuthorizeRequest \/ ConnectRequest
  BY <1>1, <1>2, Zenon DEF AuthorizeRequest, ConnectRequest
<1>3. CASE SendRequest
  BY <1>1, <1>3, Zenon DEF SendRequest
<1>4. CASE ApplyRequest
  BY <1>1, <1>4, Zenon DEF ApplyRequest, AddRemoteForward, RemoveRemoteForward
<1> QED BY <1>2, <1>3, <1>4, Zenon DEF GlobalStep

\* A channel and its requests: the callback the channel holds, that of the request, or the
\* one in the agent slot.
LEMMA ChannelCallsBack ==
  ASSUME TypeOK, NEW c \in Channels, ChannelStep(c) \/ RequestStep(c) \/ ProxyReturns(c)
  PROVE  CallsBack /\ UNCHANGED protoClosed
<1> USE DEF CallsBack
<1>1. finish[c] \in Held /\ request[c].op \in Held /\ agentForward \in Held
  BY Zenon DEF TypeOK
<1>2. CASE AuthorizeChannel(c) \/ ConnectChannel(c)
  BY <1>1, <1>2, Zenon DEF AuthorizeChannel, ConnectChannel, EndChannel
<1>3. CASE OpenChannel(c) \/ ProxyReturns(c)
  BY <1>1, <1>3, Zenon DEF OpenChannel, ProxyReturns, EndChannel
<1>4. CASE ForwardChannelRequest(c)
  BY <1>1, <1>4, Zenon DEF ForwardChannelRequest
<1>5. CASE ApplyChannelRequest(c)
  <2>1. CASE request[c].effect = "session"
    BY <1>1, <1>5, <2>1, Zenon DEF ApplyChannelRequest, ReplaceFinish
  <2>2. CASE request[c].effect = "agent"
    BY <1>1, <1>5, <2>2, Zenon DEF ApplyChannelRequest, SetAgentForward
  <2>3. CASE request[c].effect \notin {"session", "agent"}
    BY <1>1, <1>5, <2>3, Zenon DEF ApplyChannelRequest
  <2> QED BY <2>1, <2>2, <2>3, Zenon
<1> QED BY <1>2, <1>3, <1>4, <1>5, Zenon DEF ChannelStep, RequestStep

\* Dialling, the upstream's requests and close().
LEMMA OtherCallsBack ==
  ASSUME TypeOK, DialStep \/ UpstreamEnds \/ ForwardUpstreamRequest \/ CloseStep
  PROVE  CallsBack /\ UNCHANGED protoClosed
<1> USE DEF CallsBack
<1>1. upRequest.op \in Held
  BY Zenon DEF TypeOK
<1>2. CASE DialStep \/ UpstreamEnds
  BY <1>2, Zenon DEF DialStep, StartDial, DialReturns, UpstreamEnds
<1>3. CASE ForwardUpstreamRequest
  BY <1>1, <1>3, Zenon DEF ForwardUpstreamRequest
<1>4. CASE CloseProxy \/ CloseUpstream
  BY <1>4, Zenon DEF CloseProxy, CloseUpstream
<1>5. ASSUME NEW o \in Ops, CloseFinishes(o) PROVE CallsBack /\ UNCHANGED protoClosed
  BY <1>5, Zenon DEF CloseFinishes, Held
<1> QED BY <1>2, <1>3, <1>4, <1>5, Zenon DEF CloseStep

\* The proxy implements the safety part of the operation lifecycle as it stands: whatever
\* its goroutines interleave, a callback is completed at most once, and only after its
\* operation began.
THEOREM LifecycleRefined == Spec => Lifecycle!Safety
<1>1. Init => Lifecycle!Init
  BY Zenon DEF Init, Lifecycle!Init
<1>2. IInv /\ IInv' /\ [Next]_vars => [Lifecycle!Next]_(Lifecycle!vars)
  <2> SUFFICES ASSUME IInv, IInv', [Next]_vars PROVE [Lifecycle!Next]_(Lifecycle!vars)
    BY Zenon
  <2>1. TypeOK /\ TypeOK'
    BY Zenon DEF IInv
  <2>2. CASE UNCHANGED vars
    BY <2>2, Zenon DEF vars, Lifecycle!vars
  <2>3. CASE ProtocolClose
    BY <2>3, Zenon DEF ProtocolClose, Lifecycle!Next, Lifecycle!GoDown
  <2>4. CASE CallsBack /\ UNCHANGED protoClosed
    BY <2>1, <2>4, CallbackSimulates, Zenon
  <2>5. CASE ClientMessage \/ UpstreamMessage
    BY <2>4, <2>5, MessageCallsBack, Zenon
  <2>6. CASE GlobalStep
    BY <2>1, <2>4, <2>6, GlobalCallsBack, Zenon
  <2>7. ASSUME NEW c \in Channels, ChannelStep(c) \/ RequestStep(c) \/ ProxyReturns(c)
        PROVE  [Lifecycle!Next]_(Lifecycle!vars)
    BY <2>1, <2>4, <2>7, ChannelCallsBack, Zenon
  <2>8. CASE DialStep \/ UpstreamEnds \/ ForwardUpstreamRequest \/ CloseStep
    BY <2>1, <2>4, <2>8, OtherCallsBack, Zenon
  <2> QED BY <2>2, <2>3, <2>5, <2>6, <2>7, <2>8, Zenon DEF Next
<1> QED BY <1>1, <1>2, InductiveInvariant, PTL DEF Spec, Lifecycle!Safety
=============================================================================
