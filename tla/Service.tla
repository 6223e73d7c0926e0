------------------------------- MODULE Service -------------------------------
(***************************************************************************)
(* The server of Network/muduo_server/Service.h seen from its TCP links:   *)
(* OnMessage takes everything that has arrived (retrieveAllAsString) and   *)
(* sends one response, chosen by the message types it finds in the text.   *)
(* A link is a pair of byte streams, each a sequence of pieces.  Nothing   *)
(* in the text tells the server where a request begins or ends: a request  *)
(* that arrives in two reads gets two responses.                           *)
(***************************************************************************)
EXTENDS Integers, Sequences

CONSTANTS
  Links,       \* the TCP connections that can exist
  Parts,       \* the pieces that TCP may cut a request into
  Mark,        \* Mark[kind]: the pieces over which the request's type is spread
  Pieces       \* Pieces[kind]: how many pieces the response to kind fills

Kinds == DOMAIN Pieces

VARIABLES
  request,     \* request[l]: pieces sent and not yet taken by OnMessage
  response,    \* response[l]: pieces sent and not yet received by the client
  cuts,        \* history: cuts[l] reads of OnMessage ended inside a request
  up           \* the links whose two ends are open

serverVars == <<request, response, cuts, up>>

\* The order in which OnMessage and OnCommonRsp look for message types.
Lookup == <<"6011", "6031", "6014", "6012">>

\* The text of a read shows a type when all of its characters are in it.
Shows(batch, kind) ==
  \E k \in DOMAIN batch :
    /\ batch[k].kind = kind
    /\ Mark[kind] \subseteq {batch[i].part : i \in {j \in DOMAIN batch : batch[j].req = batch[k].req}}

\* The response to the text of a read: the first type found in it.
Dispatch(batch) ==
  LET found == {j \in DOMAIN Lookup : Shows(batch, Lookup[j])}
  IN IF found = {} THEN "other"
     ELSE Lookup[CHOOSE j \in found : \A k \in found : j <= k]

\* One response to `batch', as pieces that name the last request it has bytes of.
Respond(batch) ==
  LET kind == Dispatch(batch)
  IN [p \in 1 .. Pieces[kind] |->
        [req |-> batch[Len(batch)].req, kind |-> kind, last |-> p = Pieces[kind]]]

\* A bug of the dispatch: OnHeart without its return also runs OnCommonRsp.
RespondTwice(batch) ==
  Respond(batch) \o IF Dispatch(batch) = "6031" THEN Respond(batch) ELSE << >>

Answer(batch) == Respond(batch)

\* The first n pieces end inside a request.
CutAt(pieces, n) == n < Len(pieces) /\ pieces[n + 1].req = pieces[n].req

OnMessage(l) ==
  /\ l \in up
  /\ \E n \in 1 .. Len(request[l]) :   \* the bytes that have arrived
       /\ response' = [response EXCEPT ![l] = @ \o Answer(SubSeq(request[l], 1, n))]
       /\ request' = [request EXCEPT ![l] = SubSeq(@, n + 1, Len(@))]
       /\ cuts' = IF CutAt(request[l], n) THEN [cuts EXCEPT ![l] = @ + 1] ELSE cuts
  /\ UNCHANGED up

(* The server process, or the network, drops the link; what is on its way   *)
(* to the client may still arrive.                                          *)
PeerCloses(l) ==
  /\ l \in up
  /\ up' = up \ {l}
  /\ request' = [request EXCEPT ![l] = << >>]
  /\ UNCHANGED <<response, cuts>>

=============================================================================
