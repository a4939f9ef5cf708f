------------------------------- MODULE Broker -------------------------------
(***************************************************************************)
(* The event broker of a session (internal/broker/broker.go): publishers   *)
(* fan events out to the buffered channels of the current subscribers      *)
(* without ever waiting for one.                                           *)
(*                                                                         *)
(* Publish holds only the read lock, so publishers run at the same time    *)
(* and are modelled one channel send at a time; Subscribe, Unsubscribe and *)
(* Close hold the write lock, so no publisher is inside Publish when they  *)
(* run and each is one step.  A send on a closed channel, and closing a    *)
(* closed one, would panic and end the server.                             *)
(***************************************************************************)
EXTENDS Naturals, Sequences, FiniteSets

CONSTANTS Publisher,   \* goroutines that publish
          Channel,     \* channels Subscribe may hand out
          Cap,         \* channelCap
          MaxEvents    \* bound on the events of each publisher

ASSUME BrokerAssumption == Cap \in Nat \ {0} /\ MaxEvents \in Nat

VARIABLES
  clients,   \* Broker.clients
  closed,    \* Broker.closed
  status,    \* of each channel: "unused", "open" or "closed"
  closings,  \* how often each channel was closed
  buffer,    \* its buffered events
  sent,      \* how many events each publisher has begun to publish
  todo,      \* channels a publisher inside Publish has not served yet
  holding,   \* publishers that hold the read lock
  got,       \* events the reader of each channel has received
  dropped,   \* events not sent to a channel because it was full
  eof        \* readers that found their channel closed and empty

brokerVars == <<clients, closed, status, closings, buffer, sent, todo, holding,
          got, dropped, eof>>

pubVars    == <<sent, todo, holding>>
readerVars == <<got, eof>>

Event == Publisher \X (1 .. MaxEvents)    \* the n-th event of a publisher

BrokerInit ==
  /\ clients = {}
  /\ closed = FALSE
  /\ status = [c \in Channel |-> "unused"]
  /\ closings = [c \in Channel |-> 0]
  /\ buffer = [c \in Channel |-> <<>>]
  /\ sent = [p \in Publisher |-> 0]
  /\ todo = [p \in Publisher |-> {}]
  /\ holding = {}
  /\ got = [c \in Channel |-> <<>>]
  /\ dropped = [c \in Channel |-> {}]
  /\ eof = {}

-----------------------------------------------------------------------------
(* Publish.  On a closed broker it returns at once.                        *)

BeginPublish(p) ==
  /\ p \notin holding
  /\ sent[p] < MaxEvents
  /\ sent' = [sent EXCEPT ![p] = @ + 1]
  /\ IF closed THEN UNCHANGED <<todo, holding>>
               ELSE /\ todo' = [todo EXCEPT ![p] = clients]
                    /\ holding' = holding \cup {p}
  /\ UNCHANGED <<clients, closed, status, closings, buffer, dropped, readerVars>>

(* Slip: a send on a full channel waits. *)
SendBlocking(p, c) ==
  /\ p \in holding
  /\ c \in todo[p]
  /\ Len(buffer[c]) < Cap
  /\ todo' = [todo EXCEPT ![p] = @ \ {c}]
  /\ buffer' = [buffer EXCEPT ![c] = Append(@, <<p, sent[p]>>)]
  /\ UNCHANGED <<clients, closed, status, closings, sent, holding, dropped, readerVars>>

(* Slip: a client is served again. *)
SendAgain(p, c) ==
  /\ p \in holding
  /\ c \in todo[p]
  /\ Len(buffer[c]) < Cap
  /\ buffer' = [buffer EXCEPT ![c] = Append(@, <<p, sent[p]>>)]
  /\ UNCHANGED <<clients, closed, status, closings, sent, todo, holding, dropped,
                 readerVars>>

(* One iteration of the loop over the clients, in any order: a send that   *)
(* would block is skipped.                                                 *)
SendOne(p, c) ==
  /\ p \in holding
  /\ c \in todo[p]
  /\ todo' = [todo EXCEPT ![p] = @ \ {c}]
  /\ IF Len(buffer[c]) < Cap
     THEN /\ buffer' = [buffer EXCEPT ![c] = Append(@, <<p, sent[p]>>)]
          /\ UNCHANGED dropped
     ELSE /\ dropped' = [dropped EXCEPT ![c] = @ \cup {<<p, sent[p]>>}]
          /\ UNCHANGED buffer
  /\ UNCHANGED <<clients, closed, status, closings, sent, holding, readerVars>>

EndPublish(p) ==
  /\ p \in holding
  /\ todo[p] = {}
  /\ holding' = holding \ {p}
  /\ UNCHANGED <<clients, closed, status, closings, buffer, sent, todo, dropped,
                 readerVars>>

-----------------------------------------------------------------------------
(* The operations under the write lock.                                    *)

NoReader == holding = {}

(* Slip: a closed broker hands out an open channel. *)
SubscribeOpen(c) ==
  /\ NoReader
  /\ status[c] = "unused"
  /\ status' = [status EXCEPT ![c] = "open"]
  /\ clients' = clients \cup {c}
  /\ UNCHANGED <<closed, closings, buffer, dropped, pubVars, readerVars>>

(* A channel handed out by a closed broker is closed already.              *)
Subscribe(c) ==
  /\ NoReader
  /\ status[c] = "unused"
  /\ IF closed
     THEN /\ status' = [status EXCEPT ![c] = "closed"]
          /\ closings' = [closings EXCEPT ![c] = @ + 1]
          /\ UNCHANGED clients
     ELSE /\ status' = [status EXCEPT ![c] = "open"]
          /\ clients' = clients \cup {c}
          /\ UNCHANGED closings
  /\ UNCHANGED <<closed, buffer, dropped, pubVars, readerVars>>

(* Slip: the channel is closed without looking it up. *)
UnsubscribeUnchecked(c) ==
  /\ NoReader
  /\ status[c] # "unused"
  /\ clients' = clients \ {c}
  /\ status' = [status EXCEPT ![c] = "closed"]
  /\ closings' = [closings EXCEPT ![c] = @ + 1]
  /\ UNCHANGED <<closed, buffer, dropped, pubVars, readerVars>>

(* Nothing happens for a channel that is no longer a client: its broker    *)
(* was closed, or it was unsubscribed before.                              *)
Unsubscribe(c) ==
  /\ NoReader
  /\ c \in clients
  /\ clients' = clients \ {c}
  /\ status' = [status EXCEPT ![c] = "closed"]
  /\ closings' = [closings EXCEPT ![c] = @ + 1]
  /\ UNCHANGED <<closed, buffer, dropped, pubVars, readerVars>>

Close ==
  /\ NoReader
  /\ ~ closed
  /\ closed' = TRUE
  /\ clients' = {}
  /\ status' = [c \in Channel |-> IF c \in clients THEN "closed" ELSE status[c]]
  /\ closings' = [c \in Channel |-> closings[c] + IF c \in clients THEN 1 ELSE 0]
  /\ UNCHANGED <<buffer, dropped, pubVars, readerVars>>

-----------------------------------------------------------------------------
(* A reader: buffered events come out of a closed channel too, then EOF.   *)

ReadEvent(c) ==
  /\ buffer[c] # <<>>
  /\ got' = [got EXCEPT ![c] = Append(@, Head(buffer[c]))]
  /\ buffer' = [buffer EXCEPT ![c] = Tail(@)]
  /\ UNCHANGED <<clients, closed, status, closings, dropped, pubVars, eof>>

ReachEOF(c) ==
  /\ status[c] = "closed"
  /\ buffer[c] = <<>>
  /\ c \notin eof
  /\ eof' = eof \cup {c}
  /\ UNCHANGED <<clients, closed, status, closings, buffer, dropped, pubVars, got>>

-----------------------------------------------------------------------------
PublishStep(p) ==
  \/ BeginPublish(p)
  \/ \E c \in Channel : SendOne(p, c)
  \/ EndPublish(p)

ReadStep(c) == ReadEvent(c) \/ ReachEOF(c)

BrokerNext ==
  \/ \E p \in Publisher : PublishStep(p)
  \/ \E c \in Channel : Subscribe(c) \/ Unsubscribe(c) \/ ReadStep(c)
  \/ Close

(* A publisher inside Publish runs on; a reader that waits gets what there *)
(* is.  Readers may stop reading: no fairness is assumed of ReadEvent for    *)
(* the publishers' progress.                                               *)
PublisherFairness == \A p \in Publisher :
  WF_brokerVars(EndPublish(p) \/ \E c \in Channel : SendOne(p, c))
ReaderFairness == \A c \in Channel : WF_brokerVars(ReadStep(c))

BrokerSpec     == BrokerInit /\ [][BrokerNext]_brokerVars
BrokerFairSpec == BrokerSpec /\ PublisherFairness

-----------------------------------------------------------------------------
(* Properties.                                                             *)

BrokerTypeOK ==
  /\ clients \subseteq Channel
  /\ closed \in BOOLEAN
  /\ status \in [Channel -> {"unused", "open", "closed"}]
  /\ closings \in [Channel -> Nat]
  /\ buffer \in [Channel -> Seq(Event)]
  /\ sent \in [Publisher -> 0 .. MaxEvents]
  /\ todo \in [Publisher -> SUBSET Channel]
  /\ holding \subseteq Publisher
  /\ got \in [Channel -> Seq(Event)]
  /\ dropped \in [Channel -> SUBSET Event]
  /\ eof \subseteq Channel

(* No operation panics: whoever sends does so on an open channel and no    *)
(* channel is closed twice, although Unsubscribe, Close and any number of  *)
(* publishers race for it.                                                 *)
NoPanic ==
  /\ \A p \in holding : \A c \in todo[p] : status[c] = "open"
  /\ \A c \in Channel : closings[c] <= 1

(* A slow reader costs the server Cap events and no more. *)
Bounded == \A c \in Channel : Len(buffer[c]) <= Cap

(* The stream of a channel, received and still buffered. *)
Stream(c) == got[c] \o buffer[c]

(* No event reaches a channel twice or after it was dropped for it, and    *)
(* the events of one publisher arrive in the order they were published.    *)
(* Events of different publishers may arrive in different orders.          *)
InOrder ==
  \A c \in Channel :
    LET s == Stream(c)
    IN  /\ \A i, j \in DOMAIN s : i < j /\ s[i][1] = s[j][1] => s[i][2] < s[j][2]
        /\ \A i \in DOMAIN s : s[i] \notin dropped[c]

(* A reader that was told the channel is closed has had every event sent   *)
(* on it, and none comes later.                                            *)
EOFIsLast ==
  [][\A c \in eof : got'[c] = got[c] /\ buffer'[c] = <<>>]_brokerVars

(* Publish returns whatever the readers do. *)
PublishReturns == \A p \in Publisher : p \in holding ~> p \notin holding

(* After Close every subscriber that goes on reading detects the end of    *)
(* its stream.                                                             *)
ReadersEnd == ReaderFairness =>
  \A c \in Channel : closed /\ status[c] # "unused" ~> c \in eof
=============================================================================
