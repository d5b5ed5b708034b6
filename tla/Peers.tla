-------------------------------- MODULE Peers --------------------------------
(* PeerManager, PeerDatabaseImpl and the connections of the NetworkController. *)
(* A connection handler is here what it tells the PeerManager (see Connection): *)
(* its messages come in order, those of different handlers in any order.     *)
EXTENDS Integers, SequencesExt, FiniteSetsExt, Functions

CONSTANTS
  Node,            \* the nodes of the network
  Self,            \* this one
  Listen,          \* Listen[n]: where n accepts connections, or None
  Declared,        \* Declared[n]: the address in its handshake, or None
  KnownAtStart,    \* settings.knownPeers
  MaxConnections,
  MaxConn,         \* bound on the connections; an incoming one has an address
                   \* of its own, written as its number
  Asked, Told,     \* what the API is asked once to connect to, what peers tell of
  MaxBlacklisted,  \* bound on the blacklistings
  None

ASSUME PeersAssumption ==
  /\ Self \in Node /\ None \notin Node
  /\ KnownAtStart \cup Asked \cup Told \subseteq {Listen[n] : n \in Node} \ {None}
  /\ \A m, n \in Node : Listen[m] = Listen[n] => m = n \/ Listen[m] = None
  /\ {Listen[n] : n \in Node} \cap (1..MaxConn) = {}
  /\ \A n \in Node : Declared[n] \in {Listen[m] : m \in Node} \cup {None}
  /\ MaxConnections \in Nat /\ MaxConn \in Nat /\ MaxBlacklisted \in Nat

Listening == {Listen[n] : n \in Node} \ {None}

Conn == 1..MaxConn

VARIABLES
  peersPersistence,  \* known addresses: "good", "blacklisted", or "over" when the
                     \* time on the blacklist has passed
  connectedPeers,    \* address -> the connection, and the node of the handshake
  connectingPeer,
  learned,           \* AddOrUpdatePeer messages of the PeerManager to itself
  dialing,           \* addresses the NetworkController connects to
  failed,            \* Disconnected messages of the NetworkController
  conns,             \* connection -> its address, the node at the other end
  greeted,           \* those whose handshake has come
  live,              \* those that are not closed
  toClose,           \* those that were told CloseConnection
  inbox,             \* inbox[c]: messages about c to the PeerManager
  blacklistings,     \* ghost: how many there were
  asked,             \* ghost: what the API was asked
  mixed              \* ghost: a handshake came while another one was awaited

managerVars == <<peersPersistence, connectedPeers, connectingPeer, learned>>
netVars == <<dialing, failed, conns, greeted, live, toClose>>
ghosts == <<blacklistings, asked, mixed>>
vars == <<managerVars, netVars, inbox, ghosts>>

\* put of a map.
With(f, x, value) == [y \in DOMAIN f \cup {x} |-> IF y = x THEN value ELSE f[y]]
-----------------------------------------------------------------------------
(* PeerDatabaseImpl *)

Known == DOMAIN peersPersistence

KnownPeers == {a \in Known : peersPersistence[a] = "good"}

IsBlacklisted(a) == a \in Known /\ peersPersistence[a] = "blacklisted"

\* isBlacklisted, which is what takes an address off the blacklist.
AfterAsking(a) ==
  IF a \in Known /\ ~IsBlacklisted(a)
    THEN [peersPersistence EXCEPT ![a] = "good"] ELSE peersPersistence

\* blacklist: an address that is not known, as that of an incoming connection,
\* is not put on the blacklist.
Blacklisted(a) == [b \in Known |-> IF b = a THEN "blacklisted" ELSE peersPersistence[b]]

\* addOrUpdateKnownPeer: an address that is known keeps its blacklisting time.
AddedOrUpdated(a) ==
  IF a \in Known THEN peersPersistence ELSE With(peersPersistence, a, "good")
-----------------------------------------------------------------------------
(* The NetworkController and the network *)

Init ==
  /\ peersPersistence = [a \in KnownAtStart |-> "good"]
  /\ connectedPeers = <<>> /\ connectingPeer = None /\ learned = {}
  /\ dialing = {} /\ failed = {} /\ conns = <<>>
  /\ greeted = {} /\ live = {} /\ toClose = {}
  /\ inbox = [c \in Conn |-> <<>>] /\ blacklistings = 0 /\ asked = {} /\ mixed = FALSE

Tells(c, message) == inbox' = [inbox EXCEPT ![c] = Append(@, message)]

Opened(c, a, n) ==
  /\ c = Cardinality(DOMAIN conns) + 1
  /\ conns' = With(conns, c, [address |-> a, node |-> n]) /\ live' = live \cup {c}
  /\ Tells(c, "Connected")
  /\ UNCHANGED <<managerVars, failed, greeted, toClose, ghosts>>

\* Another node connects from a port of its own.
Incoming(c, n) == n # Self /\ Opened(c, c, n) /\ UNCHANGED dialing

\* An outgoing connection; one to the own address reaches the node itself.
DialSucceeds(c, n) ==
  /\ Listen[n] \in dialing /\ dialing' = dialing \ {Listen[n]}
  /\ Opened(c, Listen[n], n)

\* CommandFailed(Connect)
DialFails(a) ==
  /\ a \in dialing /\ dialing' = dialing \ {a} /\ failed' = failed \cup {a}
  /\ UNCHANGED <<managerVars, conns, greeted, live, toClose, inbox, ghosts>>

\* The request of the API to connect to a peer.
ConnectTo(a) ==
  /\ a \in Asked \ asked /\ asked' = asked \cup {a} /\ dialing' = dialing \cup {a}
  /\ UNCHANGED <<managerVars, failed, conns, greeted, live, toClose, inbox,
                 blacklistings, mixed>>

HandshakeArrives(c) ==
  /\ c \in live \ greeted /\ greeted' = greeted \cup {c} /\ Tells(c, "Handshaked")
  /\ UNCHANGED <<managerVars, dialing, failed, conns, live, toClose, ghosts>>

\* Blacklist: the handler tells the PeerManager and closes the connection.
Blacklist(c) ==
  /\ c \in (live \cap greeted) \ toClose /\ blacklistings < MaxBlacklisted
  /\ blacklistings' = blacklistings + 1
  /\ toClose' = toClose \cup {c} /\ Tells(c, "AddToBlacklist")
  /\ UNCHANGED <<managerVars, dialing, failed, conns, greeted, live, asked, mixed>>

\* Closed by either end, or broken.
Ends(c) ==
  /\ c \in live /\ live' = live \ {c} /\ toClose' = toClose \ {c}
  /\ Tells(c, "Disconnected")
  /\ UNCHANGED <<managerVars, dialing, failed, conns, greeted, ghosts>>

\* A Peers message names an address (the PeerSynchronizer passes it on).
Learn(a) ==
  /\ a \in Told /\ peersPersistence' = AddedOrUpdated(a)
  /\ UNCHANGED <<connectedPeers, connectingPeer, learned, netVars, inbox, ghosts>>

TimePasses(a) ==
  /\ IsBlacklisted(a) /\ peersPersistence' = [peersPersistence EXCEPT ![a] = "over"]
  /\ UNCHANGED <<connectedPeers, connectingPeer, learned, netVars, inbox, ghosts>>
-----------------------------------------------------------------------------
(* PeerManager: connectedPeers is a map whose keys are equal when their      *)
(* addresses are: a key that is present keeps its handler when it is put.    *)

Pending(a) == connectedPeers[a].node = None

CheckPeers ==
  /\ Cardinality(DOMAIN connectedPeers) < MaxConnections /\ connectingPeer = None
  /\ \E a \in KnownPeers \ DOMAIN connectedPeers :
       connectingPeer' = a /\ dialing' = dialing \cup {a}
  /\ UNCHANGED <<peersPersistence, connectedPeers, learned,
                 failed, conns, greeted, live, toClose, inbox, ghosts>>

\* (Defect for mutation: a failed attempt is not noticed.)
NotResolved(a) == connectingPeer

Resolved(a) == IF connectingPeer = a THEN None ELSE connectingPeer

HandlerFor(a, c) == IF a \in DOMAIN connectedPeers THEN connectedPeers[a].conn ELSE c

\* A connection of a blacklisted address is not listed, and not closed either.
Connected(c, a) ==
  /\ peersPersistence' = AfterAsking(a)
  /\ IF IsBlacklisted(a) THEN UNCHANGED <<connectedPeers, connectingPeer>>
     ELSE /\ connectedPeers' =
               With(connectedPeers, a, [conn |-> HandlerFor(a, c), node |-> None])
          /\ connectingPeer' = Resolved(a)
  /\ UNCHANGED <<learned, toClose, mixed>>

\* (Defect for mutation: only the connection itself counts.)
OnlyItself(a, n) == {b \in DOMAIN connectedPeers : b = a}

\* (Defect for mutation: the nonces are compared the wrong way round.)
OtherNodes(a, n) ==
  {b \in DOMAIN connectedPeers : b = a \/ connectedPeers[b].node # n}

\* Every entry whose handshake is still missing counts as that of this peer.
ToUpdate(a, n) ==
  {b \in DOMAIN connectedPeers : b = a \/ Pending(b) \/ connectedPeers[b].node = n}

\* The entry of the declared address, otherwise any of them.
NewPeers(toUpdate, n) ==
  IF Declared[n] \in toUpdate THEN {Declared[n]} ELSE toUpdate

OwnNonce(n) == n = Self

Handshaked(c, a, n) ==
  LET toUpdate == ToUpdate(a, n)
      others   == DOMAIN connectedPeers \ toUpdate
  IN  /\ peersPersistence' = AfterAsking(a)
      /\ mixed' = (mixed \/ \E b \in DOMAIN connectedPeers : b # a /\ Pending(b))
      /\ UNCHANGED connectingPeer
      /\ \/ /\ IsBlacklisted(a) \/ toUpdate = {}
            /\ UNCHANGED <<connectedPeers, learned, toClose>>
         \/ \E newCp \in NewPeers(toUpdate, n) :
              LET conn == connectedPeers[newCp].conn IN
              /\ ~IsBlacklisted(a)
              /\ IF OwnNonce(n)
                 THEN /\ toClose' = toClose \cup ({conn} \cap live)
                      /\ connectedPeers' = Restrict(connectedPeers, others)
                      /\ UNCHANGED learned
                 ELSE /\ connectedPeers' = With(Restrict(connectedPeers, others), newCp,
                                                [conn |-> conn, node |-> n])
                      /\ learned' = learned \cup ({Declared[n]} \ {None})
                      /\ UNCHANGED toClose

\* (Defect for mutation: only peers that are awaited are taken off the list.)
WithoutPending(a) ==
  Restrict(connectedPeers, {b \in DOMAIN connectedPeers : b # a \/ ~Pending(b)})

Without(a) == Restrict(connectedPeers, DOMAIN connectedPeers \ {a})

Disconnected(a) == connectedPeers' = Without(a) /\ connectingPeer' = Resolved(a)

AddToBlacklist(a) ==
  /\ peersPersistence' = Blacklisted(a)
  /\ UNCHANGED <<connectedPeers, connectingPeer, learned, toClose, mixed>>

\* The messages of a connection come in their order.
Receive(c) ==
  /\ inbox[c] # <<>> /\ inbox' = [inbox EXCEPT ![c] = Tail(@)]
  /\ LET a == conns[c].address IN
     \/ Head(inbox[c]) = "Connected" /\ Connected(c, a)
     \/ Head(inbox[c]) = "Handshaked" /\ Handshaked(c, a, conns[c].node)
     \/ Head(inbox[c]) = "AddToBlacklist" /\ AddToBlacklist(a)
     \/ /\ Head(inbox[c]) = "Disconnected" /\ Disconnected(a)
        /\ UNCHANGED <<peersPersistence, learned, toClose, mixed>>
  /\ UNCHANGED <<dialing, failed, conns, greeted, live, blacklistings, asked>>

DialFailed(a) ==
  /\ a \in failed /\ failed' = failed \ {a} /\ Disconnected(a)
  /\ UNCHANGED <<peersPersistence, learned, dialing, conns, greeted, live, toClose,
                 inbox, ghosts>>

AddOrUpdatePeer(a) ==
  /\ a \in learned /\ learned' = learned \ {a}
  /\ peersPersistence' = AddedOrUpdated(a)
  /\ UNCHANGED <<connectedPeers, connectingPeer, netVars, inbox, ghosts>>

Next ==
  \/ \E c \in Conn : HandshakeArrives(c) \/ Blacklist(c) \/ Ends(c) \/ Receive(c)
  \/ \E c \in Conn, n \in Node : Incoming(c, n) \/ DialSucceeds(c, n)
  \/ \E a \in Listening : DialFails(a) \/ ConnectTo(a) \/ Learn(a) \/ TimePasses(a)
                            \/ DialFailed(a) \/ AddOrUpdatePeer(a)
  \/ CheckPeers

Spec == Init /\ [][Next]_vars

Dialled(a) == \E c \in Conn, n \in Node : Listen[n] = a /\ DialSucceeds(c, n)

\* The PeerManager handles its messages, and an attempt to connect ends within its
\* timeout.
FairSpec ==
  /\ Spec /\ WF_vars(\E c \in Conn : Receive(c))
  /\ \A a \in Listening : WF_vars(DialFailed(a)) /\ WF_vars(DialFails(a) \/ Dialled(a))
-----------------------------------------------------------------------------
Entry == [conn : Conn, node : (Node \ {Self}) \cup {None}]

\* Types; an entry is of a connection from its address, and never of the node
\* itself.
TypeOK ==
  /\ peersPersistence \in [Known -> {"good", "blacklisted", "over"}] /\ Known \subseteq Listening
  /\ connectingPeer \in Listening \cup {None} /\ learned \subseteq Listening
  /\ dialing \cup failed \subseteq Listening /\ toClose \subseteq live
  /\ live \cup greeted \subseteq DOMAIN conns
  /\ \A a \in DOMAIN connectedPeers :
       connectedPeers[a] \in Entry /\ conns[connectedPeers[a].conn].address = a

\* A node is listed once, however many connections to it there are: a second
\* handshake of it takes the place of the first (PeerManager.scala:93-112).
OneEntryPerNode ==
  \A a, b \in DOMAIN connectedPeers :
    connectedPeers[a].node = connectedPeers[b].node /\ ~Pending(a) => a = b

\* As long as handshakes never came while another connection awaited its own,
\* a handshake is kept with a connection of the node it came from: also when a
\* node is connected twice (PeerManager.scala:100-112).
RightHandshake ==
  ~mixed => \A a \in DOMAIN connectedPeers :
              ~Pending(a) => conns[connectedPeers[a].conn].node = connectedPeers[a].node

\* What peers tell about an address does not take it off the blacklist
\* (PeerDatabaseImpl.scala:23-31); only the end of its time does.
BlacklistHolds ==
  [][\A a \in Known : IsBlacklisted(a) => peersPersistence'[a] \in {"blacklisted", "over"}]_vars

Ended(c) == c \in DOMAIN conns /\ c \notin live

\* A peer whose connection ended is not listed for ever: messages to the peers
\* would go to a handler that has stopped (PeerManager.scala:117-118).
EndedAreRemoved ==
  \A c \in Conn : Ended(c) ~> \A a \in DOMAIN connectedPeers : connectedPeers[a].conn # c

\* An open connection from an address that the PeerManager has heard of and not listed.
Refused(a) ==
  \E c \in live : /\ conns[c].address = a /\ "Connected" \notin Range(inbox[c])
                 /\ a \notin DOMAIN connectedPeers

\* No attempt to connect keeps the next ones from being made for ever, whether it
\* fails, meets the messages of another connection to its address or ends at once.
\* One does, and only one: its connection was refused because the address was
\* blacklisted meanwhile, and stays open (PeerManager.scala:76-87).
AttemptsEnd ==
  \A a \in Listening : <>[](connectingPeer = a) => <>[]Refused(a)

\* A handshake is kept with the connection it came from: not so (line 93), and
\* violated in the instance of MCPeers.
HandshakeOfItsConnection ==
  \A a \in DOMAIN connectedPeers :
    ~Pending(a) => conns[connectedPeers[a].conn].node = connectedPeers[a].node

\* An address whose time on the blacklist is over may be tried again: not so
\* (PeerDatabaseImpl.scala:56-77), see MCPeers_SecondChance.cfg.
SecondChance == \A a \in Listening : (a \in Known /\ peersPersistence[a] = "over") ~> a \in KnownPeers
=============================================================================
