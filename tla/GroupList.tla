----------------------------- MODULE GroupList -----------------------------
(***************************************************************************)
(* The message server of src/basic-server-client: clients that send one    *)
(* message to a group each, and a server that takes one connection after   *)
(* the other and enters what it reads in a list of groups, sorted by their *)
(* numbers, each with the list of its messages.                            *)
(*                                                                         *)
(* Both lists are linked as the code links them.  Nothing is ever freed:   *)
(* what malloc() returned so far is a sequence, an address is an index     *)
(* into it, and Null is the address of nothing.                            *)
(***************************************************************************)
EXTENDS Naturals, Sequences, FiniteSets

CONSTANTS
  Clients,   \* the runs of the client program; each sends one message, itself
  Groups,    \* the group ids, numbers
  NoGroup,   \* no group id
  Garbage    \* bytes of the stack that nobody has written

ASSUME GroupAssumption ==
  /\ Groups \subseteq Nat /\ IsFiniteSet(Groups)
  /\ Garbage \notin Clients
  /\ NoGroup \notin Groups

VARIABLES
  client,     \* where each client is
  group_of,   \* the group its user named
  unread,     \* what it wrote and the server has not read
  backlog,    \* the connections accept() has not returned
  server,     \* where the server is
  connfd,     \* the client it serves
  group_id,   \* process_client()'s local
  recv_buff,  \* what the stack holds where its buffer is
  group_list, \* the address of the first group
  items,      \* the memory of the groups
  mesgs,      \* the memory of the messages
  served      \* history: the clients whose connection was closed, in order

listVars == <<group_list, items, mesgs>>
netVars == <<client, group_of, unread, backlog>>
vars == <<netVars, server, connfd, group_id, recv_buff, listVars, served>>

Null == 0

Init ==
  /\ client = [c \in Clients |-> "start"]
  /\ group_of = [c \in Clients |-> NoGroup]
  /\ unread = [c \in Clients |-> <<>>]
  /\ backlog = <<>>
  /\ server = "accept" /\ connfd = Garbage /\ group_id = NoGroup
  /\ recv_buff = Garbage
  /\ group_list = Null /\ items = <<>> /\ mesgs = <<>>
  /\ served = <<>>

-----------------------------------------------------------------------------
(* group_list.c.                                                           *)

\* Mutant: the walk goes one group too far.
FollowingItem(g) ==
  LET next(i) == items[i].next_item
      walk[i \in DOMAIN items] ==
        IF items[i].group = g \/ next(i) = Null \/ items[i].group > g
        THEN i ELSE walk[next(i)]
  IN IF items[group_list].group > g THEN Null ELSE walk[group_list]

\* The item of group g, or the one to insert it behind; Null: before all.
ItemOrInsertPoint(g) ==
  LET next(i) == items[i].next_item
      walk[i \in DOMAIN items] ==
        IF items[i].group = g \/ next(i) = Null \/ items[next(i)].group > g
        THEN i ELSE walk[next(i)]
  IN IF items[group_list].group > g THEN Null ELSE walk[group_list]

NewGroup(g, next) == [group |-> g, next_item |-> next, msg_list_head |-> Null]

\* The item at address at points to the new one.
Linked(at, new) ==
  IF at = Null THEN items ELSE [items EXCEPT ![at].next_item = new]

\* Mutant: the new message becomes the first one's next.
MsgListHead(m) == m

MsgListEnd(m) ==
  LET walk[i \in DOMAIN mesgs] ==
        IF mesgs[i].next_item = Null THEN i ELSE walk[mesgs[i].next_item]
  IN walk[m]

\* The message is entered in the memory; head is the first of its group's.
AppendMessage(head, mesg) ==
  LET new == Len(mesgs) + 1
      linked == IF head = Null THEN mesgs
                ELSE [mesgs EXCEPT ![MsgListEnd(head)].next_item = new]
  IN mesgs' = Append(linked, [next_item |-> Null, mesg |-> mesg])

\* write_message(): into the group's list, which is made where there is none.
WriteMessage(g, mesg) ==
  LET at == ItemOrInsertPoint(g)
      there == at # Null /\ items[at].group = g
      new == Len(items) + 1
      next == IF at = Null THEN group_list ELSE items[at].next_item
      head == IF there THEN items[at].msg_list_head ELSE Null
      item == IF there THEN at ELSE new
      all == IF there THEN items ELSE Append(Linked(at, new), NewGroup(g, next))
  IN /\ AppendMessage(head, mesg)
     /\ items' = IF head # Null THEN all
                 ELSE [all EXCEPT ![item].msg_list_head = Len(mesgs) + 1]
     /\ group_list' = IF at = Null THEN new ELSE group_list

-----------------------------------------------------------------------------
(* client.c: connects, writes the group id, then the message, then exits.  *)

ClientStep(c, from, to) ==
  /\ client[c] = from
  /\ client' = [client EXCEPT ![c] = to]
  /\ UNCHANGED <<server, connfd, group_id, recv_buff, listVars, served>>

Connect(c) ==
  /\ ClientStep(c, "start", "group")
  /\ \E g \in Groups : group_of' = [group_of EXCEPT ![c] = g]
  /\ backlog' = Append(backlog, c)
  /\ UNCHANGED unread

WriteGroup(c) ==
  /\ ClientStep(c, "group", "message")
  /\ unread' = [unread EXCEPT ![c] = Append(@, "group")]
  /\ UNCHANGED <<group_of, backlog>>

SendMessage(c) ==
  /\ ClientStep(c, "message", "exited")
  /\ unread' = [unread EXCEPT ![c] = Append(@, "message")]
  /\ UNCHANGED <<group_of, backlog>>

\* The user ends the program.
Kill(c) ==
  /\ \E from \in {"group", "message"} : ClientStep(c, from, "killed")
  /\ UNCHANGED <<group_of, unread, backlog>>

-----------------------------------------------------------------------------
(* server.c.                                                               *)

ServerStep(from, to) ==
  /\ server = from
  /\ server' = to
  /\ UNCHANGED <<client, group_of>>

Accept ==
  /\ ServerStep("accept", "group")
  /\ backlog # <<>>
  /\ connfd' = Head(backlog)
  /\ backlog' = Tail(backlog)
  /\ UNCHANGED <<unread, group_id, recv_buff, listVars, served>>

\* Mutants: read() does not wait; or sees no end of a client that is killed.
NoWait == unread[connfd] = <<>>
ExitOnly == unread[connfd] = <<>> /\ client[connfd] = "exited"

\* read() returns nothing at the end of the file, which the code does not see:
\* its buffer keeps what the stack held.
EndOfFile == unread[connfd] = <<>> /\ client[connfd] \in {"exited", "killed"}

\* Without a list, the first group is made before a message is there for it.
ReadGroup ==
  /\ ServerStep("group", "message")
  /\ \/ /\ unread[connfd] # <<>>
        /\ group_id' = group_of[connfd]
     \/ /\ EndOfFile
        /\ group_id' \in Groups
  /\ unread' = [unread EXCEPT ![connfd] = IF @ = <<>> THEN @ ELSE Tail(@)]
  /\ IF group_list # Null THEN UNCHANGED listVars
     ELSE /\ items' = Append(items, NewGroup(group_id', Null))
          /\ group_list' = Len(items) + 1
          /\ UNCHANGED mesgs
  /\ UNCHANGED <<backlog, connfd, recv_buff, served>>

\* The first read() may return a part of the message, which leaves the rest of
\* the buffer as it was.
ReadMessage ==
  /\ ServerStep("message", "accept")
  /\ \/ /\ unread[connfd] # <<>>
        /\ recv_buff' \in {connfd, Garbage}
     \/ /\ EndOfFile
        /\ recv_buff' \in {recv_buff, Garbage}
  /\ unread' = [unread EXCEPT ![connfd] = <<>>]
  /\ WriteMessage(group_id, recv_buff')
  /\ served' = Append(served, connfd)
  /\ connfd' = Garbage /\ group_id' = NoGroup
  /\ UNCHANGED backlog

ClientNext(c) == Connect(c) \/ WriteGroup(c) \/ SendMessage(c) \/ Kill(c)
ServerNext == Accept \/ ReadGroup \/ ReadMessage

Next == ServerNext \/ \E c \in Clients : ClientNext(c)

Spec == Init /\ [][Next]_vars

\* The server runs, and a client that was started needs nobody to go on.
Fairness ==
  /\ WF_vars(ServerNext)
  /\ \A c \in Clients : WF_vars(WriteGroup(c) \/ SendMessage(c))

FairSpec == Spec /\ Fairness

-----------------------------------------------------------------------------
(* Properties.                                                             *)

\* What print_group_list() walks: the groups, and the messages of one.
GroupsPrinted ==
  LET from[i \in 0..Len(items)] ==
        IF i = Null THEN <<>> ELSE <<i>> \o from[items[i].next_item]
  IN from[group_list]
MessagesPrinted(i) ==
  LET from[m \in 0..Len(mesgs)] ==
        IF m = Null THEN <<>> ELSE <<mesgs[m].mesg>> \o from[mesgs[m].next_item]
  IN from[items[i].msg_list_head]

\* group_list.c:71, "group ids stored in a sorted fashion": the walk of the list
\* meets every group that was made, once, the smaller before the greater.
SortedGroups ==
  /\ \A i, j \in DOMAIN GroupsPrinted :
       i < j => items[GroupsPrinted[i]].group < items[GroupsPrinted[j]].group
  /\ Len(GroupsPrinted) = Len(items)

\* What the list stands for: the messages of each group, the oldest first.
Board ==
  [g \in Groups |->
     IF \E i \in DOMAIN items : items[i].group = g
     THEN MessagesPrinted(CHOOSE i \in DOMAIN items : items[i].group = g)
     ELSE <<>>]

\* Every connection adds one message to one group and disturbs no other, nor the
\* order of those that are there.
OneMessageEach ==
  [][Len(served') > Len(served)
       => \E g \in Groups : Board' = [Board EXCEPT ![g] = Append(@, recv_buff')]]_vars

\* The clients of group g that were served, in that order.
SentTo(g) ==
  LET upto[i \in 0..Len(served)] ==
        IF i = 0 THEN <<>>
        ELSE IF group_of[served[i]] = g THEN Append(upto[i - 1], served[i]) ELSE upto[i - 1]
  IN upto[Len(served)]

\* While no client is ended early, a group lists the messages of its clients, in
\* the order in which they were served; one that came in parts may be cut.
MessagesInOrder ==
  (\A c \in Clients : client[c] # "killed") =>
    \A g \in Groups :
      /\ Len(Board[g]) = Len(SentTo(g))
      /\ \A k \in DOMAIN SentTo(g) : Board[g][k] \in {SentTo(g)[k], Garbage}

\* The server serves every client that connects, although it waits for each to
\* send before it takes the next.
EveryClientIsServed ==
  \A c \in Clients :
    client[c] = "group" ~> \E i \in DOMAIN served : served[i] = c
=============================================================================
