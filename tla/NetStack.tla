------------------------------ MODULE NetStack ------------------------------
(***************************************************************************)
(* The IP stack's address and resolvers (net/stack.rs) and a name query on *)
(* its DNS socket (net/dns.rs).                                            *)
(*                                                                         *)
(* A query holds a slot of a socket that is shared and permanent, and is   *)
(* judged by a budget chosen when it starts; the resolvers it is asked of  *)
(* belong to a configuration that a DHCP event or a command may replace    *)
(* while it waits.  Time is in seconds.                                    *)
(***************************************************************************)
EXTENDS Integers, SequencesExt

CONSTANTS
    Addresses,   \* of name servers
    Lists,       \* of name servers: what a lease or a command brings
    MaxServers,  \* DNS_MAX_SERVER_COUNT
    MaxStall,    \* the longest time between two polls
    MaxLost,     \* leases lost
    None

VARIABLE net

PerServer == 10
SingleServer == 5
Fallback == PerServer + 3

NoQuery == [open |-> FALSE, settled |-> TRUE, budget |-> 0, elapsed |-> 0,
            outcome |-> None, answered |-> FALSE, disturbed |-> FALSE]
(* The DNS socket (smoltcp): the resolvers it asks and the one slot used.  *)
FreeSlot == [state |-> "free", server |-> 1, waited |-> 0, asked |-> {}]
Init ==
    net = [link |-> TRUE, source |-> "none", client |-> "absent", config |-> None,
           address |-> None, servers |-> <<>>, lost |-> 0, losses |-> 0,
           slot |-> FreeSlot, query |-> NoQuery, panicked |-> FALSE]

Truncated(list) == SubSeq(list, 1, IF Len(list) < MaxServers THEN Len(list) ELSE MaxServers)

---------------------------------------------------------------------------
(* Configuration *)

Disturbed(s) == [s EXCEPT !.query.disturbed = TRUE]
UpdateServers(s, list) ==
    IF list = s.servers THEN s ELSE [Disturbed(s) EXCEPT !.servers = list]
ClearAddresses(s) ==
    [UpdateServers(s, <<>>) EXCEPT !.config = None, !.address = None]
InstallDnsServers(s) ==
    UpdateServers(s, IF s.config = None THEN <<>> ELSE s.config.servers)
ApplyConfig(s, config) ==
    InstallDnsServers([s EXCEPT !.config = [config EXCEPT !.servers = Truncated(@)],
                                !.address = config.from])

StartDhcp ==
    net' = [ClearAddresses(net) EXCEPT !.client = "asking", !.source = "dhcp"]
Released(s) == [ClearAddresses(s) EXCEPT !.client = "absent", !.source = "none"]
Release == net' = Released(net)
SetStatic ==
    net' = ApplyConfig([Released(net) EXCEPT !.source = "static"],
                       [servers |-> <<>>, from |-> "static"])
SetDnsServers(s, list) ==
    InstallDnsServers([s EXCEPT !.config.servers = Truncated(list)])
ReplaceServers ==
    /\ net.config # None
    /\ \E list \in Lists : net' = SetDnsServers(net, list)

(* What the DHCP client may decide (smoltcp): a lease, that a lease is no  *)
(* more, and, on its way to the first offer, that there is none.           *)
Lease(list) == [held |-> TRUE, servers |-> list]
NoLease == [held |-> FALSE, servers |-> <<>>]
DhcpEvents(s) ==
    {None} \cup
    (IF s.client = "absent" THEN {} ELSE {Lease(list) : list \in Lists}) \cup
    (IF s.client = "asking" \/ (s.client = "held" /\ s.losses < MaxLost) THEN {NoLease} ELSE {})
PollDhcp(s, event) ==
    CASE event = None -> s
      [] event = NoLease ->
            [ClearAddresses(s) EXCEPT
                !.lost = IF s.config # None THEN @ + 1 ELSE @,
                !.losses = IF s.client = "held" THEN @ + 1 ELSE @,
                !.client = "asking"]
      [] OTHER -> ApplyConfig([s EXCEPT !.client = "held"],
                              [servers |-> event.servers, from |-> "dhcp"])

---------------------------------------------------------------------------
(* The DNS socket (external: smoltcp) *)

Dispatch(s) ==
    LET slot == s.slot
        next == IF slot.waited > PerServer
                THEN [slot EXCEPT !.server = @ + 1, !.waited = 0] ELSE slot
    IN  CASE slot.state # "pending" -> s
          [] slot.state = "pending" /\ next.server > Len(s.servers) ->
                [s EXCEPT !.slot.state = "failed"]
          [] OTHER ->
                [s EXCEPT !.slot = [next EXCEPT !.asked = @ \cup {s.servers[next.server]}]]
(* An answer is taken from any resolver on the list that has been asked.   *)
Answers(s) ==
    {None} \cup IF s.slot.state = "pending" /\ s.slot.asked \cap Range(s.servers) # {}
                THEN {"found", "nothing"} ELSE {}
Process(s, answer) ==
    CASE answer = None -> s
      [] answer = "found" -> [s EXCEPT !.slot.state = "completed", !.query.answered = TRUE]
      [] answer = "nothing" -> [s EXCEPT !.slot.state = "failed", !.query.answered = TRUE]
(* The socket panics when a slot that is not in use is asked for.          *)
FreeOf(s) == IF s.slot.state = "free" THEN [s EXCEPT !.panicked = TRUE]
             ELSE [s EXCEPT !.slot = FreeSlot]

(* One turn of the crank: packets in and out, then the DHCP client.        *)
Polled(s) ==
    UNION {{PollDhcp(Dispatch(Process(s, answer)), event) : event \in DhcpEvents(s)}
           : answer \in Answers(s)}
Poll == net.link /\ net' \in Polled(net)

---------------------------------------------------------------------------
(* A query *)

Budget(servers) == IF Len(servers) > 1 THEN Fallback ELSE SingleServer
ConfigServers(s) == IF s.config = None THEN <<>> ELSE s.config.servers

Start(s) ==
    IF ConfigServers(s) = <<>> THEN [s EXCEPT !.query = [NoQuery EXCEPT !.outcome = "no servers"]]
    ELSE [s EXCEPT !.slot = [FreeSlot EXCEPT !.state = "pending"],
                   !.query = [NoQuery EXCEPT !.open = TRUE, !.settled = FALSE,
                                             !.budget = Budget(ConfigServers(s))]]
StartQuery == ~net.query.open /\ net' = Start(net)

Settle(s, outcome) == [s EXCEPT !.query.settled = TRUE, !.query.outcome = outcome]
Fail(s, outcome) == IF s.query.settled THEN s ELSE Settle(FreeOf(s), outcome)
QueryPolled(s) ==
    CASE s.slot.state = "pending" ->
            IF s.query.elapsed >= s.query.budget THEN Fail(s, "timed out") ELSE s
      [] s.slot.state = "completed" -> Settle(FreeOf(s), "ready")
      [] s.slot.state = "failed" -> Settle(FreeOf(s), "not found")
      [] s.slot.state = "free" -> [s EXCEPT !.panicked = TRUE]
(* The loop that waits for an answer comes round at least once in a stall. *)
After(s, seconds) ==
    [s EXCEPT !.query.elapsed = @ + seconds,
              !.slot.waited = IF s.slot.asked # {} THEN @ + seconds ELSE @]
PollQuery(seconds) ==
    /\ net.query.open /\ ~net.query.settled
    /\ IF net.link THEN \E s \in Polled(After(net, seconds)) : net' = QueryPolled(s)
       ELSE net' = Fail(net, "link lost")

Cancelled(s) == IF s.query.settled THEN s ELSE [FreeOf(s) EXCEPT !.query.settled = TRUE]
CancelQuery ==
    net.query.open /\ net' = [Cancelled(net) EXCEPT !.query.open = FALSE]

---------------------------------------------------------------------------
LoseLink == net.link /\ net' = [net EXCEPT !.link = FALSE]
(* The stack is built anew with a new link.                               *)
Rebuild == ~net.link /\ ~net.query.open
           /\ net' = [net EXCEPT !.link = TRUE, !.source = "none", !.client = "absent",
                                 !.config = None, !.address = None, !.servers = <<>>,
                                 !.lost = 0, !.losses = 0, !.query = NoQuery]

Next ==
    \/ StartDhcp \/ Release \/ SetStatic \/ ReplaceServers
    \/ Poll \/ StartQuery \/ CancelQuery
    \/ \E seconds \in 0 .. MaxStall : PollQuery(seconds)
    \/ LoseLink \/ Rebuild

Spec == Init /\ [][Next]_net

---------------------------------------------------------------------------
(* Properties *)

TypeOK ==
    /\ net.source \in {"none", "dhcp", "static"}
    /\ net.client \in {"absent", "asking", "held"}
    /\ net.slot.state \in {"free", "pending", "completed", "failed"}
    /\ Len(net.servers) <= MaxServers
    /\ net.lost <= net.losses

(* The socket asks the resolvers of the current configuration, no other,   *)
(* and there is an address exactly while there is a configuration.         *)
ResolversInStep ==
    /\ net.servers = ConfigServers(net)
    /\ (net.address # None) = (net.config # None)

(* An address given up does not come back: only a selected source installs *)
(* one, and a DHCP client runs exactly while DHCP is selected.             *)
SourceDecides ==
    /\ (net.client # "absent") = (net.source = "dhcp")
    /\ net.config # None => net.config.from = net.source

(* The slot is in use exactly while the query has not been settled, and    *)
(* nothing asks for a slot that is free, which would panic.                *)
SlotReleasedOnce ==
    ~net.panicked /\ (net.slot.state # "free") = ~net.query.settled

(* "No such host" is said only when a server has answered that, so long as *)
(* the resolvers stayed as they were when the query started: a network     *)
(* whose resolvers are dead is not reported as a name that does not exist. *)
NotFoundWasAnswered ==
    net.query.outcome = "not found" /\ ~net.query.disturbed => net.query.answered

(* A query that timed out with a second resolver to ask had asked it.      *)
FallbackIsReached ==
    \A seconds \in 0 .. MaxStall : \A s \in Polled(After(net, seconds)) :
        /\ ~net.query.settled /\ ~s.query.disturbed /\ Len(s.servers) > 1
        /\ net.link /\ QueryPolled(s).query.outcome = "timed out"
        => \E a, b \in s.slot.asked : a # b
=============================================================================
