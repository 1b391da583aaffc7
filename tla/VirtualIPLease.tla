--------------------------- MODULE VirtualIPLease ---------------------------
(***************************************************************************)
(* What the tunnel server promises about virtual addresses, independent of *)
(* how it keeps its books: a virtual IP is free, or leased to one client   *)
(* address, or lost (an administrator's kick forgets the lease without     *)
(* returning the IP), and it is never in two of these places at once.      *)
(*                                                                         *)
(* TunnelServer implements this specification: free is the content of      *)
(* _virtual_ip_pool and holder is virtual_ip of the sessions in _sessions. *)
(***************************************************************************)
CONSTANTS Addr,    \* UDP source addresses of clients
          IPs,     \* the virtual IPs that can be leased
          NoIP     \* "0.0.0.0": the session runs without a virtual IP

VARIABLES free,    \* the virtual IPs nobody holds
          holder   \* holder[a]: the virtual IP leased to a, or NoIP

leaseVars == <<free, holder>>

Init == /\ free = IPs
        /\ holder = [a \in Addr |-> NoIP]

\* A client that holds nothing is given a free IP.
Grant(a) == /\ holder[a] = NoIP
            /\ \E ip \in free : /\ free' = free \ {ip}
                                /\ holder' = [holder EXCEPT ![a] = ip]

\* The lease of a ends and its IP is free again.
GiveBack(a) == /\ holder[a] # NoIP
               /\ free' = free \cup {holder[a]}
               /\ holder' = [holder EXCEPT ![a] = NoIP]

\* The lease of a ends and its IP is lost.
Lose(a) == /\ holder[a] # NoIP
           /\ holder' = [holder EXCEPT ![a] = NoIP]
           /\ UNCHANGED free

\* A lost IP turns up again.
Recover(ip) == /\ ip \notin free
               /\ \A a \in Addr : holder[a] # ip
               /\ free' = free \cup {ip}
               /\ UNCHANGED holder

Next == \/ \E a \in Addr : Grant(a) \/ GiveBack(a) \/ Lose(a)
        \/ \E ip \in IPs : Recover(ip)

Spec == Init /\ [][Next]_leaseVars
=============================================================================
