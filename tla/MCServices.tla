------------------------------ MODULE MCServices ------------------------------
(***************************************************************************)
(* User accounts, proxy servers and the stock of products for TLC, in one  *)
(* run: a behaviour is one of Accounts, of ProxyServer or of ProductStock  *)
(* (they share no state), the others rest in an initial state.             *)
(***************************************************************************)
EXTENDS Accounts, ProxyServer, ProductStock, TLC

CONSTANTS w1, w2, h1, h2, n1, n2, n3, o1, c1, c2, g1, g2

VARIABLE part       \* the component that runs

(* Levels that one and that two of the points of an order reach or not. *)
MCThresholds == {[l \in {2} |-> 2], [l \in {2} |-> 3]}

(* A form that gives rewards, and one that takes them from a banned user. *)
MCForms == {[active |-> None, points |-> 0, rewards |-> 2],
            [active |-> FALSE, points |-> None, rewards |-> 0]}

(* One delivered order, with a proxy on each of two servers. *)
FirstOrder ==
    {[order |-> o1, host |-> h1, name |-> n1, subnet |-> 1],
     [order |-> o1, host |-> h2, name |-> n1, subnet |-> 2]}

MCFirstRows == {FirstOrder}

(* The subnets of an order are on two servers, or both on one. *)
MCDeliveries == {<<h1, h2>>, <<h1, h1>>}

(* Both groups have the first range, and the second may have both. *)
MCFirstGroups == {g1 :> {c1} @@ g2 :> {c1, c2}, g1 :> {c1} @@ g2 :> {}}

(* Workers do not differ, nor do the names still to be given. *)
Symmetry == {p @@ q : p \in Permutations({w1, w2}), q \in Permutations({n2, n3})}

ServicesInit ==
    /\ part \in {"accounts", "proxies", "clients", "products"}
    /\ AccountsInit
    /\ ProxyInit
    /\ ProductInit
    /\ part # "accounts" => levels = CHOOSE l \in Thresholds : TRUE
    /\ part # "products" => groups = CHOOSE f \in FirstGroups : TRUE

(* In the part "proxies" deliveries have a subnet on each server, and as    *)
(* each client is used once nobody asks for its status again; in the part  *)
(* "clients" they have both subnets on one server.                         *)
ProxyPart ==
    /\ ProxyNext
    /\ \A w \in Agent :
          LET e == errand'[w]
          IN  IF part = "proxies" THEN e.hosts # <<h1, h1>> /\ e.down = {}
                                  ELSE e.hosts # <<h1, h2>>

(* Nothing is claimed of the stock after two of its jobs have met. *)
ServicesNext ==
    \/ /\ part = "accounts" /\ AccountsNext
       /\ UNCHANGED <<part, proxyVars, productVars>>
    \/ /\ part \in {"proxies", "clients"} /\ ProxyPart
       /\ UNCHANGED <<part, accountsVars, productVars>>
    \/ /\ part = "products" /\ ~mixed /\ ProductNext
       /\ UNCHANGED <<part, accountsVars, proxyVars>>

ServicesSpec ==
    ServicesInit /\ [][ServicesNext]_<<part, accountsVars, proxyVars, productVars>>
=============================================================================
