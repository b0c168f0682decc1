---------------------------- MODULE BookCommands ---------------------------
(***************************************************************************)
(* The commands of two users with a few orders, for the runs of OrderBook  *)
(* and of the modules that refine it.                                      *)
(***************************************************************************)
EXTENDS PriceTimeBook

Prices == 1 .. 3
Owner  == <<1, 2, 1>>       \* the user of each order id

Slot(command, id, uid) ==
  [NoCommand EXCEPT !.command = command, !.orderId = id, !.uid = uid]

Placement(type, id, action, price, size, reserve) ==
  [Slot("PLACE_ORDER", id, Owner[id]) EXCEPT
     !.orderType = type, !.action = action, !.price = price, !.size = size,
     !.reserveBidPrice = reserve,
     !.resultCode = "VALID_FOR_MATCHING_ENGINE"]

Limits ==
  {Placement("GTC", id, "ASK", p, n, 0) :
     id \in DOMAIN Owner, p \in Prices, n \in 1 .. 2}
    \cup {Placement("GTC", id, "BID", p, n, r) :
            id \in DOMAIN Owner, p \in Prices, n \in 1 .. 2, r \in Prices}

Takers ==
  {Placement("IOC", 1, a, p, n, p) : a \in OrderAction, p \in Prices, n \in {1, 3}}
    \cup {Placement("FOK_BUDGET", 1, a, p, n, p) :
            a \in OrderAction, p \in {1, 3, 5}, n \in 1 .. 3}
    \cup {Placement("IOC_BUDGET", 1, "BID", 2, 1, 2)}

Refused == {[Placement("GTC", 1, "BID", 1, 1, 1) EXCEPT
               !.resultCode = "RISK_NSF"]}

\* Commands on resting orders come from their owners and from others.
Changes ==
  {Slot("CANCEL_ORDER", id, u) : id \in DOMAIN Owner, u \in 1 .. 2}
    \cup {[Slot("REDUCE_ORDER", id, u) EXCEPT !.size = n] :
            id \in DOMAIN Owner, u \in 1 .. 2, n \in 0 .. 2}
    \cup {[Slot("MOVE_ORDER", id, u) EXCEPT !.price = p] :
            id \in DOMAIN Owner, u \in 1 .. 2, p \in Prices}

MCCommands ==
  {c \in Limits : /\ c.action = "BID" => c.reserveBidPrice \in {c.price, 3}
                  /\ c.orderId = 3 => c.size = 1}
    \cup Takers \cup Refused \cup Changes
    \cup {[NoCommand EXCEPT !.size = n] : n \in {-1, 0, 1}}

\* Fewer, for the runs that compare two books after each of them: two prices
\* to rest at, a size for each order, and moves to a third price.
FewerCommands ==
  {c \in MCCommands :
     /\ c \in Limits => /\ c.price <= 2
                        /\ c.orderId = 1 => c.size = 2
                        /\ c.orderId = 2 => c.size = 1
                        /\ c.action = "BID" =>
                             (c.reserveBidPrice = 3) = (c.orderId = 1)
     /\ c \in Takers => c.price # 1
     /\ c.uid = 2 => c.orderId = 2 \/ (c.orderId = 1 /\ c.size + c.price <= 1)}
=============================================================================
