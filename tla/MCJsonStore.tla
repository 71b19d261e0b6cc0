---------------------------- MODULE MCJsonStore ----------------------------
(***************************************************************************)
(* An instance of JsonStore for TLC.  There are two pairs: "inventory",    *)
(* which version 2 may lack, and "orders".  The configuration lists the    *)
(* requests, which of them are about orders, and which are out of order.   *)
(***************************************************************************)
EXTENDS StoreProperties, TLC

CONSTANTS
  AboutOrders,  \* grants and revokes of "orders"
  AboutOthers   \* those of a pair outside the demo policy

MCPairs == {"inventory", "orders", "payments"}
MCMatrix == {"inventory", "orders"}
MCPairOf == [t \in Grants \cup Revokes |->
               IF t \in AboutOrders THEN "orders"
               ELSE IF t \in AboutOthers THEN "payments" ELSE "inventory"]

Entry(g, s) == [gen |-> g, status |-> s]
File(v, inventory, orders) ==
  [version |-> v, notes |-> {},
   ledger |-> [p \in MCPairs |-> CASE p = "inventory" -> inventory
                                   [] p = "orders" -> orders
                                   [] OTHER -> {}]]

\* Nothing; version 1; version 2 without inventory, with inventory revoked, and
\* with two active generations, which no server wrote; a file that is no JSON.
MCInitialFiles ==
  {Absent, Torn,
   File(1, {}, {}),
   File(2, {}, {Entry(1, "revoked"), Entry(2, "active")}),
   File(2, {Entry(1, "revoked")}, {Entry(1, "revoked")}),
   File(2, {Entry(1, "active"), Entry(2, "active")}, {})}
=============================================================================
