------------------------------- MODULE IpNets -------------------------------
(***************************************************************************)
(* IP networks as the ipnet crate gives them to the gateway plugins: an    *)
(* address of W bits and a prefix length.  Parsing "a.b.c.d/len" keeps the *)
(* host bits of the address; contains() compares the network parts.       *)
(* IpNet::aggregate returns the fewest networks that cover exactly the     *)
(* addresses of its input: the largest aligned blocks inside their union.  *)
(***************************************************************************)
EXTENDS Integers

CONSTANT W    \* address width in bits

Addrs == 0..(2^W - 1)
Nets == [base : Addrs, len : 0..W]

\* IpNet::contains: the address agrees with the net on its first len bits.
Contains(n, a) == a \div 2^(W - n.len) = n.base \div 2^(W - n.len)

Block(n) == {a \in Addrs : Contains(n, a)}
Covered(S) == UNION {Block(n) : n \in S}

\* The networks as aggregate emits them: with the host bits cleared.
Aligned == {n \in Nets : n.base % 2^(W - n.len) = 0}

\* IpNet::aggregate(&nets) (used at ip_time/mod.rs:55).
Aggregate(S) ==
    {n \in Aligned :
        /\ Block(n) \subseteq Covered(S)
        /\ ~\E m \in Aligned : m.len < n.len /\ Block(n) \subseteq Block(m)
                                               /\ Block(m) \subseteq Covered(S)}
=============================================================================
