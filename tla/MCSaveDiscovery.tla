--------------------------- MODULE MCSaveDiscovery ---------------------------
(* A small instance of SaveDiscovery: slot 1 has saves below Repentance       *)
(* (directory 1) and in its parent (2) as they come, an old one only below,   *)
(* a truncated one only below; slot 2 has one whole save.                     *)
EXTENDS SaveDiscovery

Older == [dir |-> 1, gen |-> 0, slot |-> 1]
Newer == {p \in Paths : p.slot = 1 /\ p.gen = 2}
Twos  == [dir |-> 1, gen |-> 2, slot |-> 2]

SomeDisks ==
  {[p \in Paths |-> CASE p = Older -> old [] p \in Newer -> new[p]
                      [] p = Twos -> Whole [] OTHER -> Gone] :
     old \in {Whole, Gone},
     new \in {f \in [Newer -> {Whole, Torn, Gone}] :
                 \A p \in Newer : f[p] = Torn => p.dir \in Repentance}}

SomeOthers == {{}, {1}}
=============================================================================
