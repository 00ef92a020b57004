----------------------------- MODULE FilterValues -----------------------------
(***************************************************************************)
(* Bloom filters as C++ values: what the users of class BloomFilter may    *)
(* rely on when they create, copy, assign, transmit and destroy filters.   *)
(* A filter is the pair (members, positive) of ApproxSet and the arguments *)
(* it was built with; every filter has its own, and what happens to one    *)
(* never shows in another.  "post" is a byte array sent from one filter to *)
(* the next: built with the sender's arguments, the receiver is the same   *)
(* filter; built with others, it promises no key.                          *)
(***************************************************************************)
EXTENDS Integers

CONSTANTS Key,
          Obj,     \* the names a program has for its filters
          Args,    \* what filters are built with
          NoArgs   \* of a name without a filter, and of foreign bytes

VARIABLES live,      \* the filters that exist
          args,      \* per filter: what it was built with
          members,   \* per filter: keys added
          positive,  \* per filter: keys contains answers true for
          post,      \* the transmitted value, or Empty
          answer     \* what the last call returned

filters == <<live, args, members, positive>>
vars == <<live, args, members, positive, post, answer>>

Ok == 2
Throws == 3
Empty == [sent |-> FALSE, args |-> NoArgs, members |-> {}, positive |-> {}]

Init == /\ live = {}
        /\ args = [o \in Obj |-> NoArgs]
        /\ members = [o \in Obj |-> {}]
        /\ positive = [o \in Obj |-> {}]
        /\ post = Empty
        /\ answer = Ok

\* Filter o becomes the value (m, p), built with a.
Becomes(o, a, m, p) == /\ live' = live \union {o}
                       /\ args' = [args EXCEPT ![o] = a]
                       /\ members' = [members EXCEPT ![o] = m]
                       /\ positive' = [positive EXCEPT ![o] = p]

\* Filter o is gone: destroyed, or spoiled by an assignment that threw.
Lose(o) == /\ live' = live \ {o}
           /\ args' = [args EXCEPT ![o] = NoArgs]
           /\ members' = [members EXCEPT ![o] = {}]
           /\ positive' = [positive EXCEPT ![o] = {}]
           /\ answer' \in {Ok, Throws}
           /\ UNCHANGED post

New(o, a) == o \notin live /\ Becomes(o, a, {}, {}) /\ answer' = Ok /\ UNCHANGED post

Clear(o) == /\ o \in live
            /\ Becomes(o, args[o], {}, {})
            /\ answer' = Ok
            /\ UNCHANGED post

Copy(o, s) == /\ s \in live
              /\ Becomes(o, args[s], members[s], positive[s])
              /\ answer' = Ok
              /\ UNCHANGED post

Refuse == answer' = Throws /\ UNCHANGED <<live, args, members, positive, post>>

Lookup(o, k) == /\ o \in live
                /\ answer' = IF k \in positive[o] THEN 1 ELSE 0
                /\ UNCHANGED <<live, args, members, positive, post>>

Add(o, k) == /\ o \in live
             /\ \E p \in SUBSET Key :
                  /\ positive[o] \union {k} \subseteq p
                  /\ k \in positive[o] => p = positive[o]
                  /\ Becomes(o, args[o], members[o] \union {k}, p)
             /\ answer' = Ok
             /\ UNCHANGED post

Post(o) == /\ o \in live
           /\ post' = [sent |-> TRUE, args |-> args[o],
                       members |-> members[o], positive |-> positive[o]]
           /\ answer' = Ok
           /\ UNCHANGED filters

\* Bytes that come from no filter promise nothing.
PostBytes == /\ post' = [sent |-> TRUE, args |-> NoArgs,
                         members |-> {}, positive |-> {}]
             /\ answer' = Ok
             /\ UNCHANGED filters

Withdraw == post' = Empty /\ answer' = Ok /\ UNCHANGED filters

Receive(o, a) == /\ post.sent
                 /\ IF a = post.args
                    THEN Becomes(o, a, post.members, post.positive)
                    ELSE \E p \in SUBSET Key : Becomes(o, a, {}, p)
                 /\ answer' = Ok
                 /\ post' \in {post, Empty}

Next == \/ Refuse \/ PostBytes \/ Withdraw
        \/ \E o \in Obj : \/ Lose(o) \/ Clear(o) \/ Post(o)
                          \/ \E a \in Args : New(o, a) \/ Receive(o, a)
                          \/ \E s \in Obj : Copy(o, s)
                          \/ \E k \in Key : Lookup(o, k) \/ Add(o, k)

Spec == Init /\ [][Next]_vars
==============================================================================
