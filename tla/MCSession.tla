----------------------------- MODULE MCSession -----------------------------
(* Small instances of Session for TLC. *)
EXTENDS Session, TLC

CONSTANTS sec, cfg, k1, k2, n1, n2, u1, u2, r1, img, v1, v2

\* The Secret has both keys, the ConfigMap one; with the prefix "p" the first
\* key makes the name that the second makes without.
MCKeysOf == (sec :> {k1, k2}) @@ (cfg :> {k1})
MCPrefixed ==
  (<<"", k1>> :> n1) @@ (<<"", k2>> :> n2) @@ (<<"p", k1>> :> n2) @@ (<<"p", k2>> :> n1)

\* One secret of the user sets a name, the other is not a JSON map.
MCContent == (u1 :> {n1}) @@ (u2 :> None)

Bare ==
  [arch |-> "none", containers |-> 1, annImage |-> None, image |-> None,
   opts |-> Defaults, ids |-> <<>>, envFrom |-> <<>>, env |-> <<>>,
   command |-> FALSE, cwd |-> FALSE, role |-> None, irsa |-> r1, assoc |-> None,
   maxDur |-> None, shutdown |-> None, memory |-> None]

\* A Sandbox whose variables come from every kind of entry, in every order of
\* an envFrom and an env entry, with a secret of the user or without.
EnvSpecs ==
  {[Bare EXCEPT !.envFrom = f, !.env = e, !.ids = i, !.annImage = img] :
     f \in {<<>>, <<AllOf(sec, "")>>, <<AllOf(cfg, ""), AllOf(sec, "p")>>,
            <<AllOf(sec, ""), AllOf(cfg, "p")>>},
     e \in {<<>>, <<Literal(n1)>>, <<KeyRef(n1, sec, k1)>>, <<KeyRef(n1, cfg, k2)>>,
            <<KeyRef(n2, sec, k2), Literal(n1)>>, <<Literal(n2), Unsupported(n1)>>},
     i \in {<<>>, <<u1>>}}

\* Roles, images and guards, and specs that may adopt from the pool or nearly.
OtherSpecs ==
  {Bare,
   [Bare EXCEPT !.arch = "other"],
   [Bare EXCEPT !.containers = 2],
   [Bare EXCEPT !.command = TRUE],
   [Bare EXCEPT !.image = img, !.annImage = img, !.cwd = TRUE],
   [Bare EXCEPT !.opts["egress"] = "own"],
   [Bare EXCEPT !.ids = <<u2>>, !.env = <<KeyRef(n1, sec, k1)>>],
   [Bare EXCEPT !.irsa = None, !.env = <<KeyRef(n1, sec, k1)>>],
   [Bare EXCEPT !.env = <<KeyRef(n1, sec, k1)>>, !.assoc = r1],
   [Bare EXCEPT !.env = <<KeyRef(n1, sec, k1)>>, !.irsa = None, !.role = r1],
   [Bare EXCEPT !.env = <<KeyRef(n1, sec, k1)>>, !.irsa = None, !.assoc = r1]}

\* Durations around the bounds, with and without the annotation.
TimedSpecs ==
  {[Bare EXCEPT !.shutdown = t, !.maxDur = d, !.memory = 3145728] :
     t \in {0, 1, 2, 3, 6, 7, 12}, d \in {None, 0, 9}}

MCSpecs == EnvSpecs \cup OtherSpecs \cup TimedSpecs
=============================================================================
