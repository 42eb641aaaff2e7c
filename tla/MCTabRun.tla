------------------------------ MODULE MCTabRun ------------------------------
(***************************************************************************)
(* TabRun on small instances: bodies that between them take every action.   *)
(***************************************************************************)
EXTENDS TabRun, TLC

CallerSymmetry == Permutations(Callers)

Body(op, opts, sess, n) ==
    [op |-> op, url |-> TRUE, opts |-> opts, sess |-> sess, frames |-> n, negative |-> FALSE]
Shot(opts, sess) == Body("screenshot", opts, sess, 0)
Expr(opts, sess) == Body("eval", opts, sess, 0)
Burst(n, opts) == Body("burst", opts, {"headers"}, n)

\* Bodies that are rejected, and ones with nothing, something and everything optional
AllBodies ==
    {Burst(1, {}), Expr({}, {}), [Shot({}, {}) EXCEPT !.url = FALSE],
     [Burst(2, {"interval"}) EXCEPT !.negative = TRUE]}
    \cup {Burst(3, {"interval"}), Shot({}, {}), Shot({"script", "click", "wait"}, Session),
          Expr({"script"}, {"cookies"}), Expr(Optional \ {"interval"}, Session)}

\* The bodies that contend for the foreground
FewBodies == {Burst(2, {"interval"}), Shot({}, {"cookies"}), Expr({"script"}, {"storage"})}
=============================================================================
