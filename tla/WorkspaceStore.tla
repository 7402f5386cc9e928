--------------------------- MODULE WorkspaceStore ---------------------------
(***************************************************************************)
(* What the file store of a persistent session promises its callers,       *)
(* whatever files, renames and synchronisations it is built from: calls    *)
(* see one manifest at a time, each mutation replaces it by one with the   *)
(* next revision, and a store that reopens after an interruption does so   *)
(* with a manifest that was published and is no older than the last one    *)
(* that was settled.  A mutation that returns, and a store that answers    *)
(* after a restart, have settled theirs; a repeated mutation that is       *)
(* answered from memory settles nothing.                                   *)
(***************************************************************************)
EXTENDS Naturals

CONSTANTS Manifests,   \* every manifest a store can hold
          Down         \* what callers see while the store is not open

VARIABLES visible,     \* the manifest calls are answered from, or Down
          survivors,   \* the manifests an interruption may leave
          opened       \* the store has answered a call before

vars == <<visible, survivors, opened>>

Init == visible = Down /\ survivors = {} /\ opened = FALSE

\* The first start publishes the empty manifest.
Create == /\ survivors = {} /\ UNCHANGED <<visible, opened>>
          /\ \E m \in Manifests : m.revision = 0 /\ survivors' = {m}

\* The store answers from a manifest that survived, and that one is settled.
Reopen == /\ visible = Down
          /\ visible' \in survivors
          /\ survivors' = {visible'}
          /\ opened' = TRUE

\* A mutation becomes visible; whether it survives is settled later.
Replace == /\ visible # Down
           /\ UNCHANGED opened
           /\ \E m \in Manifests :
                /\ m.revision = visible.revision + 1
                /\ visible' = m
                /\ survivors' = survivors \cup {m}

\* The visible manifest is the only one an interruption can leave.
Settle == visible # Down /\ survivors' = {visible} /\ UNCHANGED <<visible, opened>>

\* A crash leaves some of the survivors; only a store that never answered
\* may be left without one.
Interrupt == /\ visible' = Down
             /\ survivors' \subseteq survivors
             /\ opened => survivors' # {}
             /\ UNCHANGED opened

Next == Create \/ Reopen \/ Replace \/ Settle \/ Interrupt

Spec == Init /\ [][Next]_vars
=============================================================================
