------------------------------ MODULE MCBinding ------------------------------
(***************************************************************************)
(* Binding on small instances.                                             *)
(***************************************************************************)
EXTENDS Binding

CONSTANTS plain, boxed, a, b, k, anyApp, anyToken

\* plain is on the server's own socket, boxed in the sandbox of app b.
MCClientCtx == [c \in Clients |-> IF c = boxed THEN b ELSE Unsandboxed]

Naming(app, token, sandbox) == [app |-> app, token |-> token, sandbox |-> sandbox]

\* Views naming: nothing, an app, a token, a sandbox, a token in a sandbox.
MCParams == {Naming(anyApp, anyToken, anyApp), Naming(a, anyToken, anyApp),
             Naming(anyApp, k, anyApp), Naming(anyApp, anyToken, b), Naming(anyApp, k, b)}

\* Views naming nothing, for the runs about dialogs.
MCPlainParams == {Naming(anyApp, anyToken, anyApp)}

\* The run about binding leaves dialogs, focus and suspension to the others.
BindingOnly == parent' = parent /\ focused' = focused /\ suspended' = suspended

\* The others leave out who listens.
SceneOnly == listening' = listening
=============================================================================
