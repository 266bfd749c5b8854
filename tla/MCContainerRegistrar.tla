-------------------------- MODULE MCContainerRegistrar --------------------------
(* A frame, an AWT window and a form that supplies a service; a panel with a      *)
(* field that moves between them; a popup menu with an item, shown for the field. *)
EXTENDS ContainerRegistrar, TLC

CONSTANTS frame, window, form, panel, field, menu, item, r1, r2, r3

MCFirstParent ==
    [c \in Components |-> CASE c = field -> panel [] c = item -> menu
                            [] c = form -> frame [] OTHER -> Null]
MCJComp == (r1 :> field) @@ (r2 :> item) @@ (r3 :> form)
=============================================================================
