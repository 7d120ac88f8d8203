----------------------------- MODULE MCCmmServer -----------------------------
(* Instances of CmmServer.  Each scenario has its own records and requests. *)
EXTENDS CmmServer

CONSTANTS s1, s2

MCSessions == {s1, s2}
Symmetry   == Permutations(MCSessions)
MCCms      == 1..2
MCDests    == 11..12

Records(a, b, d, e) == [cm |-> (1 :> a @@ 2 :> b), dest |-> (11 :> d @@ 12 :> e)]

\* cm: a CM alone.  new: another is made.  dest: CMs leave destinations and are deleted with them.
\* destroy: whole destinations and CMs are deleted.  embed: destinations in
\* destinations.  edit: the items of a destination.  move: from one destination
\* to the other.  outside: other programs write.  connected: CMs carry
\* connections while they are deleted.
MCStored ==
    ("cm"        :> { Records("a", None, None, None) })
 @@ ("new"       :> { Records(None, "a", None, None) })
 @@ ("dest"      :> { Records("a", None, << 1 >>, << 1 >>), Records("a", "a", << 1, 2 >>, None) })
 @@ ("destroy"   :> { Records("a", "a", << 1, 2 >>, << 2 >>),
                      Records("a", "a", << 1, 2, 12 >>, << >>) })
 @@ ("embed"     :> { Records("a", None, << 1 >>, << >>) })
 @@ ("edit"      :> { Records("a", None, << 1 >>, None) })
 @@ ("move"      :> { Records("a", None, << 1 >>, << >>) })
 @@ ("outside"   :> { Records("a", None, << 1 >>, None) })
 @@ ("connected" :> { Records("a", "a", << 1, 2 >>, None) })

MCRequests ==
    ("cm"        :> { "OpenConnMethod", "SetAttribute", "RefreshConnMethod",
                      "UpdateConnMethod", "DeleteConnMethod", "DbChange" })
 @@ ("new"       :> { "CreateConnMethod", "SetAttribute", "RefreshConnMethod",
                      "UpdateConnMethod", "DbChange" })
 @@ ("dest"      :> { "OpenConnMethod", "OpenDestination", "UpdateDestination", "DestDelete" })
 @@ ("destroy"   :> { "OpenConnMethod", "OpenDestination", "DeleteConnMethod",
                      "DeleteDestination", "DbChange" })
 @@ ("embed"     :> { "OpenDestination", "CreateDestination", "AddEmbedded",
                      "UpdateDestination", "DbChange" })
 @@ ("edit"      :> { "OpenConnMethod", "OpenDestination", "CreateConnMethodToDest",
                      "CreateCopy", "DestRemove", "RefreshDestination", "UpdateDestination",
                      "DbChange" })
 @@ ("move"      :> { "OpenConnMethod", "OpenDestination", "AddConnMethod", "CopyConnMethod",
                      "RemoveConnMethod", "MoveConnMethod", "RemoveAllReferences", "DbChange" })
 @@ ("outside"   :> { "OpenConnMethod", "SetAttribute", "RefreshConnMethod",
                      "UpdateConnMethod", "WrittenOutside", "DbChange" })
 @@ ("connected" :> { "OpenConnMethod", "OpenDestination", "DeleteConnMethod",
                      "DeleteDestination", "Connections", "DbChange" })
==============================================================================
