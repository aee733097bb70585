--------------------------- MODULE MCRichSession ----------------------------
(* RichSession on a small instance.                                        *)
EXTENDS RichSession

EveryKind   == AllKinds
SomeMethods == {"discoverHub", "listVehicles", "getDrive", "listDataQuality",
                "getMetadata", "getCommand", "createMetadata", "replaceMetadata",
                "deleteMetadata", "createCommand"}

(* Two bodies, of which the one fits one schema and the other its edit.    *)
CONSTANTS b1, b2, s1, s2

OneFits       == {b1}
MCAccepted(s) == IF s = s1 THEN {b1} ELSE {b2}

Everything == {"query.vehicles", "query.history", "data-quality",
               "metadata.mutable", "commands.async"}

Description(supported, minimum, sameMajor, offered) ==
    [supported |-> supported, minimum |-> minimum, sameMajor |-> sameMajor,
     offered |-> offered, schema |-> s1]

(* All versions, the oldest below the minimum; no command and not the      *)
(* newest version; no version that is known; another major.                *)
SomeDescriptions == {
    Description({1, 3, 5}, 2, TRUE, Everything),
    Description({1, 3}, 0, TRUE, Everything \ {"commands.async"}),
    Description({4}, 4, TRUE, Everything),
    Description({1, 3, 5}, 0, FALSE, Everything)}

SomeRequests == {0, 4, 5}
=============================================================================
