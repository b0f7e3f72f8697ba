---------------------------- MODULE MCMediaWire ----------------------------
(* Boxes with the apps of one or two links each, every kind of link in one   *)
(* of them, and two values of a setting.                                     *)
EXTENDS MediaWire

MCBoxes == {
    {"qbittorrent-paths", "arr-qbittorrent"}, {"arr-settings"},
    {"arr-rootfolder", "arr-import"}, {"prowlarr-arr", "prowlarr-flaresolverr"},
    {"bazarr-arr", "bazarr-languages"}, {"jellyfin-setup", "jellyfin-libraries"},
    {"seerr-setup", "seerr-arr"} }
=============================================================================
