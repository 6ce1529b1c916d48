----------------------------- MODULE MCMigrate ------------------------------
(* SettingsMigrate with two-word blocks: entries of four and five words, six *)
(* and four of them, so that two tails have to be put by and, as at real     *)
(* size, some old entry's hash falls where a new entry's would.              *)
EXTENDS SettingsMigrate
=============================================================================
