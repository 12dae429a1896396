---------------------------- MODULE MCConfigStore ----------------------------
(***************************************************************************)
(* Three configurations: two that differ in every field, one of them with  *)
(* no address for the endpoint, and one whose endpoint is too long to be   *)
(* read back.                                                              *)
(***************************************************************************)
EXTENDS ConfigStore

Texts == {"key1", "key2", "name1", "name2", "long"}

Configs ==
    {[priv_key |-> "key1", pub_key |-> "key2", endpoint |-> "name1", port |-> 1, endpoint_ip |-> 7],
     [priv_key |-> "key2", pub_key |-> "key1", endpoint |-> "name2", port |-> 2, endpoint_ip |-> 0],
     [priv_key |-> "key1", pub_key |-> "key1", endpoint |-> "long", port |-> 1, endpoint_ip |-> 7]}
=============================================================================
