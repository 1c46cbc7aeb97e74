------------------------------ MODULE MCProxy ------------------------------
(* Instances of Proxy for TLC: one or two viewers, each with its own film. *)
EXTENDS Proxy, TLC

CONSTANTS v1, v2

Film1  == v1 :> "f"
Films2 == (v1 :> "f") @@ (v2 :> "g")

(* Two viewers fetch a manifest each, one goes on to a fragment.           *)
ListThenVideo == (v1 :> <<"list", "video">>) @@ (v2 :> <<"list">>)

(* One viewer, with requests that are refused before two that are not *)
BadAndPost == v1 :> <<"bad", "post", "list", "page">>

(* A viewer that only fetches fragments beside one that fetches a manifest *)
VideoAndList == (v1 :> <<"video">>) @@ (v2 :> <<"list">>)

OneList  == v1 :> <<"list">>
TwoVideos == (v1 :> <<"video">>) @@ (v2 :> <<"video">>)
=============================================================================
