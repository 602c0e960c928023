----------------------------- MODULE AddPokemon -----------------------------
(***************************************************************************)
(* The screen that publishes an ad: AddPokemonViewController and its         *)
(* AddPokemonController.  The user picks a pokemon on SelecionarPokemon,     *)
(* fills the fields in and presses the button; the pokemon's data, its       *)
(* picture and the user's phone number arrive in between, each by a callback *)
(* of its own on the main thread, in any order, or not at all.               *)
(*                                                                          *)
(* A pokemon stands for itself, for its name and for the URL of its artwork; *)
(* those outside Artwork have none.  NoPokemon is nil, and the "No name" and *)
(* "" an ad is published with when there is none.                            *)
(***************************************************************************)
EXTENDS Naturals, FiniteSets

CONSTANTS Names,      \* pokemons, with the one the empty name answers for
          Artwork,    \* those whose data has a valid picture URL
          Fields,     \* text fields; "game", "ata" and "ataSp" among them
          NoPokemon, NoAd,  \* nil
          MaxRequests \* bound on the requests under way, of each sort and pokemon

ASSUME ScreenAssumption == /\ Artwork \subseteq Names /\ NoPokemon \notin Names
                           /\ {"game", "ata", "ataSp"} \subseteq Fields
                           /\ MaxRequests \in Nat \ {0}

VARIABLES
    pokemon,      \* controller.pokemon
    namePokemon,  \* name the ad will have
    pokemonImage, \* picture on the screen
    asked,        \* pokemon -> getPokemon requests under way
    loading,      \* pokemon -> pictures under way
    phone,        \* phoneNumber: "asked", "none" or "known"
    filled,       \* fields with a text
    alert,        \* last alert: "none", "success" or "error"
    ad,           \* what was last handed to saveOffer, or NoAd
    patient       \* history: pokemons were picked with nothing under way, and no
                  \* picture failed

formVars == <<pokemon, namePokemon, pokemonImage, asked, loading, phone, filled, alert, ad,
              patient>>
form == <<phone, filled, alert, ad>>

Optional(S) == S \cup {NoPokemon}
Ads == [name : Optional(Artwork), url : Optional(Artwork), phone : BOOLEAN,
        fields : SUBSET Fields]

ASSUME NoAdAssumption == NoAd \notin Ads

FormTypeOK ==
    /\ pokemon \in Optional(Names)
    /\ {namePokemon, pokemonImage} \subseteq Optional(Artwork)
    /\ asked \in [Names -> 0..MaxRequests]
    /\ loading \in [Names -> 0..MaxRequests] /\ \A n \in Names \ Artwork : loading[n] = 0
    /\ phone \in {"asked", "none", "known"}
    /\ filled \subseteq Fields
    /\ alert \in {"none", "success", "error"}
    /\ ad \in Ads \cup {NoAd}
    /\ patient \in BOOLEAN

InitForm == /\ pokemon = NoPokemon /\ namePokemon = NoPokemon /\ pokemonImage = NoPokemon
            /\ asked = [n \in Names |-> 0] /\ loading = [n \in Names |-> 0]
            /\ phone = "asked"
            /\ filled = {}
            /\ alert = "none"
            /\ ad = NoAd
            /\ patient = TRUE

Quiet == \A n \in Names : asked[n] = 0 /\ loading[n] = 0

-----------------------------------------------------------------------------
(* The pokemon and its picture.                                             *)

\* Variant: the name is taken when the pokemon is picked.
SendDataNamesAtOnce(n) ==
    /\ asked[n] < MaxRequests
    /\ asked' = [asked EXCEPT ![n] = @ + 1]
    /\ namePokemon' = n
    /\ patient' = (patient /\ Quiet)
    /\ UNCHANGED <<pokemon, pokemonImage, loading, form>>

\* sendDataToCadastroVC: a row of SelecionarPokemon was tapped.
SendDataToCadastroVC(n) ==
    /\ asked[n] < MaxRequests
    /\ asked' = [asked EXCEPT ![n] = @ + 1]
    /\ patient' = (patient /\ Quiet)
    /\ UNCHANGED <<pokemon, namePokemon, pokemonImage, loading, form>>

\* Variant: the name does not depend on the URL.
PokemonNamed(n) ==
    /\ asked[n] > 0 /\ loading[n] < MaxRequests
    /\ asked' = [asked EXCEPT ![n] = @ - 1]
    /\ pokemon' = n
    /\ namePokemon' = n
    /\ IF n \in Artwork THEN loading' = [loading EXCEPT ![n] = @ + 1]
                       ELSE UNCHANGED loading
    /\ UNCHANGED <<pokemonImage, form, patient>>

\* The data arrive: the controller keeps them; picture and name follow only if
\* the URL is valid.
PokemonAnswer(n) ==
    /\ asked[n] > 0 /\ loading[n] < MaxRequests
    /\ asked' = [asked EXCEPT ![n] = @ - 1]
    /\ pokemon' = n
    /\ IF n \in Artwork
       THEN namePokemon' = n /\ loading' = [loading EXCEPT ![n] = @ + 1]
       ELSE UNCHANGED <<namePokemon, loading>>
    /\ UNCHANGED <<pokemonImage, form, patient>>

\* No data, or data that cannot be decoded: nothing changes on the screen.
PokemonError(n) ==
    /\ asked[n] > 0
    /\ asked' = [asked EXCEPT ![n] = @ - 1]
    /\ UNCHANGED <<pokemon, namePokemon, pokemonImage, loading, form, patient>>

\* UIImageView.load
ImageLoaded(n) ==
    /\ loading[n] > 0
    /\ loading' = [loading EXCEPT ![n] = @ - 1]
    /\ pokemonImage' = n
    /\ UNCHANGED <<pokemon, namePokemon, asked, form, patient>>

ImageError(n) ==
    /\ loading[n] > 0
    /\ loading' = [loading EXCEPT ![n] = @ - 1]
    /\ patient' = FALSE
    /\ UNCHANGED <<pokemon, namePokemon, pokemonImage, asked, form>>

-----------------------------------------------------------------------------
(* The form.                                                                *)

\* getTelephone: the profile document may be missing, or the request fail.
PhoneAnswer(found) ==
    /\ phone = "asked"
    /\ phone' = IF found THEN "known" ELSE "none"
    /\ UNCHANGED <<pokemon, namePokemon, pokemonImage, asked, loading, filled, alert, ad, patient>>

Type(f) ==
    /\ filled' = filled \cup {f}
    /\ UNCHANGED <<pokemon, namePokemon, pokemonImage, asked, loading, phone, alert, ad, patient>>

\* The field of the form that a field of the ad is read from.
Source(f) == IF f = "ata" THEN "ataSp" ELSE f

NewAd == [name |-> namePokemon,
          url |-> IF pokemon \in Artwork THEN pokemon ELSE NoPokemon,
          phone |-> phone = "known",
          fields |-> {f \in Fields : Source(f) \in filled}]

validateFields == "game" \in filled

\* addPokemon: the texts are cleared either way, pokemon, name and picture stay.
PressAdd ==
    /\ ad' = IF validateFields THEN NewAd ELSE ad
    /\ alert' = IF validateFields THEN "success" ELSE "error"
    /\ filled' = {}
    /\ UNCHANGED <<pokemon, namePokemon, pokemonImage, asked, loading, phone, patient>>

Pictures == \E n \in Names : \/ SendDataToCadastroVC(n)
                             \/ PokemonAnswer(n) \/ PokemonError(n)
                             \/ ImageLoaded(n) \/ ImageError(n)

Form == \/ \E found \in BOOLEAN : PhoneAnswer(found)
        \/ \E f \in Fields : Type(f)
        \/ PressAdd

NextForm == Pictures \/ Form

SpecForm == InitForm /\ [][NextForm]_formVars

-----------------------------------------------------------------------------
(* Properties.                                                              *)

\* However the answers for the pokemons picked overlap, fail or come late, an ad
\* with a picture URL has the name of that pokemon: name and URL are kept in two
\* objects and only one of them is overwritten by every answer (lines 76-83 and 107).
UrlMatchesName == ad # NoAd /\ ad.url # NoPokemon => ad.name = ad.url

\* A user who waits for one pokemon before picking the next publishes the one in the
\* picture, also after answers that failed or had no artwork: sendDataToCadastroVC
\* changes name and picture together or not at all.
AdIsSeen == [][patient /\ Quiet /\ ad' # ad => ad'.name = pokemonImage]_formVars
=============================================================================
