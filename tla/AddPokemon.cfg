\* Two pokemons with a picture and the empty name, whose answer has none.
SPECIFICATION SpecForm
CONSTANTS
    Names = {p1, p2, noName}
    Artwork = {p1, p2}
    Fields = {"game", "ata", "ataSp"}
    NoPokemon = NoPokemon
    NoAd = NoAd
    MaxRequests = 1
INVARIANTS FormTypeOK UrlMatchesName
PROPERTIES AdIsSeen
