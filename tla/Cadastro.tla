------------------------------ MODULE Cadastro ------------------------------
(***************************************************************************)
(* The signup form: the text field delegate of CadastroViewController, which *)
(* sees a text before it changes, the error labels, which are part of the    *)
(* validation, and the mask of the phone number (CadastroController; that of *)
(* PerfilController is the same).                                            *)
(*                                                                          *)
(* A name is "", "blank" (white space) or "filled"; an e-mail is "", or      *)
(* "bad" or "good" for isValidEmail once trimmed and in lower case, which is *)
(* how the delegate asks; a password is "" or "filled".  A phone number is a *)
(* sequence of characters.  The console is taken as it is.                   *)
(***************************************************************************)
EXTENDS Naturals, SequencesExt

CONSTANT Digits     \* digits the user types

Mask == <<"(", "#", "#", ")", " ", "#", "#", "#", "#", "#", " ", "#", "#", "#", "#">>

ASSUME DigitsAssumption == Digits # {} /\ Digits \cap Range(Mask) = {}

VARIABLES
    nome, email, senha,       \* the texts
    telefone,
    nomeLabel, emailLabel, senhaLabel,    \* "", "obrigatorio" or "invalido"
    sent,                     \* what was last handed to cadastrarUsuario
    alert                     \* "none" or "error", the form was refused

vars == <<nome, email, senha, telefone, nomeLabel, emailLabel, senhaLabel, sent, alert>>
labels == <<nomeLabel, emailLabel, senhaLabel>>

Texts == [nome : {"", "blank", "filled"}, email : {"", "bad", "good"}, senha : {"", "filled"}]
Nothing == [nome |-> "", email |-> "", senha |-> ""]

\* The digits of s, in their order.
CleanNumber(s) ==
    LET clean[i \in 0..Len(s)] ==
            IF i = 0 THEN <<>>
            ELSE IF s[i] \in Digits THEN Append(clean[i - 1], s[i]) ELSE clean[i - 1]
    IN clean[Len(s)]

\* Places of the mask that hold a digit, among its first n.
Slots(n) == Cardinality({i \in 1..n : Mask[i] = "#"})

\* Variant: the mask goes on to the next digit.
FormattedAhead(s) ==
    LET digits == CleanNumber(s)
        size == Max({n \in 0..Len(Mask) : Slots(n) <= Len(digits)})
    IN [i \in 1..size |-> IF Mask[i] = "#" THEN digits[Slots(i)] ELSE Mask[i]]

\* The digits in their places; the mask ends with the last digit, or the digits with
\* the mask.
formattedNumber(s) ==
    LET digits == CleanNumber(s)
        size == Min({n \in 0..Len(Mask) : Slots(n) = Min({Len(digits), Slots(Len(Mask))})})
    IN [i \in 1..size |-> IF Mask[i] = "#" THEN digits[Slots(i)] ELSE Mask[i]]

TypeOK ==
    /\ [nome |-> nome, email |-> email, senha |-> senha] \in Texts
    /\ telefone \in Seq(Digits \cup Range(Mask)) /\ telefone = formattedNumber(telefone)
    /\ {nomeLabel, senhaLabel} \subseteq {"", "obrigatorio"}
    /\ emailLabel \in {"", "obrigatorio", "invalido"}
    /\ sent \in Texts
    /\ alert \in {"none", "error"}

Init == /\ nome = "" /\ email = "" /\ senha = ""
        /\ telefone = <<>>
        /\ nomeLabel = "" /\ emailLabel = "" /\ senhaLabel = ""
        /\ sent = Nothing
        /\ alert = "none"

-----------------------------------------------------------------------------
(* shouldChangeCharactersIn                                                 *)

ChangeNome(new) ==
    /\ new # nome
    /\ nome' = new
    /\ nomeLabel' = IF nome = "" THEN "" ELSE nomeLabel
    /\ UNCHANGED <<email, senha, telefone, emailLabel, senhaLabel, sent, alert>>

\* Variant: the text before the change is validated.
ChangeEmailLate(new) ==
    /\ new # email
    /\ email' = new
    /\ emailLabel' = IF email = "good" THEN "" ELSE "invalido"
    /\ UNCHANGED <<nome, senha, telefone, nomeLabel, senhaLabel, sent, alert>>

ChangeEmail(new) ==
    /\ new # email
    /\ email' = new
    /\ emailLabel' = IF new = "good" THEN "" ELSE "invalido"
    /\ UNCHANGED <<nome, senha, telefone, nomeLabel, senhaLabel, sent, alert>>

\* Variant: the label is cleared when the text is deleted.
ChangeSenhaDeleted(new) ==
    /\ new # senha
    /\ senha' = new
    /\ senhaLabel' = IF new = "" THEN "" ELSE senhaLabel
    /\ UNCHANGED <<nome, email, telefone, nomeLabel, emailLabel, sent, alert>>

ChangeSenha(new) ==
    /\ new # senha
    /\ senha' = new
    /\ senhaLabel' = IF senha = "" THEN "" ELSE senhaLabel
    /\ UNCHANGED <<nome, email, telefone, nomeLabel, emailLabel, sent, alert>>

\* The characters after the first i, k of them, are replaced by s; the text is set
\* here, and the change refused.
ChangeTelefone(i, k, s) ==
    /\ telefone' = formattedNumber(SubSeq(telefone, 1, i) \o s
                                   \o SubSeq(telefone, i + k + 1, Len(telefone)))
    /\ UNCHANGED <<nome, email, senha, labels, sent, alert>>

-----------------------------------------------------------------------------
(* tappedCadastrarButton                                                    *)

\* Variant: the labels are not looked at.
checkFieldsTexts == nome = "filled" /\ email # "" /\ senha # ""

\* checkFields, once it has set the labels.
checkFields == /\ nome = "filled"
               /\ email # "" /\ emailLabel = ""
               /\ senha # "" /\ senhaLabel = ""

Cadastrar ==
    /\ nomeLabel' = IF nome \in {"", "blank"} THEN "obrigatorio" ELSE nomeLabel
    /\ emailLabel' = IF email = "" THEN "obrigatorio" ELSE emailLabel
    /\ senhaLabel' = IF senha = "" THEN "obrigatorio" ELSE senhaLabel
    /\ IF checkFields
       THEN sent' = [nome |-> nome, email |-> email, senha |-> senha] /\ alert' = "none"
       ELSE alert' = "error" /\ UNCHANGED sent
    /\ UNCHANGED <<nome, email, senha, telefone>>

Next == \/ \E new \in {"", "blank", "filled"} : ChangeNome(new)
        \/ \E new \in {"", "bad", "good"} : ChangeEmail(new)
        \/ \E new \in {"", "filled"} : ChangeSenha(new)
        \/ \E i \in 0..Len(telefone) :
              \/ \E d \in Digits : ChangeTelefone(i, 0, <<d>>)
              \/ i > 0 /\ ChangeTelefone(i - 1, 1, <<>>)
        \/ Cadastrar

Spec == Init /\ [][Next]_vars

-----------------------------------------------------------------------------
(* Properties.                                                              *)

\* A form that was refused can be corrected: once every field is right, in whatever order
\* they were filled in, emptied and refused before, the button sends it, although
\* labels left from an earlier refusal are part of the test (checkFields lines 106, 114).
Correctable == nome = "filled" /\ email = "good" /\ senha = "filled" => checkFields

\* Nothing else is ever sent: the e-mail was valid when the button was pressed, although
\* checkFields only looks at a label set by the last change (lines 106 and 193-201).
OnlyValidSent ==
    sent # Nothing => sent = [nome |-> "filled", email |-> "good", senha |-> "filled"]

\* Backspace at the end of the phone number always takes one digit away, and no edit
\* leaves the number between two forms of the mask (formattedNumber lines 29-46).
BackspaceDeletes ==
    telefone # <<>> =>
        LET front == formattedNumber(SubSeq(telefone, 1, Len(telefone) - 1))
        IN Len(CleanNumber(front)) + 1 = Len(CleanNumber(telefone))
=============================================================================
