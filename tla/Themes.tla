------------------------------- MODULE Themes -------------------------------
(***************************************************************************)
(* The scenarios of each band and the choice of one                        *)
(* (hable_ya/learner/themes.py, modes.py).  A theme is its domain, which   *)
(* is what the rows of the sessions keep; its prompt and its structures    *)
(* only fill the text of the Topic block.                                  *)
(***************************************************************************)
EXTENDS Naturals, Sequences, SequencesExt, FiniteSets

NEUTRAL_THEME == "conversación abierta"

A1_THEMES ==
    <<"presentarse", "pedir un café", "hablar de la familia",
      "los números y la hora", "comprar en el mercado", "pedir direcciones",
      "hablar del clima", "mi día normal", "comida favorita",
      "colores y ropa">>

A2_THEMES ==
    <<"planes para el fin de semana", "describir tu ciudad",
      "en el restaurante", "viajar en tren o autobús", "ir al médico",
      "vacaciones pasadas", "llamar por teléfono", "alquilar un piso",
      "contar una rutina diaria", "hablar del trabajo actual">>

B1_THEMES ==
    <<"experiencia inolvidable", "problema en el trabajo",
      "tu vida hace diez años", "planear un viaje con amigos",
      "consejos sobre salud", "película o libro que te marcó",
      "problemas con un electrodoméstico", "buscar trabajo",
      "redes sociales en tu vida", "un malentendido reciente">>

B2_THEMES ==
    <<"impacto del teletrabajo", "decisión difícil",
      "debate sobre dietas y salud", "tecnología y privacidad",
      "conflicto entre amigos o familia",
      "viajar por trabajo vs. por placer", "proyecto que lideraste",
      "costumbres de otra cultura", "cambios en tu ciudad",
      "educación de hoy">>

C1_THEMES ==
    <<"IA en la sociedad", "crisis climática y acción individual",
      "arte como protesta", "futuro del trabajo humano",
      "tradiciones que deberían desaparecer", "papel de los medios",
      "dilema ético reciente", "salud mental en la sociedad",
      "identidad cultural globalizada", "libro o ensayo transformador">>

THEMES_BY_LEVEL ==
    [band \in {"A1", "A2", "B1", "B2", "C1"} |->
        CASE band = "A1" -> A1_THEMES
          [] band = "A2" -> A2_THEMES
          [] band = "B1" -> B1_THEMES
          [] band = "B2" -> B2_THEMES
          [] band = "C1" -> C1_THEMES]

(* Mutant: off by one.                                                     *)
Window_OneLess(recent, cooldown) ==
    {recent[i] : i \in {j \in DOMAIN recent : j < cooldown}}

(* What recent_domains[-cooldown:] keeps: the end of the list.             *)
Window(recent, cooldown) ==
    IF cooldown = 0 THEN {}
    ELSE {recent[i] : i \in {j \in DOMAIN recent : j + cooldown > Len(recent)}}

(* The themes random.choice may return.                                    *)
get_session_theme(pool, recent, cooldown) ==
    LET candidates == pool \ Window(recent, cooldown)
    IN  IF candidates = {} THEN {NEUTRAL_THEME} ELSE candidates

(* What a session steered by a mode or a topic practises; no topic is "".  *)
ModeTheme(mode, topic) ==
    IF mode = "open" THEN topic
    ELSE IF topic = "" THEN mode ELSE mode \o ": " \o topic
=============================================================================
