SPECIFICATION CodeSpec
CONSTANTS
    Harts = {h1, h2}
    Lockstep = FALSE
    None = None
INVARIANT CodeTrue
