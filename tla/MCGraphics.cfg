SPECIFICATION MCSpec
CONSTANTS
    d1 = d1
    d2 = d2
    Devices = {d1, d2}
    NoDevice = NoDevice
    Descs <- MCDescs
    MaxResets = 2
    MaxFailures = 1
    NoFormat = NoFormat
INVARIANT DeviceFollowed
INVARIANT OutlineShowsItsFrame
INVARIANT SurfacesKept
INVARIANT ShowsThisFrame
