-------------------------- MODULE MCHardwareRender --------------------------
EXTENDS HardwareRender
Software == [api |-> "none", cached |-> FALSE]
Egl(cached) == [api |-> "egl", cached |-> cached]
Vulkan == [api |-> "vulkan", cached |-> FALSE]
MCSessions == {<<Software, Egl(TRUE)>>, <<Egl(TRUE), Egl(FALSE)>>,
               <<Egl(TRUE), Vulkan>>, <<Vulkan, Egl(TRUE)>>}
=============================================================================
